------------------------------- MODULE Guidance -------------------------------
(***************************************************************************)
(* What SkillRoster tells an Agent to do next (run_with_context,           *)
(* readiness_decision and report_actions in src/app.rs, the error envelope *)
(* of src/app/error.rs, src/action_context.rs).  Every answer, and every   *)
(* refusal, carries suggested actions: a command line, whether it mutates, *)
(* whether the user must confirm it.  One Agent follows them or asks for   *)
(* other things; meanwhile files and settings change and another session   *)
(* runs commands.  Commands hold the state lock, so each is one step.      *)
(*                                                                         *)
(* The store is that of Governance and SourceScan, reduced to what the     *)
(* suggestions depend on: one Skill in an Agent's root, and one behind a   *)
(* link that a Scan reads only with --source-root or with a permission     *)
(* that stands and was given to the directory that is there now.  Paging,  *)
(* full views, packages too large to fingerprint, paths that are not       *)
(* Unicode, Setup and lifecycle are left out.                              *)
(***************************************************************************)
EXTENDS Naturals, Sequences, FiniteSets

CONSTANTS Files,        \* what the Skill's directory may hold
          Ambiguous,    \* ... beside a namesake of other content
          MaxScans, MaxAsks, MaxEvents  \* bounds: Scans; commands of the Agent's own; events

ASSUME GuidanceAssumption ==
    /\ Ambiguous \subseteq Files
    /\ MaxScans \in Nat /\ MaxAsks \in Nat /\ MaxEvents \in Nat

VARIABLES
    files, settings,   \* the Skill's content; the Agent settings that decide visibility
    root,              \* the identity of the directory behind the link
    permits,           \* read permissions in the order granted: [stands, identity]
    scans,             \* completed Snapshots: files, settings, open to consolidation,
                       \* external package, used permission
    reported,          \* the Snapshots that have a Report
    plans,             \* [kind, scan, status]
    receipts,          \* [plan, reverses, status]
    invalid,           \* snapshot_invalidations
    orphan,            \* the journal of a command that never finished
    answer,            \* to the Agent's last command: [cmd, code, offers]
    quiet,             \* nothing happened since
    lesson,            \* the refusal that sent the Agent to the Scan it just ran
    asks, events

disk == <<files, settings, root>>
store == <<permits, scans, reported, plans, receipts, invalid, orphan>>
talk == <<answer, quiet, lesson>>
vars == <<disk, store, talk, asks, events>>

Command(name, id, roots) == [name |-> name, id |-> id, roots |-> roots]
To(name) == Command(name, 0, FALSE)
On(name, id) == Command(name, id, FALSE)
Offer(cmd, mutates, confirm, reason) ==
    [cmd |-> cmd, mutates |-> mutates, confirm |-> confirm, reason |-> reason]
ToRead(cmd, reason) == Offer(cmd, FALSE, FALSE, reason)
ToWrite(cmd, reason) == Offer(cmd, TRUE, TRUE, reason)
Scanning(reason) == <<ToRead(To("scan"), reason)>>

Nowhere == [plan |-> 0, reverses |-> 0]
NoAnswer == [cmd |-> To("none"), code |-> "ok", offers |-> <<>>]
NoLesson == [cmd |-> To("none"), code |-> "ok"]

Init ==
    /\ files \in Files /\ settings = 0 /\ root = 0
    /\ permits = <<>> /\ scans = <<>> /\ reported = {}
    /\ plans = <<>> /\ receipts = <<>> /\ invalid = {} /\ orphan = Nowhere
    /\ answer = NoAnswer /\ quiet = TRUE /\ lesson = NoLesson
    /\ asks = 0 /\ events = 0

(***************************************************************************)
(* Answers.                                                                *)
(***************************************************************************)
Offered == {answer.offers[n] : n \in DOMAIN answer.offers}

(* ActionContext::apply: a command line keeps the options of the command   *)
(* it answers, and a Scan that keeps --source-root needs confirmation;     *)
(* only the Scan that follows a grant drops it.                            *)
ContextKept(cmd, o) ==
    [o EXCEPT !.cmd.roots = @ \/ (cmd.roots /\ o.reason # "source_root_permission_recorded")]
WithContext(cmd, o) ==
    LET kept == ContextKept(cmd, o)
    IN  IF kept.cmd.name = "scan" /\ kept.cmd.roots THEN [kept EXCEPT !.confirm = TRUE] ELSE kept

(* The Agent sees the answer to a command of its own (me).                 *)
Answer(me, cmd, code, offers) ==
    IF ~me THEN quiet' = FALSE /\ UNCHANGED <<answer, lesson>>
    ELSE /\ answer' = [cmd |-> cmd, code |-> code,
                       offers |-> [n \in DOMAIN offers |-> WithContext(cmd, offers[n])]]
         /\ quiet' = TRUE
         /\ lesson' = IF quiet /\ cmd.name = "scan"
                          /\ \E o \in Offered : o.cmd = cmd /\ o.reason = answer.code
                      THEN [cmd |-> answer.cmd, code |-> answer.code] ELSE NoLesson

(* error_json_with_context: what a refusal suggests.                       *)
Rescans == {"snapshot_required", "library_content_rescan_required", "content_identity_rescan_required",
            "snapshot_rescan_required", "source_root_snapshot_rescan_required",
            "verified_skill_load_blocked"}
ReadSources == <<Offer(Command("scan", 0, TRUE), FALSE, TRUE, "trusted_canonical_sources_required")>>
Inspecting(code) == <<ToRead(On("inspect", Len(scans)), code)>>
Advice(code) ==
    CASE code \in Rescans -> Scanning(code)
      [] code = "trusted_canonical_sources_required" -> ReadSources
      [] code \in {"same_name_variants_ambiguous", "find_snapshot_changed"} -> Inspecting(code)
      [] OTHER -> <<>>
Refuse(me, cmd, code) == Answer(me, cmd, code, Advice(code)) /\ UNCHANGED <<disk, store>>

(***************************************************************************)
(* The Snapshot a command works from.                                      *)
(***************************************************************************)
Latest == Len(scans)

(* snapshot_invalidating_receipt *)
Undoes(r) == receipts[r].reverses # 0
Valid(r) == receipts[r].status = IF Undoes(r) THEN "undone" ELSE "applied"
InvalidatorsOfAny(n) == {r \in DOMAIN receipts : (\E i \in invalid : i[2] = r) /\ Valid(r)}
Invalidators(n) == {r \in DOMAIN receipts : <<n, r>> \in invalid /\ Valid(r)}
Invalidator(n) == CHOOSE r \in Invalidators(n) : \A q \in Invalidators(n) : q <= r

(* freeze_active_roots: a permission that stands is active while its path  *)
(* is still the directory it was given to.                                 *)
Standing == {p \in DOMAIN permits : permits[p].stands}
Drifted == {p \in Standing : permits[p].identity # root}
Active == Standing \ Drifted

(* snapshot_source_root_invalidations: permissions that were used.         *)
AnyRevoked(n) == DOMAIN permits # Active
UseRevoked(n) == scans[n].used # 0 /\ scans[n].used \notin Active

(* latest_scan *)
LatestScan ==
    IF Latest = 0 THEN "snapshot_required"
    ELSE IF Invalidators(Latest) # {} THEN "snapshot_rescan_required"
    ELSE IF UseRevoked(Latest) THEN "source_root_snapshot_rescan_required"
    ELSE "ok"

(* require_content_identity, of the Snapshot a Report is of.               *)
ContentIdentity(n) ==
    IF scans[n].settings # settings THEN "content_identity_rescan_required" ELSE "ok"
CurrentFacts == IF LatestScan # "ok" THEN LatestScan ELSE ContentIdentity(Latest)

(* store.recovery_required and journal_issues *)
RowNeedsRecovery == \E r \in DOMAIN receipts : receipts[r].status = "recovery_required"
JournalIssues == orphan # Nowhere \/ RowNeedsRecovery

(***************************************************************************)
(* Home and Status.                                                        *)
(***************************************************************************)
(* pending_plans: one that never finished first, then the newest ready one *)
(* of the Snapshot.                                                        *)
Unfinished == {p \in DOMAIN plans : plans[p].status \in {"applying", "recovery_required"}}
ReadyNow == {p \in DOMAIN plans : plans[p].status = "ready" /\ plans[p].scan = Latest}
Pending == Unfinished \cup ReadyNow
FirstPending ==
    LET first == IF Unfinished # {} THEN Unfinished ELSE ReadyNow
    IN  CHOOSE p \in first : \A q \in first : q <= p

Readiness ==
    IF JournalIssues THEN "recovery_required"
    ELSE IF Latest = 0 THEN "no_snapshot"
    ELSE IF LatestScan # "ok" THEN "rescan_required"
    ELSE IF Pending # {} THEN "plan_ready"
    ELSE IF Latest \notin reported THEN "report_required"
    ELSE "ready"

(* An Undo Receipt cannot itself be undone. *)
UndoAction(r) == <<ToWrite(On("undo", r), "receipt_undoable")>>
UndoOf(r) == IF Undoes(r) THEN <<>> ELSE UndoAction(r)

NextActions ==
    CASE Readiness = "recovery_required" -> <<ToRead(To("recovery"), "recovery_required")>>
      [] Readiness = "no_snapshot" -> Scanning("snapshot_required")
      [] Readiness = "rescan_required" ->
            IF Invalidators(Latest) = {} THEN Scanning(LatestScan)
            ELSE Scanning(LatestScan) \o UndoOf(Invalidator(Latest))
      [] Readiness = "plan_ready" ->
            <<ToRead(On("show", FirstPending), "pending_plan_requires_review")>>
      [] Readiness = "report_required" -> <<ToRead(To("report"), "scan_complete")>>
      [] OTHER -> <<>>

Status(me, cmd) ==
    /\ cmd.name = "status"
    /\ Answer(me, cmd, Readiness, NextActions) /\ UNCHANGED <<disk, store>>

(***************************************************************************)
(* Scan, Report and Find.                                                  *)
(***************************************************************************)
Consolidated ==
    \E r \in DOMAIN receipts : receipts[r].status = "applied" /\ plans[receipts[r].plan].kind = 1
ScanNow(roots) ==
    [files |-> files, settings |-> settings, open |-> ~Consolidated,
     external |-> IF roots THEN "temporary" ELSE IF Active # {} THEN "permitted" ELSE "unread",
     used |-> IF ~roots /\ Active # {} THEN CHOOSE p \in Active : TRUE ELSE 0]

Scan(me, cmd) ==
    /\ cmd.name = "scan" /\ Latest < MaxScans
    /\ scans' = Append(scans, ScanNow(cmd.roots))
    /\ Answer(me, cmd, "ok", <<ToRead(To("report"), "scan_complete")>>)
    /\ UNCHANGED <<disk, permits, reported, plans, receipts, invalid, orphan>>

HasFinding(n) == scans[n].external = "unread" \/ scans[n].open

(* A Report of the Snapshot, made or found.                                *)
Report(me, cmd) ==
    /\ cmd.name = "report"
    /\ IF CurrentFacts # "ok" THEN Refuse(me, cmd, CurrentFacts)
       ELSE /\ reported' = reported \cup {Latest}
            /\ Answer(me, cmd, "ok",
                      IF HasFinding(Latest)
                      THEN <<ToRead(On("finding", Latest), "top_finding_selected")>> ELSE <<>>)
            /\ UNCHANGED <<disk, permits, scans, plans, receipts, invalid, orphan>>

(* report --finding: that Report's Snapshot is the one that must still     *)
(* have the settings of now.  Its links are to be confirmed, or a Plan is  *)
(* on offer.                                                               *)
Finding(me, cmd) ==
    LET n == cmd.id IN
    /\ cmd.name = "finding" /\ n \in reported /\ HasFinding(n)
    /\ IF LatestScan # "ok" \/ ContentIdentity(n) # "ok"
       THEN Refuse(me, cmd, IF LatestScan # "ok" THEN LatestScan ELSE ContentIdentity(n))
       ELSE /\ Answer(me, cmd, "ok",
                 CASE scans[n].external = "unread" ->
                        <<ToWrite(On("confirm", n), "exact_local_source_read_permission_required")>>
                   [] scans[n].external # "unread" /\ scans[n].open /\ n = Latest ->
                        <<ToRead(On("plan", 1), "finding_action_available")>>
                   [] OTHER -> <<>>)
            /\ UNCHANGED <<disk, store>>

ContentDrifted == files # scans[Latest].files

(* find --load, and the pinned find without --load that it may suggest.    *)
LoadOutcome ==
    IF scans[Latest].files \in Ambiguous THEN "same_name_variants_ambiguous"
    ELSE IF ContentDrifted THEN "verified_skill_load_blocked"
    ELSE "ok"
FindOutcome(cmd) ==
    IF LatestScan # "ok" THEN LatestScan
    ELSE IF cmd.id \notin {0, Latest} THEN "find_snapshot_changed"
    ELSE IF ContentIdentity(Latest) # "ok" THEN ContentIdentity(Latest)
    ELSE IF cmd.name = "load" THEN LoadOutcome
    ELSE "ok"
Find(me, cmd) ==
    /\ cmd.name \in {"load", "inspect"}
    /\ Refuse(me, cmd, FindOutcome(cmd))

(***************************************************************************)
(* Source-root permissions.                                                *)
(***************************************************************************)
Confirm(me, cmd) ==
    LET refusal == IF LatestScan # "ok" THEN LatestScan
                   ELSE IF cmd.id # Latest THEN "source_root_finding_stale"
                   ELSE IF Drifted # {} THEN "source_root_permission_identity_drift" ELSE "ok" IN
    /\ cmd.name = "confirm" /\ cmd.id \in reported /\ scans[cmd.id].external = "unread"
    /\ IF refusal # "ok" THEN Refuse(me, cmd, refusal)
       ELSE /\ permits' = IF Standing # {} THEN permits
                         ELSE Append(permits, [stands |-> TRUE, identity |-> root])
            /\ Answer(me, cmd, "ok", Scanning("source_root_permission_recorded"))
            /\ UNCHANGED <<disk, scans, reported, plans, receipts, invalid, orphan>>

Revoke(me, cmd) ==
    /\ cmd.name = "revoke" /\ cmd.id \in DOMAIN permits
    /\ IF cmd.id \notin Standing THEN Refuse(me, cmd, "source_root_already_revoked")
       ELSE /\ permits' = [permits EXCEPT ![cmd.id].stands = FALSE]
            /\ Answer(me, cmd, "ok", Scanning("source_root_permission_revoked"))
            /\ UNCHANGED <<disk, scans, reported, plans, receipts, invalid, orphan>>

(***************************************************************************)
(* Plan, Apply, Undo and recovery.                                         *)
(***************************************************************************)
(* A Plan consolidates the Skill (1) or changes a Roster that the Skill    *)
(* behind the link is in (2).                                              *)
ConsolidationRefusal ==
    IF ~scans[Latest].open THEN "no_effective_change"
    ELSE IF ContentDrifted THEN "library_content_rescan_required"
    ELSE "ok"
RosterRefusal ==
    CASE scans[Latest].external = "unread" -> "trusted_canonical_sources_required"
      [] scans[Latest].external = "permitted" -> "roster_mutation_scope_read_only"
      [] scans[Latest].external = "temporary" -> "ok"
PlanRefusal(kind) ==
    IF RowNeedsRecovery THEN "recovery_first"
    ELSE IF CurrentFacts # "ok" THEN CurrentFacts
    ELSE IF kind = 1 THEN ConsolidationRefusal
    ELSE RosterRefusal

ApplyOf(p) == ToWrite(On("apply", p), "plan_ready")
MakePlan(me, cmd) ==
    LET p == Len(plans) + 1 IN
    /\ cmd.name = "plan"
    /\ IF PlanRefusal(cmd.id) # "ok" THEN Refuse(me, cmd, PlanRefusal(cmd.id))
       ELSE /\ plans' = Append(plans, [kind |-> cmd.id, scan |-> Latest, status |-> "ready"])
            /\ Answer(me, cmd, "ok",
                      <<ToRead(On("show", p), "plan_detail_available"), ApplyOf(p)>>)
            /\ UNCHANGED <<disk, permits, scans, reported, receipts, invalid, orphan>>

Show(me, cmd) ==
    /\ cmd.name = "show" /\ cmd.id \in DOMAIN plans
    /\ Answer(me, cmd, "ok", IF plans[cmd.id].status = "ready" THEN <<ApplyOf(cmd.id)>> ELSE <<>>)
    /\ UNCHANGED <<disk, store>>

ApplyRefusal(p) ==
    IF RowNeedsRecovery THEN "recovery_first"
    ELSE IF plans[p].status # "ready" THEN "plan_not_ready"
    ELSE IF JournalIssues THEN "journal_requires_recovery"
    ELSE IF LatestScan # "ok" THEN LatestScan
    ELSE IF plans[p].scan # Latest THEN "plan_snapshot_stale"
    ELSE IF ContentIdentity(Latest) # "ok" THEN ContentIdentity(Latest)
    ELSE IF ~ContentDrifted THEN "ok"
    ELSE IF plans[p].kind = 1 THEN "library_content_rescan_required"
    ELSE "state_drift"

(* apply_command as the engine ends: refused, stopped or failed before a   *)
(* journal (a failure puts the Plan back to ready), stopped or failed      *)
(* after one, or with a Receipt.  The Undo of that Receipt is offered      *)
(* whatever became of it.                                                  *)
Apply(me, cmd) ==
    LET p == cmd.id
        r == Len(receipts) + 1
        Becomes(s) == plans' = [plans EXCEPT ![p].status = s]
        Journaled == orphan' = [plan |-> p, reverses |-> 0]
    IN
    /\ cmd.name = "apply" /\ p \in DOMAIN plans
    /\ \/ ApplyRefusal(p) # "ok" /\ Refuse(me, cmd, ApplyRefusal(p))
       \/ /\ ApplyRefusal(p) = "ok" /\ Becomes("applying")
          /\ (UNCHANGED orphan \/ Journaled)
          /\ Answer(me, cmd, "killed", <<>>)
          /\ UNCHANGED <<disk, permits, scans, reported, receipts, invalid>>
       \/ ApplyRefusal(p) = "ok" /\ Refuse(me, cmd, "command_failed")
       \/ /\ ApplyRefusal(p) = "ok" /\ Becomes("recovery_required") /\ Journaled
          /\ Answer(me, cmd, "command_failed", <<>>)
          /\ UNCHANGED <<disk, permits, scans, reported, receipts, invalid>>
       \/ \E s \in {"applied", "failed_rolled_back", "recovery_required"} :
            /\ ApplyRefusal(p) = "ok" /\ Becomes(s)
            /\ receipts' = Append(receipts, [plan |-> p, reverses |-> 0, status |-> s])
            /\ invalid' = IF s = "applied" THEN invalid \cup {<<Latest, r>>} ELSE invalid
            /\ Answer(me, cmd, s, (IF s = "applied" THEN Scanning("verified_mutation_requires_rescan")
                                   ELSE <<>>) \o UndoAction(r))
            /\ UNCHANGED <<disk, permits, scans, reported, orphan>>

UndoRefusal(r) ==
    IF receipts[r].status # "applied" \/ \E u \in DOMAIN receipts : receipts[u].reverses = r
    THEN "not_undoable"
    ELSE IF JournalIssues THEN "journal_requires_recovery"
    ELSE "ok"

Undo(me, cmd) ==
    LET r == cmd.id
        u == Len(receipts) + 1
        Reversal(s) == [plan |-> receipts[r].plan, reverses |-> r, status |-> s]
    IN
    /\ cmd.name = "undo" /\ r \in DOMAIN receipts
    /\ \/ UndoRefusal(r) # "ok" /\ Refuse(me, cmd, UndoRefusal(r))
       \/ UndoRefusal(r) = "ok" /\ Refuse(me, cmd, "state_drift")
       \/ /\ UndoRefusal(r) = "ok"
          /\ orphan' = [plan |-> receipts[r].plan, reverses |-> r]
          /\ Answer(me, cmd, "killed", <<>>)
          /\ UNCHANGED <<disk, permits, scans, reported, plans, receipts, invalid>>
       \/ /\ UndoRefusal(r) = "ok"
          /\ receipts' = Append([receipts EXCEPT ![r].status = "undone"], Reversal("undone"))
          /\ invalid' = invalid \cup {<<Latest, u>>}
          /\ Answer(me, cmd, "undone", Scanning("verified_mutation_requires_rescan"))
          /\ UNCHANGED <<disk, permits, scans, reported, plans, orphan>>
       \/ /\ UndoRefusal(r) = "ok"
          /\ receipts' = Append(receipts, Reversal("recovery_required"))
          /\ Answer(me, cmd, "recovery_required", <<>>)
          /\ UNCHANGED <<disk, permits, scans, reported, plans, invalid, orphan>>

(* lifecycle recovery imports the orphan journal; nothing resolves it.     *)
Recover(me, cmd) ==
    /\ cmd.name = "recovery"
    /\ IF orphan = Nowhere THEN UNCHANGED <<plans, receipts, orphan>>
       ELSE /\ orphan' = Nowhere
            /\ receipts' = Append(receipts, [plan |-> orphan.plan, reverses |-> orphan.reverses,
                                             status |-> "recovery_required"])
            /\ plans' = IF orphan.reverses # 0 THEN plans
                        ELSE [plans EXCEPT ![orphan.plan].status = "recovery_required"]
    /\ Answer(me, cmd, "ok", <<>>)
    /\ UNCHANGED <<disk, permits, scans, reported, invalid>>

(***************************************************************************)
(* The Agent, the other session and the world.                             *)
(***************************************************************************)
Run(me, cmd) ==
    \/ Status(me, cmd) \/ Scan(me, cmd) \/ Report(me, cmd) \/ Finding(me, cmd) \/ Find(me, cmd)
    \/ Confirm(me, cmd) \/ Revoke(me, cmd)
    \/ MakePlan(me, cmd) \/ Show(me, cmd) \/ Apply(me, cmd) \/ Undo(me, cmd) \/ Recover(me, cmd)

(* Follow the first suggestion; when there is none, return to Home.        *)
FollowFirst ==
    /\ IF answer.offers # <<>> THEN Run(TRUE, Head(answer.offers).cmd)
       ELSE (answer.cmd.name # "status" \/ ~quiet) /\ Run(TRUE, To("status"))
    /\ UNCHANGED <<asks, events>>

(* ... or do something else: another suggestion, or a command of its own   *)
(* (a plain Scan that nothing suggests is left to the other session).      *)
Own == {o.cmd : o \in Offered} \cup {Command("scan", 0, TRUE), To("report"), To("load")}
         \cup {On("finding", n) : n \in reported} \cup {On("plan", kind) : kind \in {1, 2}}
         \cup {On("show", p) : p \in DOMAIN plans} \cup {On("revoke", p) : p \in DOMAIN permits}
Ask ==
    /\ asks < MaxAsks /\ asks' = asks + 1 /\ UNCHANGED events
    /\ \E cmd \in Own : Run(TRUE, cmd)

Event == events < MaxEvents /\ events' = events + 1 /\ UNCHANGED asks
Elsewhere ==
    /\ Event
    /\ \E cmd \in {To("scan")} \cup {On("apply", p) : p \in ReadyNow}
                    \cup {On("revoke", p) : p \in Standing} : Run(FALSE, cmd)
Edit ==
    /\ Event /\ quiet' = FALSE
    /\ files' \in Files \ {files} /\ UNCHANGED <<settings, root, store, answer, lesson>>
Configure ==
    /\ Event /\ quiet' = FALSE
    /\ settings' = settings + 1 /\ UNCHANGED <<files, root, store, answer, lesson>>
Replace ==
    /\ Event /\ quiet' = FALSE
    /\ root' = root + 1 /\ UNCHANGED <<files, settings, store, answer, lesson>>

Next == FollowFirst \/ Ask \/ Elsewhere \/ Edit \/ Configure \/ Replace
Spec == Init /\ [][Next]_vars

(* The Agent keeps following the first suggestion, and the user agrees.    *)
FairSpec == Spec /\ WF_vars(FollowFirst)

(***************************************************************************)
(* Properties.                                                             *)
(***************************************************************************)
Taken(o) == events' = events /\ answer'.cmd = o.cmd

(* A suggestion followed at once, with nothing changed since, is not       *)
(* refused for anything the state directory or the settings already said;  *)
(* the files themselves are read only by the commands that need them.      *)
(* Oversight names the suggestions made without looking: an Undo after an  *)
(* Apply that failed; a Plan shown that is no longer current; show,        *)
(* finding and plan while journals block; a page of an older Report; the   *)
(* confirmation of a directory whose standing permission is of another     *)
(* one; Home's Report under other settings; inspection of a Snapshot that  *)
(* is itself to be rescanned.                                              *)
Refused(code) ==
    code \in {"snapshot_required", "snapshot_rescan_required", "source_root_snapshot_rescan_required",
              "content_identity_rescan_required", "find_snapshot_changed", "recovery_first",
              "journal_requires_recovery", "plan_not_ready", "plan_snapshot_stale", "not_undoable",
              "no_effective_change", "trusted_canonical_sources_required", "roster_mutation_scope_read_only",
              "source_root_finding_stale", "source_root_permission_identity_drift",
              "source_root_already_revoked"}
Oversight(o) ==
    \/ answer.cmd.name = "apply" /\ answer.code # "applied" /\ o.cmd.name = "undo"
    \/ answer.cmd.name = "show" /\ (CurrentFacts # "ok" \/ plans[answer.cmd.id].scan # Latest)
    \/ answer.cmd.name \in {"show", "finding", "plan"} /\ JournalIssues
    \/ answer.cmd.name = "finding" /\ answer.cmd.id # Latest
    \/ answer.cmd.name = "finding" /\ o.cmd.name = "confirm" /\ Drifted # {}
    \/ answer.cmd.name = "status" /\ o.cmd.name = "report" /\ CurrentFacts # "ok"
    \/ answer.code = "find_snapshot_changed" /\ CurrentFacts # "ok"
OffersHold ==
    [][\A o \in Offered : Taken(o) /\ quiet /\ ~Oversight(o) => ~Refused(answer'.code)]_vars

(* A command refused until the next Scan is not refused for the same       *)
(* reason after that Scan, when nothing changed in between.  OldPayload is *)
(* the exception: a finding of a Report is checked against the settings of *)
(* that Report's Snapshot, which no later Scan makes current again, yet    *)
(* its refusal asks for a Scan.                                            *)
OldPayload ==
    /\ lesson.cmd.name = "finding" /\ lesson.code = "content_identity_rescan_required"
    /\ ContentIdentity(lesson.cmd.id) # "ok"
ScanCures ==
    [][quiet /\ lesson # NoLesson /\ ~OldPayload /\ answer'.cmd = lesson.cmd =>
         answer'.code # lesson.code]_vars

(* Whoever keeps following the first suggestion reaches a Home that is     *)
(* ready, has a Plan to show, or asks for recovery.                        *)
LeadsOut == <>[](Readiness \in {"ready", "plan_ready", "recovery_required"})
=============================================================================
