---------------------------- MODULE GuidanceProofs ----------------------------
(***************************************************************************)
(* Proofs about Guidance, for any files, any number of Scans and of        *)
(* commands and any events between them: a suggestion followed at once is  *)
(* not refused for what was known when it was made, and a refusal that     *)
(* asks for a Scan is cured by one.                                        *)
(***************************************************************************)
EXTENDS Guidance, FiniteSetTheorems, WellFoundedInduction, TLAPS

Names == {"none", "status", "scan", "report", "finding", "load", "inspect", "confirm", "revoke",
          "plan", "show", "apply", "undo", "recovery"}
Codes ==
    Rescans \cup
    {"ok", "source_root_snapshot_rescan_required", "recovery_required", "no_snapshot", "rescan_required",
     "plan_ready", "report_required", "ready", "find_snapshot_changed", "same_name_variants_ambiguous",
     "trusted_canonical_sources_required", "source_root_finding_stale", "source_root_already_revoked",
     "source_root_permission_identity_drift",
     "recovery_first", "no_effective_change", "roster_mutation_scope_read_only", "plan_not_ready",
     "journal_requires_recovery", "plan_snapshot_stale", "state_drift", "killed", "command_failed",
     "applied", "failed_rolled_back", "not_undoable", "undone"}
Reasons ==
    Codes \cup
    {"source_root_permission_recorded", "source_root_permission_revoked", "receipt_undoable",
     "pending_plan_requires_review", "scan_complete", "top_finding_selected", "finding_action_available",
     "exact_local_source_read_permission_required", "plan_detail_available",
     "verified_mutation_requires_rescan"}
Commands == [name : Names, id : Nat, roots : BOOLEAN]
Suggestions == [cmd : Commands, mutates : BOOLEAN, confirm : BOOLEAN, reason : Reasons]
Observations ==
    [files : Files, settings : Nat, open : BOOLEAN, external : {"unread", "permitted", "temporary"}, used : Nat]
Permissions == [stands : BOOLEAN, identity : Nat]
PlanRows ==
    [kind : Nat, scan : Nat,
     status : {"ready", "applying", "recovery_required", "applied", "failed_rolled_back"}]
ReceiptRows ==
    [plan : Nat, reverses : Nat, status : {"applied", "failed_rolled_back", "recovery_required", "undone"}]

StoreFormed ==
    /\ files \in Files /\ settings \in Nat /\ root \in Nat
    /\ permits \in Seq(Permissions) /\ scans \in Seq(Observations) /\ reported \subseteq Nat
    /\ plans \in Seq(PlanRows) /\ receipts \in Seq(ReceiptRows)
    /\ invalid \subseteq (0 .. Latest) \X Nat
    /\ orphan \in [plan : Nat, reverses : 0 .. Len(receipts)]
TalkFormed ==
    /\ answer \in [cmd : Commands, code : Codes, offers : Seq(Suggestions)]
    /\ lesson \in [cmd : Commands, code : Codes]
    /\ quiet \in BOOLEAN /\ asks \in Nat /\ events \in Nat

(* An Undo and the Receipt it took back both say so, unless it needs recovery. *)
Reversals ==
    \A u \in DOMAIN receipts :
        LET r == receipts[u].reverses
        IN  /\ r \in 0 .. Len(receipts)
            /\ r # 0 => /\ receipts[u].status \in {"undone", "recovery_required"}
                        /\ receipts[u].status = "undone" => receipts[r].status = "undone"

(* A command that state directory and settings do not speak against.       *)
Stands(c) ==
    /\ c.name \notin {"load", "revoke"}
    /\ c.name = "report" => CurrentFacts = "ok"
    /\ c.name = "finding" => LatestScan = "ok" /\ ContentIdentity(c.id) = "ok"
    /\ c.name = "inspect" => c.id = Latest /\ CurrentFacts = "ok"
    /\ c.name = "confirm" => c.id = Latest /\ LatestScan = "ok" /\ Drifted = {}
    /\ c.name = "plan" => c.id = 1 /\ ~RowNeedsRecovery /\ CurrentFacts = "ok" /\ scans[Latest].open
    /\ c.name = "apply" => /\ plans[c.id].status = "ready" /\ plans[c.id].scan = Latest
                           /\ ~JournalIssues /\ CurrentFacts = "ok"
    /\ c.name = "undo" => UndoRefusal(c.id) = "ok"
OffersStand == quiet => \A o \in Offered : Oversight(o) \/ Stands(o.cmd)

Says(o, name, id, reason) ==
    o \in Suggestions /\ o.cmd.name = name /\ o.cmd.id = id /\ o.reason = reason
Gives(offers) == {offers[n] : n \in DOMAIN offers}

(* A suggestion that stands, or that is one of the oversights.             *)
Backed(name, id) ==
    \A c \in Commands : c.name = name /\ c.id = id =>
        Stands(c) \/ \A o \in Suggestions : o.cmd = c => Oversight(o)

(* Only a refusal gives its own code as the reason of a Scan: one of these.*)
Cured == Rescans \cup {"trusted_canonical_sources_required"}
Reasoned(o, code) ==
    o.cmd.name = "scan" /\ o.reason = code =>
        code \in Cured /\ (code = "trusted_canonical_sources_required" => o.cmd.roots)
ScansReasoned == \A o \in Offered : Reasoned(o, answer.code)

(* What the Agent knows after a Scan it was sent to.                       *)
Fresh ==
    /\ LatestScan = "ok" /\ ContentIdentity(Latest) = "ok" /\ ~ContentDrifted
    /\ lesson.code = "trusted_canonical_sources_required" => scans[Latest].external # "unread"
ScanDone == quiet /\ lesson # NoLesson => answer.code = "ok" /\ lesson.code \in Cured /\ Fresh

GuidanceInv == StoreFormed /\ TalkFormed /\ Reversals /\ OffersStand /\ ScansReasoned /\ ScanDone

-----------------------------------------------------------------------------
LEMMA LatestIs ==
  ASSUME StoreFormed
  PROVE  /\ Latest \in Nat /\ DOMAIN scans = 1 .. Latest
         /\ DOMAIN receipts = 1 .. Len(receipts) /\ Len(receipts) \in Nat
         /\ DOMAIN plans = 1 .. Len(plans) /\ Len(plans) \in Nat
  BY DEF StoreFormed, Latest

(* Suggestions.                                                            *)
LEMMA CommandIs ==
  ASSUME NEW name \in Names, NEW id \in Nat, NEW roots \in BOOLEAN
  PROVE  /\ Command(name, id, roots) \in Commands
         /\ To(name) \in Commands /\ On(name, id) \in Commands
         /\ Command(name, id, roots).name = name /\ Command(name, id, roots).id = id
         /\ Command(name, id, roots).roots = roots
         /\ To(name).name = name /\ To(name).id = 0 /\ ~To(name).roots
         /\ On(name, id).name = name /\ On(name, id).id = id /\ ~On(name, id).roots
  BY DEF Command, Commands, To, On

LEMMA OfferIs ==
  ASSUME NEW c \in Commands, NEW reason \in Reasons
  PROVE  /\ ToRead(c, reason) \in Suggestions
         /\ ToWrite(c, reason) \in Suggestions
         /\ Offer(c, FALSE, TRUE, reason) \in Suggestions
         /\ ToRead(c, reason).cmd = c /\ ToRead(c, reason).reason = reason
         /\ ToWrite(c, reason).cmd = c /\ ToWrite(c, reason).reason = reason
         /\ Offer(c, FALSE, TRUE, reason).cmd = c /\ Offer(c, FALSE, TRUE, reason).reason = reason
  BY DEF ToRead, ToWrite, Offer, Suggestions

LEMMA WithContextIs ==
  ASSUME NEW cmd \in Commands, NEW o \in Suggestions
  PROVE  /\ WithContext(cmd, o) \in Suggestions
         /\ WithContext(cmd, o).cmd.name = o.cmd.name /\ WithContext(cmd, o).cmd.id = o.cmd.id
         /\ WithContext(cmd, o).reason = o.reason
         /\ o.cmd.roots => WithContext(cmd, o).cmd.roots
  <1> DEFINE roots == o.cmd.roots \/ (cmd.roots /\ o.reason # "source_root_permission_recorded")
             kept == ContextKept(cmd, o)
  <1>1. /\ kept \in Suggestions /\ kept.cmd.name = o.cmd.name /\ kept.cmd.id = o.cmd.id
        /\ kept.reason = o.reason /\ kept.cmd.roots = roots
    BY DEF ContextKept, Suggestions, Commands
  <1>2. /\ [kept EXCEPT !.confirm = TRUE] \in Suggestions
        /\ [kept EXCEPT !.confirm = TRUE].cmd = kept.cmd
        /\ [kept EXCEPT !.confirm = TRUE].reason = kept.reason
    BY <1>1 DEF Suggestions
  <1> QED  BY <1>1, <1>2 DEF WithContext

LEMMA OffersMade ==
  /\ \A reason \in Reasons : Says(ToRead(To("scan"), reason), "scan", 0, reason)
  /\ Says(ToRead(To("report"), "scan_complete"), "report", 0, "scan_complete")
  /\ Says(ToRead(To("recovery"), "recovery_required"), "recovery", 0, "recovery_required")
  /\ \A n \in Nat :
        /\ Says(ToRead(On("finding", n), "top_finding_selected"), "finding", n, "top_finding_selected")
        /\ Says(ToRead(On("show", n), "pending_plan_requires_review"), "show", n, "pending_plan_requires_review")
        /\ Says(ToRead(On("show", n), "plan_detail_available"), "show", n, "plan_detail_available")
        /\ Says(ToRead(On("plan", n), "finding_action_available"), "plan", n, "finding_action_available")
        /\ Says(ToWrite(On("confirm", n), "exact_local_source_read_permission_required"), "confirm", n,
                "exact_local_source_read_permission_required")
        /\ Says(ToWrite(On("apply", n), "plan_ready"), "apply", n, "plan_ready")
        /\ Says(ToWrite(On("undo", n), "receipt_undoable"), "undo", n, "receipt_undoable")
  <1>1. /\ {"report", "recovery", "finding", "show", "plan", "confirm", "apply", "undo", "scan"} \subseteq Names
        /\ {"scan_complete", "recovery_required", "top_finding_selected", "pending_plan_requires_review",
            "plan_detail_available", "finding_action_available", "exact_local_source_read_permission_required",
            "plan_ready", "receipt_undoable"} \subseteq Reasons
    BY DEF Names, Reasons, Codes
  <1> QED  BY <1>1 DEF Says, ToRead, ToWrite, Offer, On, To, Command, Suggestions, Commands

LEMMA OffersAre ==
  /\ Gives(<<>>) = {}
  /\ \A a : Gives(<<a>>) = {a}
  /\ \A a, b : Gives(<<a, b>>) = {a, b}
  BY DEF Gives

LEMMA Joined ==
  ASSUME NEW S, NEW a \in S, NEW b \in S
  PROVE  <<a>> \o <<b>> = <<a, b>> /\ <<>> \o <<b>> = <<b>> /\ <<a>> \o <<>> = <<a>>
  <1>1. <<a>> \in Seq(S) /\ <<b>> \in Seq(S) /\ <<a, b>> \in Seq(S)
    OBVIOUS
  <1>2. /\ <<a>> \o <<b>> \in Seq(S) /\ Len(<<a>> \o <<b>>) = 2 /\ Len(<<a, b>>) = 2
        /\ \A i \in 1 .. 2 : (<<a>> \o <<b>>)[i] = <<a, b>>[i]
    BY <1>1
  <1>3. \A s, t \in Seq(S) : Len(s) = 2 /\ Len(t) = 2 /\ (\A i \in 1 .. 2 : s[i] = t[i]) => s = t
    OBVIOUS
  <1>4. <<a>> \o <<b>> = <<a, b>>
    BY <1>1, <1>2, <1>3, Zenon
  <1> QED  BY <1>1, <1>4

LEMMA AnswerIs ==
  ASSUME TalkFormed, NEW me \in BOOLEAN, NEW cmd \in Commands, NEW code \in Codes, NEW offers \in Seq(Suggestions),
         Answer(me, cmd, code, offers), asks' \in Nat, events' \in Nat
  PROVE  /\ TalkFormed'
         /\ ~me => ~quiet' /\ UNCHANGED answer
         /\ me => /\ answer'.cmd = cmd /\ answer'.code = code /\ quiet'
                  /\ Offered' = {WithContext(cmd, o) : o \in Gives(offers)}
                  /\ cmd.name # "scan" => lesson' = NoLesson
  <1>1. CASE ~me
    BY <1>1 DEF Answer, TalkFormed
  <1>2. CASE me
    <2> DEFINE new == [n \in DOMAIN offers |-> WithContext(cmd, offers[n])]
    <2>1. answer' = [cmd |-> cmd, code |-> code, offers |-> new] /\ quiet' = TRUE
      BY <1>2 DEF Answer
    <2>2. new \in Seq(Suggestions) /\ DOMAIN new = DOMAIN offers
      BY WithContextIs
    <2>3. NoLesson \in [cmd : Commands, code : Codes]
      BY CommandIs DEF NoLesson, Names, Codes
    <2>4. [cmd |-> answer.cmd, code |-> answer.code] \in [cmd : Commands, code : Codes]
      BY DEF TalkFormed
    <2>5. lesson' \in [cmd : Commands, code : Codes]
      BY <1>2, <2>3, <2>4 DEF Answer
    <2>6. cmd.name # "scan" => lesson' = NoLesson
      BY <1>2 DEF Answer
    <2>7. Offered' = {new[n] : n \in DOMAIN offers}
      BY <2>1, <2>2 DEF Offered
    <2>8. {new[n] : n \in DOMAIN offers} = {WithContext(cmd, o) : o \in Gives(offers)}
      BY DEF Gives
    <2> HIDE DEF new
    <2>9. TalkFormed'
      BY <2>1, <2>2, <2>5 DEF TalkFormed
    <2> QED  BY <1>2, <2>1, <2>6, <2>7, <2>8, <2>9
  <1> QED  BY <1>1, <1>2

(* The only suggestions of a refusal are a Scan and a look at the Snapshot.*)
LEMMA AdviceIs ==
  ASSUME StoreFormed, NEW code \in Codes
  PROVE  /\ Advice(code) \in Seq(Suggestions)
         /\ \A o \in Gives(Advice(code)) :
               /\ o \in Suggestions /\ o.reason = code
               /\ \/ o.cmd.name = "scan" /\ Reasoned(o, code)
                  \/ /\ o.cmd.name = "inspect" /\ o.cmd.id = Latest
                     /\ code \in {"same_name_variants_ambiguous", "find_snapshot_changed"}
  <1>1. CASE code \in Rescans
    <2>1. Advice(code) = <<ToRead(To("scan"), code)>>
      BY <1>1 DEF Advice, Scanning, Rescans
    <2>2. /\ ToRead(To("scan"), code) \in Suggestions /\ ToRead(To("scan"), code).reason = code
          /\ ToRead(To("scan"), code).cmd.name = "scan" /\ code # "trusted_canonical_sources_required"
      <3>1. To("scan") \in Commands /\ To("scan").name = "scan"
        BY CommandIs DEF Names
      <3>2. code \in Reasons /\ code # "trusted_canonical_sources_required"
        BY <1>1 DEF Reasons, Rescans
      <3> QED  BY <3>1, <3>2, OfferIs
    <2> QED  BY <1>1, <2>1, <2>2, OffersAre DEF Reasoned, Cured
  <1>2. CASE code = "trusted_canonical_sources_required"
    <2> DEFINE o == Offer(Command("scan", 0, TRUE), FALSE, TRUE, "trusted_canonical_sources_required")
    <2>1. Advice(code) = <<o>>
      BY <1>2 DEF Advice, Rescans, ReadSources
    <2>2. o \in Suggestions /\ o.reason = code /\ o.cmd.name = "scan" /\ o.cmd.roots
      <3>1. /\ Command("scan", 0, TRUE) \in Commands /\ Command("scan", 0, TRUE).name = "scan"
            /\ Command("scan", 0, TRUE).roots
        <4>1. "scan" \in Names /\ 0 \in Nat /\ TRUE \in BOOLEAN
          BY DEF Names
        <4> QED  BY <4>1, CommandIs, Zenon
      <3>2. code \in Reasons
        BY DEF Reasons
      <3> QED  BY <1>2, <3>1, <3>2, OfferIs
    <2>3. Reasoned(o, code)
      BY <1>2, <2>2 DEF Reasoned, Cured
    <2> HIDE DEF o
    <2> QED  BY <2>1, <2>2, <2>3, OffersAre
  <1>3. CASE code \in {"same_name_variants_ambiguous", "find_snapshot_changed"}
    <2> DEFINE o == ToRead(On("inspect", Latest), code)
    <2>1. Advice(code) = <<o>>
      BY <1>3 DEF Advice, Rescans, Inspecting, Latest
    <2>2. o \in Suggestions /\ o.reason = code /\ o.cmd.name = "inspect" /\ o.cmd.id = Latest
      <3>1. On("inspect", Latest) \in Commands /\ On("inspect", Latest).name = "inspect"
            /\ On("inspect", Latest).id = Latest
        <4>1. "inspect" \in Names /\ Latest \in Nat
          BY LatestIs DEF Names
        <4> QED  BY <4>1, CommandIs, Zenon
      <3> QED  BY <3>1, OfferIs DEF Reasons
    <2> HIDE DEF o
    <2> QED  BY <1>3, <2>1, <2>2, OffersAre
  <1>4. CASE code \notin Rescans \cup {"trusted_canonical_sources_required", "same_name_variants_ambiguous",
                                       "find_snapshot_changed"}
    <2>1. Advice(code) = <<>>
      BY <1>4 DEF Advice
    <2> QED  BY <2>1, OffersAre
  <1> QED  BY <1>1, <1>2, <1>3, <1>4

(* What one Answer leaves for the invariant to be shown of its offers.     *)
LEMMA OffersFollow ==
  ASSUME TalkFormed, NEW cmd \in Commands, NEW code \in Codes, NEW offers \in Seq(Suggestions),
         Answer(TRUE, cmd, code, offers), asks' \in Nat, events' \in Nat, cmd.name # "scan",
         \A o \in Gives(offers) : o \in Suggestions /\ Reasoned(o, code),
         \A c \in Commands : (\E o \in Gives(offers) : c.name = o.cmd.name /\ c.id = o.cmd.id) =>
             Stands(c)' \/ \A o \in Suggestions : o.cmd = c => Oversight(o)'
  PROVE  TalkFormed' /\ OffersStand' /\ ScansReasoned' /\ ScanDone'
  <1>1. /\ TalkFormed' /\ answer'.code = code /\ lesson' = NoLesson
        /\ Offered' = {WithContext(cmd, o) : o \in Gives(offers)}
    BY AnswerIs
  <1>2. OffersStand'
    <2> SUFFICES ASSUME NEW o \in Gives(offers)
                 PROVE  Stands(WithContext(cmd, o).cmd)' \/ Oversight(WithContext(cmd, o))'
      BY <1>1 DEF OffersStand
    <2>1. /\ WithContext(cmd, o) \in Suggestions
          /\ WithContext(cmd, o).cmd.name = o.cmd.name /\ WithContext(cmd, o).cmd.id = o.cmd.id
      BY WithContextIs
    <2>2. WithContext(cmd, o).cmd \in Commands
      BY <2>1 DEF Suggestions
    <2> QED  BY <2>1, <2>2
  <1>3. ScansReasoned'
    <2> SUFFICES ASSUME NEW o \in Gives(offers)
                 PROVE  Reasoned(WithContext(cmd, o), code)
      BY <1>1 DEF ScansReasoned
    <2> QED  BY WithContextIs DEF Reasoned
  <1> QED  BY <1>1, <1>2, <1>3 DEF ScanDone

-----------------------------------------------------------------------------
(* What a command answers. *)
LEMMA FactsAre ==
  /\ LatestScan \in {"ok", "snapshot_required", "snapshot_rescan_required", "source_root_snapshot_rescan_required"}
  /\ \A n : ContentIdentity(n) \in {"ok", "content_identity_rescan_required"}
  /\ CurrentFacts = "ok" <=> LatestScan = "ok" /\ ContentIdentity(Latest) = "ok"
  /\ CurrentFacts # "ok" => CurrentFacts \in {LatestScan, "content_identity_rescan_required"}
  /\ RowNeedsRecovery => JournalIssues
  BY DEF LatestScan, ContentIdentity, CurrentFacts, JournalIssues

LEMMA FactsAreCodes ==
  /\ LatestScan \in Codes /\ CurrentFacts \in Codes /\ \A n : ContentIdentity(n) \in Codes
  /\ \A cmd : FindOutcome(cmd) \in Codes
  /\ \A r : UndoRefusal(r) \in {"ok", "not_undoable", "journal_requires_recovery"}
  <1>1. LatestScan \in Codes /\ CurrentFacts \in Codes /\ \A n : ContentIdentity(n) \in Codes
    BY FactsAre DEF Codes, Rescans
  <1>2. LoadOutcome \in Codes
    BY DEF LoadOutcome, Codes, Rescans
  <1>3. {"ok", "find_snapshot_changed"} \subseteq Codes
    BY DEF Codes
  <1> QED  BY <1>1, <1>2, <1>3 DEF FindOutcome, UndoRefusal

LEMMA ReadinessIs ==
  Readiness \in {"recovery_required", "no_snapshot", "rescan_required", "plan_ready", "report_required", "ready"}
  BY DEF Readiness

LEMMA RosterRefusalIs ==
  ASSUME StoreFormed, Latest # 0
  PROVE  RosterRefusal \in {"trusted_canonical_sources_required", "roster_mutation_scope_read_only", "ok"}
  <1>1. scans[Latest].external \in {"unread", "permitted", "temporary"}
    <2>1. scans[Latest] \in Observations
      BY LatestIs DEF StoreFormed, Latest
    <2> QED  BY <2>1 DEF Observations
  <1> QED  BY <1>1 DEF RosterRefusal

LEMMA PlanRefusalIs ==
  ASSUME StoreFormed, NEW kind \in Nat
  PROVE  /\ PlanRefusal(kind) \in Codes
         /\ PlanRefusal(kind) \notin {"same_name_variants_ambiguous", "find_snapshot_changed"}
  <1>1. CASE RowNeedsRecovery \/ CurrentFacts # "ok"
    BY <1>1, FactsAre, FactsAreCodes DEF PlanRefusal, Codes
  <1>2. CASE ~RowNeedsRecovery /\ CurrentFacts = "ok"
    <2>1. Latest # 0
      BY <1>2, FactsAre DEF LatestScan
    <2>2. ConsolidationRefusal \in {"no_effective_change", "library_content_rescan_required", "ok"}
      BY DEF ConsolidationRefusal
    <2> QED  BY <1>2, <2>1, <2>2, RosterRefusalIs DEF PlanRefusal, Codes, Rescans
  <1> QED  BY <1>1, <1>2

LEMMA ApplyRefusalIs ==
  ASSUME NEW p
  PROVE  /\ ApplyRefusal(p) \in Codes
         /\ ApplyRefusal(p) \notin {"same_name_variants_ambiguous", "find_snapshot_changed"}
  BY FactsAre, FactsAreCodes DEF ApplyRefusal, Codes, Rescans

(* What these depend on. *)
LEMMA SameFacts ==
  ASSUME UNCHANGED <<settings, root, permits, scans, receipts, invalid>>
  PROVE  /\ Latest' = Latest /\ Drifted' = Drifted /\ LatestScan' = LatestScan /\ CurrentFacts' = CurrentFacts
         /\ \A n : ContentIdentity(n)' = ContentIdentity(n)
         /\ RowNeedsRecovery' = RowNeedsRecovery
         /\ UNCHANGED orphan => JournalIssues' = JournalIssues /\ \A r : UndoRefusal(r)' = UndoRefusal(r)
  <1>1. Latest' = Latest /\ Invalidators(Latest)' = Invalidators(Latest) /\ UseRevoked(Latest)' = UseRevoked(Latest)
        /\ Drifted' = Drifted
    BY DEF Latest, Invalidators, Valid, Undoes, UseRevoked, Active, Drifted, Standing
  <1>2. LatestScan' = LatestScan /\ \A n : ContentIdentity(n)' = ContentIdentity(n)
    BY <1>1 DEF LatestScan, ContentIdentity
  <1>3. RowNeedsRecovery' = RowNeedsRecovery
    BY DEF RowNeedsRecovery
  <1> QED  BY <1>1, <1>2, <1>3 DEF CurrentFacts, JournalIssues, UndoRefusal

LEMMA SameStore ==
  ASSUME UNCHANGED <<disk, store>>
  PROVE  /\ UNCHANGED <<files, settings, root, permits, scans, reported, plans, receipts, invalid, orphan>>
         /\ StoreFormed => StoreFormed'
         /\ Reversals => Reversals'
  <1>1. UNCHANGED <<files, settings, root, permits, scans, reported, plans, receipts, invalid, orphan>>
    BY DEF disk, store
  <1>2. StoreFormed => StoreFormed'
    BY <1>1 DEF StoreFormed, Latest
  <1>3. Reversals => Reversals'
    BY <1>1 DEF Reversals
  <1> QED  BY <1>1, <1>2, <1>3

-----------------------------------------------------------------------------
(* What a command suggests stands.                                         *)
LEMMA RefuseStands ==
  ASSUME StoreFormed, TalkFormed, NEW cmd \in Commands, NEW code \in Codes, cmd.name # "scan",
         Refuse(TRUE, cmd, code), asks' \in Nat, events' \in Nat,
         code \in {"same_name_variants_ambiguous", "find_snapshot_changed"} =>
             CurrentFacts = "ok" \/ code = "find_snapshot_changed"
  PROVE  TalkFormed' /\ OffersStand' /\ ScansReasoned' /\ ScanDone'
  <1>1. Answer(TRUE, cmd, code, Advice(code)) /\ UNCHANGED <<disk, store>>
    BY DEF Refuse
  <1>2. answer'.code = code
    BY <1>1, AnswerIs, AdviceIs
  <1>3. ASSUME NEW c \in Commands, NEW o \in Gives(Advice(code)), c.name = o.cmd.name, c.id = o.cmd.id
        PROVE  Stands(c)' \/ \A x \in Suggestions : x.cmd = c => Oversight(x)'
    <2>1. CASE c.name = "scan"
      BY <2>1 DEF Stands
    <2>2. CASE c.name # "scan"
      <3>1. /\ c.name = "inspect" /\ c.id = Latest
            /\ code \in {"same_name_variants_ambiguous", "find_snapshot_changed"}
        BY <1>3, <2>2, AdviceIs
      <3>2. Latest' = Latest /\ CurrentFacts' = CurrentFacts
        BY <1>1, SameStore, SameFacts
      <3>3. CASE CurrentFacts = "ok"
        BY <3>1, <3>2, <3>3 DEF Stands
      <3>4. CASE CurrentFacts # "ok"
        BY <1>2, <3>1, <3>2, <3>4 DEF Oversight
      <3> QED  BY <3>3, <3>4
    <2> QED  BY <2>1, <2>2
  <1>4. \A o \in Gives(Advice(code)) : o \in Suggestions /\ Reasoned(o, code)
    BY AdviceIs DEF Reasoned
  <1>5. \A c \in Commands : (\E o \in Gives(Advice(code)) : c.name = o.cmd.name /\ c.id = o.cmd.id) =>
            Stands(c)' \/ \A o \in Suggestions : o.cmd = c => Oversight(o)'
    BY <1>3
  <1>6. Advice(code) \in Seq(Suggestions)
    BY AdviceIs
  <1> QED  BY <1>1, <1>4, <1>5, <1>6, OffersFollow

LEMMA FreelyBacked ==
  ASSUME NEW name \in {"scan", "show", "recovery", "status"}, NEW id
  PROVE  Backed(name, id)'
  BY DEF Backed, Stands

LEMMA NoneFollows ==
  ASSUME TalkFormed, NEW cmd \in Commands, NEW code \in Codes,
         Answer(TRUE, cmd, code, <<>>), asks' \in Nat, events' \in Nat, cmd.name # "scan"
  PROVE  TalkFormed' /\ OffersStand' /\ ScansReasoned' /\ ScanDone'
  <1>1. <<>> \in Seq(Suggestions) /\ Gives(<<>>) = {}
    BY OffersAre
  <1> QED  BY <1>1, OffersFollow

LEMMA TwoFollow ==
  ASSUME TalkFormed, NEW cmd \in Commands, NEW code \in Codes,
         NEW a, NEW name, NEW id, NEW reason, Says(a, name, id, reason), Backed(name, id)',
         NEW b, NEW other, NEW id2, NEW reason2, Says(b, other, id2, reason2), Backed(other, id2)',
         name = "scan" => reason # code, other = "scan" => reason2 # code,
         NEW offers, offers \in {<<a>>, <<a, b>>},
         Answer(TRUE, cmd, code, offers), asks' \in Nat, events' \in Nat, cmd.name # "scan"
  PROVE  TalkFormed' /\ OffersStand' /\ ScansReasoned' /\ ScanDone'
  <1>1. offers \in Seq(Suggestions)
    <2>1. a \in Suggestions /\ b \in Suggestions
      BY DEF Says
    <2>2. <<a>> \in Seq(Suggestions) /\ <<a, b>> \in Seq(Suggestions)
      BY <2>1
    <2> QED  BY <2>2
  <1>2. Gives(offers) \subseteq {a, b}
    BY OffersAre
  <1>3. \A o \in Gives(offers) : o \in Suggestions /\ Reasoned(o, code)
    BY <1>2 DEF Says, Reasoned
  <1>4. ASSUME NEW c \in Commands, NEW o \in Gives(offers), c.name = o.cmd.name, c.id = o.cmd.id
        PROVE  Stands(c)' \/ \A x \in Suggestions : x.cmd = c => Oversight(x)'
    <2>1. o = a \/ o = b
      BY <1>2, <1>4
    <2>2. (c.name = name /\ c.id = id) \/ (c.name = other /\ c.id = id2)
      BY <1>4, <2>1 DEF Says
    <2> QED  BY <2>2 DEF Backed
  <1>5. \A c \in Commands : (\E o \in Gives(offers) : c.name = o.cmd.name /\ c.id = o.cmd.id) =>
            Stands(c)' \/ \A o \in Suggestions : o.cmd = c => Oversight(o)'
    BY <1>4
  <1> QED  BY <1>1, <1>3, <1>5, OffersFollow

LEMMA OneFollows ==
  ASSUME TalkFormed, NEW cmd \in Commands, NEW code \in Codes,
         NEW a, NEW name, NEW id, NEW reason, Says(a, name, id, reason), Backed(name, id)',
         name = "scan" => reason # code,
         Answer(TRUE, cmd, code, <<a>>), asks' \in Nat, events' \in Nat, cmd.name # "scan"
  PROVE  TalkFormed' /\ OffersStand' /\ ScansReasoned' /\ ScanDone'
  BY TwoFollow

LEMMA ScanFollows ==
  ASSUME TalkFormed, NEW cmd \in Commands, NEW code \in Codes, NEW reason \in Reasons, reason # code,
         Answer(TRUE, cmd, code, Scanning(reason)), asks' \in Nat, events' \in Nat, cmd.name # "scan"
  PROVE  TalkFormed' /\ OffersStand' /\ ScansReasoned' /\ ScanDone'
  <1>1. Says(ToRead(To("scan"), reason), "scan", 0, reason) /\ Backed("scan", 0)'
    BY OffersMade, FreelyBacked
  <1> QED  BY <1>1, OneFollows DEF Scanning

-----------------------------------------------------------------------------
LEMMA ReportTalk ==
  ASSUME GuidanceInv, NEW cmd \in Commands, Report(TRUE, cmd), asks' \in Nat, events' \in Nat
  PROVE  TalkFormed' /\ OffersStand' /\ ScansReasoned' /\ ScanDone'
  <1>1. CASE CurrentFacts # "ok"
    <2>1. Refuse(TRUE, cmd, CurrentFacts) /\ cmd.name = "report"
      BY <1>1 DEF Report
    <2>2. CurrentFacts \notin {"same_name_variants_ambiguous", "find_snapshot_changed"}
      BY <1>1, FactsAre
    <2> QED  BY <2>1, <2>2, FactsAreCodes, RefuseStands DEF GuidanceInv
  <1>2. CASE CurrentFacts = "ok"
    <2> DEFINE a == ToRead(On("finding", Latest), "top_finding_selected")
    <2>1. /\ Answer(TRUE, cmd, "ok", IF HasFinding(Latest) THEN <<a>> ELSE <<>>)
          /\ UNCHANGED <<disk, permits, scans, plans, receipts, invalid, orphan>> /\ cmd.name = "report"
      BY <1>2 DEF Report
    <2>2. Latest' = Latest /\ CurrentFacts' = "ok" /\ Latest \in Nat
      BY <1>2, <2>1, SameFacts, LatestIs DEF GuidanceInv, disk
    <2>3. "ok" \in Codes
      BY DEF Codes
    <2>4. CASE ~HasFinding(Latest)
      BY <2>1, <2>3, <2>4, NoneFollows DEF GuidanceInv
    <2>5. CASE HasFinding(Latest)
      <3>1. PICK k \in Nat : k = Latest
        BY <2>2
      <3>2. Says(a, "finding", k, "top_finding_selected")
        BY <3>1, OffersMade
      <3>3. LatestScan' = "ok" /\ ContentIdentity(k)' = "ok"
        BY <1>2, <2>1, <3>1, FactsAre, SameFacts DEF disk
      <3>4. Backed("finding", k)'
        BY <3>3 DEF Backed, Stands
      <3> HIDE DEF a
      <3> QED  BY <2>1, <2>3, <2>5, <3>2, <3>4, OneFollows DEF GuidanceInv
    <2> QED  BY <2>4, <2>5
  <1> QED  BY <1>1, <1>2

LEMMA FindingTalk ==
  ASSUME GuidanceInv, NEW cmd \in Commands, Finding(TRUE, cmd), asks' \in Nat, events' \in Nat
  PROVE  TalkFormed' /\ OffersStand' /\ ScansReasoned' /\ ScanDone'
  <1> DEFINE n == cmd.id
  <1>1. n \in Nat /\ cmd.name = "finding" /\ UNCHANGED <<disk, store>>
    BY DEF Finding, Refuse, Commands
  <1>2. CASE LatestScan # "ok" \/ ContentIdentity(n) # "ok"
    <2>1. PICK code \in {LatestScan, ContentIdentity(n)} : Refuse(TRUE, cmd, code) /\ code # "ok"
      BY <1>2 DEF Finding
    <2>2. code \in Codes /\ code \notin {"same_name_variants_ambiguous", "find_snapshot_changed"}
      BY <2>1, FactsAre, FactsAreCodes
    <2> QED  BY <1>1, <2>1, <2>2, RefuseStands DEF GuidanceInv
  <1>3. CASE LatestScan = "ok" /\ ContentIdentity(n) = "ok"
    <2> DEFINE a == ToWrite(On("confirm", n), "exact_local_source_read_permission_required")
               b == ToRead(On("plan", 1), "finding_action_available")
    <2>1. PICK offers \in {<<>>, <<a>>, <<b>>} :
             /\ Answer(TRUE, cmd, "ok", offers)
             /\ offers = <<b>> => scans[n].open /\ n = Latest
      <3> DEFINE unread == scans[n].external = "unread"
                 ready == scans[n].external # "unread" /\ scans[n].open /\ n = Latest
      <3>1. Answer(TRUE, cmd, "ok", CASE unread -> <<a>> [] ready -> <<b>> [] OTHER -> <<>>)
        BY <1>3 DEF Finding
      <3>2. <<a>> # <<b>> /\ <<>> # <<b>>
        <4>1. a.mutates # b.mutates
          BY DEF ToWrite, ToRead, Offer
        <4> QED  BY <4>1
      <3>3. CASE unread
        BY <3>1, <3>2, <3>3
      <3>4. CASE ready
        BY <3>1, <3>2, <3>4
      <3>5. CASE ~unread /\ ~ready
        BY <3>1, <3>2, <3>5
      <3> QED  BY <3>3, <3>4, <3>5
    <2>2. "ok" \in Codes
      BY DEF Codes
    <2>3. /\ Says(a, "confirm", n, "exact_local_source_read_permission_required")
          /\ Says(b, "plan", 1, "finding_action_available")
      BY <1>1, OffersMade
    <2>4. offers \in Seq(Suggestions)
      <3>1. a \in Suggestions /\ b \in Suggestions
        BY <2>3 DEF Says
      <3> HIDE DEF a, b
      <3>2. <<>> \in Seq(Suggestions) /\ <<a>> \in Seq(Suggestions) /\ <<b>> \in Seq(Suggestions)
        BY <3>1
      <3> QED  BY <2>1, <3>2
    <2>5. answer'.cmd = cmd
      BY <2>1, <2>2, <2>4, AnswerIs DEF GuidanceInv
    <2>6. /\ Latest' = Latest /\ LatestScan' = "ok" /\ CurrentFacts' = CurrentFacts
          /\ RowNeedsRecovery' = RowNeedsRecovery /\ JournalIssues' = JournalIssues /\ scans' = scans
          /\ Drifted' = Drifted
      BY <1>1, <1>3, SameStore, SameFacts
    <2>7. Backed("confirm", n)'
      <3>1. CASE Drifted = {}
        BY <1>1, <2>5, <2>6, <3>1 DEF Backed, Stands, Oversight
      <3>2. CASE Drifted # {}
        BY <1>1, <2>5, <2>6, <3>2 DEF Backed, Oversight
      <3> QED  BY <3>1, <3>2
    <2>8. scans[n].open /\ n = Latest => Backed("plan", 1)'
      <3> SUFFICES ASSUME scans[n].open, n = Latest
                   PROVE  Backed("plan", 1)'
        OBVIOUS
      <3>1. CurrentFacts = "ok"
        BY <1>3, FactsAre
      <3>2. CASE JournalIssues
        BY <1>1, <2>5, <2>6, <3>2 DEF Backed, Oversight
      <3>3. CASE ~JournalIssues
        <4>1. ~RowNeedsRecovery
          BY <3>3, FactsAre
        <4> QED  BY <2>6, <3>1, <4>1 DEF Backed, Stands
      <3> QED  BY <3>2, <3>3
    <2> HIDE DEF a, b
    <2>9. CASE offers = <<>>
      BY <1>1, <2>1, <2>2, <2>9, NoneFollows DEF GuidanceInv
    <2>10. CASE offers = <<a>>
      BY <1>1, <2>1, <2>2, <2>3, <2>7, <2>10, OneFollows DEF GuidanceInv
    <2>11. CASE offers = <<b>>
      BY <1>1, <2>1, <2>2, <2>3, <2>8, <2>11, OneFollows DEF GuidanceInv
    <2> QED  BY <2>1, <2>9, <2>10, <2>11
  <1> QED  BY <1>2, <1>3

LEMMA FindTalk ==
  ASSUME GuidanceInv, NEW cmd \in Commands, Find(TRUE, cmd), asks' \in Nat, events' \in Nat
  PROVE  TalkFormed' /\ OffersStand' /\ ScansReasoned' /\ ScanDone'
  <1>1. Refuse(TRUE, cmd, FindOutcome(cmd)) /\ cmd.name # "scan"
    BY DEF Find
  <1>2. FindOutcome(cmd) \in {"same_name_variants_ambiguous", "find_snapshot_changed"} =>
            CurrentFacts = "ok" \/ FindOutcome(cmd) = "find_snapshot_changed"
    BY FactsAre DEF FindOutcome
  <1> QED  BY <1>1, <1>2, FactsAreCodes, RefuseStands DEF GuidanceInv

LEMMA PermissionTalk ==
  ASSUME GuidanceInv, NEW cmd \in Commands, Confirm(TRUE, cmd) \/ Revoke(TRUE, cmd), asks' \in Nat, events' \in Nat
  PROVE  TalkFormed' /\ OffersStand' /\ ScansReasoned' /\ ScanDone'
  <1>1. /\ cmd.name # "scan"
        /\ \/ \E code \in {LatestScan, "source_root_finding_stale", "source_root_permission_identity_drift",
                        "source_root_already_revoked"} :
                  code # "ok" /\ Refuse(TRUE, cmd, code)
           \/ \E reason \in {"source_root_permission_recorded", "source_root_permission_revoked"} :
                  Answer(TRUE, cmd, "ok", Scanning(reason))
    <2>1. CASE Confirm(TRUE, cmd)
      BY <2>1 DEF Confirm
    <2>2. CASE Revoke(TRUE, cmd)
      BY <2>2 DEF Revoke
    <2> QED  BY <2>1, <2>2
  <1>2. CASE \E code \in {LatestScan, "source_root_finding_stale", "source_root_permission_identity_drift",
                        "source_root_already_revoked"} :
                 code # "ok" /\ Refuse(TRUE, cmd, code)
    <2>1. PICK code \in {LatestScan, "source_root_finding_stale", "source_root_permission_identity_drift",
                        "source_root_already_revoked"} :
             code # "ok" /\ Refuse(TRUE, cmd, code)
      BY <1>2
    <2>2. code \in Codes
      BY <2>1, FactsAreCodes DEF Codes
    <2>3. code \notin {"same_name_variants_ambiguous", "find_snapshot_changed"}
      BY <2>1, FactsAre
    <2> QED  BY <1>1, <2>1, <2>2, <2>3, RefuseStands DEF GuidanceInv
  <1>3. CASE \E reason \in {"source_root_permission_recorded", "source_root_permission_revoked"} :
                 Answer(TRUE, cmd, "ok", Scanning(reason))
    <2>1. PICK reason \in {"source_root_permission_recorded", "source_root_permission_revoked"} :
             Answer(TRUE, cmd, "ok", Scanning(reason))
      BY <1>3
    <2>2. "ok" \in Codes /\ reason \in Reasons /\ reason # "ok"
      BY <2>1 DEF Codes, Reasons
    <2> QED  BY <1>1, <2>1, <2>2, ScanFollows DEF GuidanceInv
  <1> QED  BY <1>1, <1>2, <1>3

LEMMA PlanTalk ==
  ASSUME GuidanceInv, NEW cmd \in Commands, MakePlan(TRUE, cmd), asks' \in Nat, events' \in Nat
  PROVE  TalkFormed' /\ OffersStand' /\ ScansReasoned' /\ ScanDone'
  <1>1. cmd.name = "plan" /\ cmd.id \in Nat /\ StoreFormed /\ TalkFormed
    BY DEF MakePlan, Commands, GuidanceInv
  <1>2. CASE PlanRefusal(cmd.id) # "ok"
    BY <1>1, <1>2, PlanRefusalIs, RefuseStands DEF MakePlan
  <1>3. CASE PlanRefusal(cmd.id) = "ok"
    <2>1. PICK p \in Nat : p = Len(plans) + 1
      BY <1>1, LatestIs
    <2> DEFINE a == ToRead(On("show", p), "plan_detail_available")
               b == ToWrite(On("apply", p), "plan_ready")
    <2>2. /\ plans' = Append(plans, [kind |-> cmd.id, scan |-> Latest, status |-> "ready"])
          /\ Answer(TRUE, cmd, "ok", <<a, b>>)
          /\ UNCHANGED <<disk, permits, scans, reported, receipts, invalid, orphan>>
      BY <1>3, <2>1 DEF MakePlan, ApplyOf
    <2>3. /\ Says(a, "show", p, "plan_detail_available") /\ Says(b, "apply", p, "plan_ready")
          /\ "ok" \in Codes
      BY OffersMade DEF Codes
    <2> HIDE DEF a, b
    <2>4. answer'.cmd = cmd
      <3>1. a \in Suggestions /\ b \in Suggestions
        BY <2>3 DEF Says
      <3>2. <<a, b>> \in Seq(Suggestions)
        BY <3>1
      <3> QED  BY <1>1, <2>2, <2>3, <3>2, AnswerIs
    <2>5. plans'[p].status = "ready" /\ plans'[p].scan = Latest
      BY <1>1, <2>1, <2>2 DEF StoreFormed
    <2>6. Latest' = Latest /\ CurrentFacts' = CurrentFacts /\ CurrentFacts = "ok"
      BY <1>3, <2>2, SameFacts DEF PlanRefusal, disk
    <2>7. Backed("apply", p)'
      <3>1. CASE JournalIssues'
        BY <1>1, <2>4, <3>1 DEF Backed, Oversight
      <3>2. CASE ~JournalIssues'
        BY <2>5, <2>6, <3>2 DEF Backed, Stands
      <3> QED  BY <3>1, <3>2
    <2>8. Backed("show", p)'
      BY FreelyBacked
    <2> QED  BY <1>1, <2>2, <2>3, <2>7, <2>8, TwoFollow
  <1> QED  BY <1>2, <1>3

LEMMA ShowTalk ==
  ASSUME GuidanceInv, NEW cmd \in Commands, Show(TRUE, cmd), asks' \in Nat, events' \in Nat
  PROVE  TalkFormed' /\ OffersStand' /\ ScansReasoned' /\ ScanDone'
  <1> DEFINE p == cmd.id
             a == ToWrite(On("apply", p), "plan_ready")
  <1>1. /\ cmd.name = "show" /\ p \in Nat /\ StoreFormed /\ TalkFormed /\ "ok" \in Codes
        /\ UNCHANGED <<disk, store>>
    BY DEF Show, Commands, GuidanceInv, Codes
  <1>2. CASE plans[p].status # "ready"
    BY <1>1, <1>2, NoneFollows DEF Show
  <1>3. CASE plans[p].status = "ready"
    <2>1. Answer(TRUE, cmd, "ok", <<a>>)
      BY <1>3 DEF Show, ApplyOf
    <2>2. Says(a, "apply", p, "plan_ready")
      BY <1>1, OffersMade
    <2> HIDE DEF a
    <2>3. answer'.cmd = cmd
      <3>1. <<a>> \in Seq(Suggestions)
        BY <2>2 DEF Says
      <3> QED  BY <1>1, <2>1, <3>1, AnswerIs
    <2>4. Latest' = Latest /\ CurrentFacts' = CurrentFacts /\ JournalIssues' = JournalIssues /\ plans' = plans
      BY <1>1, SameStore, SameFacts
    <2>5. Backed("apply", p)'
      <3>1. CASE CurrentFacts # "ok" \/ plans[p].scan # Latest \/ JournalIssues
        BY <1>1, <2>3, <2>4, <3>1 DEF Backed, Oversight
      <3>2. CASE CurrentFacts = "ok" /\ plans[p].scan = Latest /\ ~JournalIssues
        BY <1>3, <2>4, <3>2 DEF Backed, Stands
      <3> QED  BY <3>1, <3>2
    <2> QED  BY <1>1, <2>1, <2>2, <2>5, OneFollows
  <1> QED  BY <1>2, <1>3

LEMMA ApplyTalk ==
  ASSUME GuidanceInv, NEW cmd \in Commands, Apply(TRUE, cmd), asks' \in Nat, events' \in Nat
  PROVE  TalkFormed' /\ OffersStand' /\ ScansReasoned' /\ ScanDone'
  <1> DEFINE p == cmd.id
  <1>1. /\ cmd.name = "apply" /\ StoreFormed /\ TalkFormed /\ Reversals
        /\ {"killed", "command_failed", "applied", "failed_rolled_back", "recovery_required"} \subseteq Codes
    BY DEF Apply, GuidanceInv, Codes
  <1>2. CASE ApplyRefusal(p) # "ok" /\ Refuse(TRUE, cmd, ApplyRefusal(p))
    BY <1>1, <1>2, ApplyRefusalIs, RefuseStands
  <1>3. CASE \E code \in {"killed", "command_failed"} : Answer(TRUE, cmd, code, <<>>)
    BY <1>1, <1>3, NoneFollows
  <1>5. CASE Refuse(TRUE, cmd, "command_failed")
    BY <1>1, <1>5, RefuseStands
  <1>4. ASSUME NEW s \in {"applied", "failed_rolled_back", "recovery_required"}, ApplyRefusal(p) = "ok",
               receipts' = Append(receipts, [plan |-> p, reverses |-> 0, status |-> s]),
               Answer(TRUE, cmd, s, (IF s = "applied" THEN Scanning("verified_mutation_requires_rescan")
                                     ELSE <<>>) \o UndoAction(Len(receipts) + 1)),
               UNCHANGED orphan
        PROVE  TalkFormed' /\ OffersStand' /\ ScansReasoned' /\ ScanDone'
    <2>1. PICK r \in Nat : r = Len(receipts) + 1
      BY <1>1, LatestIs
    <2> DEFINE a == ToRead(To("scan"), "verified_mutation_requires_rescan")
               b == ToWrite(On("undo", r), "receipt_undoable")
               offers == IF s = "applied" THEN <<a, b>> ELSE <<b>>
    <2>2. "verified_mutation_requires_rescan" \in Reasons /\ s # "verified_mutation_requires_rescan"
      BY DEF Reasons
    <2>3. Says(a, "scan", 0, "verified_mutation_requires_rescan") /\ Says(b, "undo", r, "receipt_undoable")
      BY <2>2, OffersMade
    <2>4. Answer(TRUE, cmd, s, offers)
      <3>1. Answer(TRUE, cmd, s, (IF s = "applied" THEN <<a>> ELSE <<>>) \o <<b>>)
        BY <1>4, <2>1 DEF Scanning, UndoAction
      <3>2. a \in Suggestions /\ b \in Suggestions
        BY <2>3 DEF Says
      <3> HIDE DEF a, b
      <3>3. <<a>> \o <<b>> = <<a, b>> /\ <<>> \o <<b>> = <<b>>
        BY <3>2, Joined
      <3> QED  BY <3>1, <3>3
    <2> HIDE DEF a, b
    <2>5. answer'.cmd = cmd /\ answer'.code = s
      <3>1. a \in Suggestions /\ b \in Suggestions
        BY <2>3 DEF Says
      <3>2. offers \in Seq(Suggestions)
        BY <3>1
      <3> QED  BY <1>1, <2>4, <3>2, AnswerIs
    <2>6. Backed("undo", r)'
      <3>1. CASE s # "applied"
        BY <1>1, <2>5, <3>1 DEF Backed, Oversight
      <3>2. CASE s = "applied"
        <4>1. /\ DOMAIN receipts' = 1 .. r /\ receipts'[r] = [plan |-> p, reverses |-> 0, status |-> "applied"]
              /\ \A q \in 1 .. Len(receipts) : receipts'[q] = receipts[q]
          BY <1>1, <1>4, <2>1, <3>2 DEF StoreFormed
        <4>2. ~JournalIssues /\ orphan = Nowhere /\ ~RowNeedsRecovery
          BY <1>4 DEF ApplyRefusal, JournalIssues
        <4>3. \A q \in 1 .. r : receipts'[q].reverses # r /\ receipts'[q].status # "recovery_required"
          BY <1>1, <2>1, <4>1, <4>2, LatestIs DEF Reversals, RowNeedsRecovery
        <4>4. ~JournalIssues' /\ UndoRefusal(r)' = "ok"
          BY <1>4, <2>1, <4>1, <4>2, <4>3 DEF JournalIssues, RowNeedsRecovery, UndoRefusal
        <4> QED  BY <4>4 DEF Backed, Stands
      <3> QED  BY <3>1, <3>2
    <2>7. Backed("scan", 0)'
      BY FreelyBacked
    <2>8. s \in Codes
      BY <1>1
    <2>9. CASE s = "applied"
      <3>1. Answer(TRUE, cmd, s, <<a, b>>)
        BY <2>4, <2>9
      <3> QED  BY <1>1, <2>2, <2>3, <2>6, <2>7, <2>8, <3>1, TwoFollow
    <2>10. CASE s # "applied"
      <3>1. Answer(TRUE, cmd, s, <<b>>)
        BY <2>4, <2>10
      <3> QED  BY <1>1, <2>3, <2>6, <2>8, <3>1, OneFollows
    <2> QED  BY <2>9, <2>10
  <1> QED  BY <1>2, <1>3, <1>4, <1>5 DEF Apply

LEMMA UndoTalk ==
  ASSUME GuidanceInv, NEW cmd \in Commands, Undo(TRUE, cmd), asks' \in Nat, events' \in Nat
  PROVE  TalkFormed' /\ OffersStand' /\ ScansReasoned' /\ ScanDone'
  <1>1. /\ cmd.name = "undo" /\ TalkFormed /\ StoreFormed
        /\ \/ \E code \in {"not_undoable", "journal_requires_recovery", "state_drift"} : Refuse(TRUE, cmd, code)
           \/ \E code \in {"killed", "recovery_required"} : Answer(TRUE, cmd, code, <<>>)
           \/ Answer(TRUE, cmd, "undone", Scanning("verified_mutation_requires_rescan"))
    BY FactsAreCodes DEF Undo, GuidanceInv
  <1>2. CASE \E code \in {"not_undoable", "journal_requires_recovery", "state_drift"} : Refuse(TRUE, cmd, code)
    <2>1. PICK code \in {"not_undoable", "journal_requires_recovery", "state_drift"} : Refuse(TRUE, cmd, code)
      BY <1>2
    <2>2. code \in Codes
      BY DEF Codes
    <2> QED  BY <1>1, <2>1, <2>2, RefuseStands
  <1>3. CASE \E code \in {"killed", "recovery_required"} : Answer(TRUE, cmd, code, <<>>)
    <2>1. {"killed", "recovery_required"} \subseteq Codes
      BY DEF Codes
    <2> QED  BY <1>1, <1>3, <2>1, NoneFollows
  <1>4. CASE Answer(TRUE, cmd, "undone", Scanning("verified_mutation_requires_rescan"))
    <2>1. "undone" \in Codes /\ "verified_mutation_requires_rescan" \in Reasons
      BY DEF Codes, Reasons
    <2> QED  BY <1>1, <1>4, <2>1, ScanFollows
  <1> QED  BY <1>1, <1>2, <1>3, <1>4

LEMMA RecoverTalk ==
  ASSUME GuidanceInv, NEW cmd \in Commands, Recover(TRUE, cmd), asks' \in Nat, events' \in Nat
  PROVE  TalkFormed' /\ OffersStand' /\ ScansReasoned' /\ ScanDone'
  <1>1. cmd.name = "recovery" /\ TalkFormed /\ "ok" \in Codes /\ Answer(TRUE, cmd, "ok", <<>>)
    BY DEF Recover, GuidanceInv, Codes
  <1> QED  BY <1>1, NoneFollows

LEMMA GreatestIs ==
  ASSUME NEW k \in Nat, NEW S \in SUBSET (1 .. k), S # {}
  PROVE  \E m \in S : \A q \in S : q <= m
  <1> DEFINE less == OpToRel(<, Nat)
             left == {k - q : q \in S}
  <1>1. IsWellFoundedOn(less, Nat)
    BY NatLessThanWellFounded, Zenon
  <1>2. \A pair \in Nat \X Nat : pair[1] < pair[2] => pair \in less
    BY Zenon DEF OpToRel
  <1> HIDE DEF less
  <1>3. left \subseteq Nat /\ left # {}
    <2>1. \A q \in S : k - q \in Nat
      OBVIOUS
    <2> QED  BY <2>1
  <1>4. PICK n \in left : \A j \in left : ~(<<j, n>> \in less)
    <2> HIDE DEF left
    <2> QED  BY WFMin, <1>1, <1>3
  <1>5. \A j \in left : ~(j < n)
    <2> HIDE DEF left
    <2> QED  BY <1>2, <1>3, <1>4
  <1>6. PICK m \in S : n = k - m
    OBVIOUS
  <1>7. ASSUME NEW q \in S
        PROVE  q <= m
    <2>1. ~(k - q < k - m)
      BY <1>5, <1>6
    <2> QED  BY <2>1
  <1> QED  BY <1>7

(* The Receipt that asks for a Scan can be undone, unless it is an Undo.   *)
LEMMA InvalidatorIs ==
  ASSUME StoreFormed, Reversals, ~JournalIssues, NEW n, Invalidators(n) # {}
  PROVE  /\ Invalidator(n) \in DOMAIN receipts
         /\ ~Undoes(Invalidator(n)) => UndoRefusal(Invalidator(n)) = "ok"
  <1> DEFINE r == Invalidator(n)
  <1>1. Invalidators(n) \subseteq DOMAIN receipts
    BY DEF Invalidators
  <1>2. \E m \in Invalidators(n) : \A q \in Invalidators(n) : q <= m
    BY <1>1, LatestIs, GreatestIs
  <1>3. r \in Invalidators(n)
    BY <1>2 DEF Invalidator
  <1>4. r \in DOMAIN receipts /\ Valid(r)
    BY <1>3 DEF Invalidators
  <1>5. ASSUME ~Undoes(r)
        PROVE  UndoRefusal(r) = "ok"
    <2>1. receipts[r].status = "applied"
      BY <1>4, <1>5 DEF Valid
    <2>2. ~RowNeedsRecovery
      BY FactsAre
    <2>3. \A u \in DOMAIN receipts : receipts[u].reverses # r
      <3>1. r # 0
        BY <1>4, LatestIs
      <3> QED  BY <2>1, <2>2, <3>1 DEF Reversals, RowNeedsRecovery
    <2> QED  BY <2>1, <2>3 DEF UndoRefusal
  <1> QED  BY <1>4, <1>5

LEMMA StatusTalk ==
  ASSUME GuidanceInv, NEW cmd \in Commands, Status(TRUE, cmd), asks' \in Nat, events' \in Nat
  PROVE  TalkFormed' /\ OffersStand' /\ ScansReasoned' /\ ScanDone'
  <1>1. /\ cmd.name = "status" /\ Answer(TRUE, cmd, Readiness, NextActions) /\ UNCHANGED <<disk, store>>
        /\ TalkFormed /\ StoreFormed /\ Reversals
    BY DEF Status, GuidanceInv
  <1>2. Readiness \in Codes
    BY ReadinessIs DEF Codes
  <1>3. CASE Readiness = "recovery_required"
    <2> DEFINE a == ToRead(To("recovery"), "recovery_required")
    <2>1. NextActions = <<a>>
      BY <1>3 DEF NextActions
    <2>2. Says(a, "recovery", 0, "recovery_required")
      BY OffersMade
    <2>3. Backed("recovery", 0)'
      BY FreelyBacked
    <2> HIDE DEF a
    <2> QED  BY <1>1, <1>2, <2>1, <2>2, <2>3, OneFollows
  <1>4. CASE Readiness = "no_snapshot"
    <2>1. NextActions = Scanning("snapshot_required")
      BY <1>4 DEF NextActions
    <2>2. "snapshot_required" \in Reasons
      BY DEF Reasons, Codes, Rescans
    <2> QED  BY <1>1, <1>2, <1>4, <2>1, <2>2, ScanFollows
  <1>5. CASE Readiness = "rescan_required"
    <2>1. LatestScan \in Reasons /\ LatestScan # "rescan_required"
      BY FactsAre, FactsAreCodes DEF Reasons
    <2>2. CASE Invalidators(Latest) = {}
      <3>1. NextActions = Scanning(LatestScan)
        BY <1>5, <2>2 DEF NextActions
      <3>2. PICK reason \in Reasons : reason = LatestScan
        BY <2>1
      <3> QED  BY <1>1, <1>2, <1>5, <2>1, <3>1, <3>2, ScanFollows
    <2>3. CASE Invalidators(Latest) # {}
      <3>1. NextActions = Scanning(LatestScan) \o UndoOf(Invalidator(Latest))
        BY <1>5, <2>3 DEF NextActions
      <3>2. ~JournalIssues
        BY <1>5 DEF Readiness
      <3>3. PICK r \in Nat, reason \in Reasons, n \in Nat :
               r = Invalidator(Latest) /\ reason = LatestScan /\ n = Latest
        BY <1>1, <2>1, <2>3, <3>2, InvalidatorIs, LatestIs
      <3>4. ~Undoes(r) => UndoRefusal(r) = "ok"
        BY <1>1, <2>3, <3>2, <3>3, InvalidatorIs
      <3>5. UndoRefusal(r)' = UndoRefusal(r)
        BY <1>1, SameStore, SameFacts
      <3> DEFINE a == ToRead(To("scan"), reason)
                 b == ToWrite(On("undo", r), "receipt_undoable")
      <3>6. Says(a, "scan", 0, reason) /\ Says(b, "undo", r, "receipt_undoable") /\ Backed("scan", 0)'
        BY OffersMade, FreelyBacked
      <3>7. NextActions = <<a>> \o (IF Undoes(r) THEN <<>> ELSE <<b>>)
        BY <3>1, <3>3 DEF Scanning, UndoOf, UndoAction
      <3> HIDE DEF a, b
      <3>8. a \in Suggestions /\ b \in Suggestions
        BY <3>6 DEF Says
      <3>9. CASE Undoes(r)
        <4>1. NextActions = <<a>>
          BY <3>7, <3>8, <3>9, Joined
        <4> QED  BY <1>1, <1>2, <1>5, <2>1, <3>3, <3>6, <4>1, OneFollows
      <3>10. CASE ~Undoes(r)
        <4>1. NextActions = <<a, b>>
          BY <3>7, <3>8, <3>10, Joined
        <4>2. Backed("undo", r)'
          BY <3>4, <3>5, <3>10 DEF Backed, Stands
        <4>3. PICK code \in Codes : code = Readiness
          BY <1>2
        <4>4. Answer(TRUE, cmd, code, <<a, b>>) /\ reason # code /\ "receipt_undoable" # code
          BY <1>1, <1>5, <2>1, <3>3, <4>1, <4>3
        <4> QED  BY <1>1, <3>6, <4>2, <4>4, TwoFollow
      <3> QED  BY <3>9, <3>10
    <2> QED  BY <2>2, <2>3
  <1>6. CASE Readiness = "plan_ready"
    <2>1. PICK p : p = FirstPending
      OBVIOUS
    <2>2. p \in Nat
      <3> DEFINE first == IF Unfinished # {} THEN Unfinished ELSE ReadyNow
      <3>1. Pending # {}
        BY <1>6 DEF Readiness
      <3>2. first # {} /\ first \in SUBSET (1 .. Len(plans)) /\ Len(plans) \in Nat
        BY <1>1, <3>1, LatestIs DEF Pending, Unfinished, ReadyNow
      <3>3. \E m \in first : \A q \in first : q <= m
        <4> HIDE DEF first
        <4> QED  BY <3>2, GreatestIs
      <3>4. FirstPending \in first
        BY <3>3 DEF FirstPending
      <3> QED  BY <2>1, <3>2, <3>4
    <2> DEFINE a == ToRead(On("show", p), "pending_plan_requires_review")
    <2>3. NextActions = <<a>>
      BY <1>6, <2>1 DEF NextActions
    <2>4. Says(a, "show", p, "pending_plan_requires_review") /\ Backed("show", p)'
      BY <2>2, OffersMade, FreelyBacked
    <2> HIDE DEF a
    <2> QED  BY <1>1, <1>2, <2>3, <2>4, OneFollows
  <1>7. CASE Readiness = "report_required"
    <2> DEFINE a == ToRead(To("report"), "scan_complete")
    <2>1. NextActions = <<a>>
      BY <1>7 DEF NextActions
    <2>2. Says(a, "report", 0, "scan_complete")
      BY OffersMade
    <2> HIDE DEF a
    <2>3. answer'.cmd = cmd
      <3>1. <<a>> \in Seq(Suggestions)
        BY <2>2 DEF Says
      <3> QED  BY <1>1, <1>2, <2>1, <3>1, AnswerIs
    <2>4. Backed("report", 0)'
      <3>1. CASE CurrentFacts' = "ok"
        BY <3>1 DEF Backed, Stands
      <3>2. CASE CurrentFacts' # "ok"
        BY <1>1, <2>3, <3>2 DEF Backed, Oversight
      <3> QED  BY <3>1, <3>2
    <2> QED  BY <1>1, <1>2, <2>1, <2>2, <2>4, OneFollows
  <1>8. CASE Readiness = "ready"
    <2>1. NextActions = <<>>
      BY <1>8 DEF NextActions
    <2> QED  BY <1>1, <1>2, <2>1, NoneFollows
  <1> QED  BY <1>3, <1>4, <1>5, <1>6, <1>7, <1>8, ReadinessIs

LEMMA ObservationIs ==
  ASSUME StoreFormed, NEW roots \in BOOLEAN
  PROVE  /\ ScanNow(roots) \in Observations
         /\ ScanNow(roots).files = files /\ ScanNow(roots).settings = settings
         /\ roots => ScanNow(roots).external = "temporary"
         /\ ScanNow(roots).used # 0 => ScanNow(roots).used \in Active
  <1> DEFINE external == IF roots THEN "temporary" ELSE IF Active # {} THEN "permitted" ELSE "unread"
             used == IF ~roots /\ Active # {} THEN CHOOSE p \in Active : TRUE ELSE 0
  <1>1. used \in Active \/ used = 0
    OBVIOUS
  <1>2. Active \subseteq Nat
    BY DEF Active, Standing, StoreFormed
  <1>3. external \in {"unread", "permitted", "temporary"} /\ (roots => external = "temporary")
    OBVIOUS
  <1>4. ScanNow(roots) = [files |-> files, settings |-> settings, open |-> ~Consolidated,
                          external |-> external, used |-> used]
    BY DEF ScanNow
  <1>5. files \in Files /\ settings \in Nat /\ (~Consolidated) \in BOOLEAN /\ used \in Nat
    BY <1>1, <1>2 DEF StoreFormed
  <1> HIDE DEF external, used
  <1> QED  BY <1>1, <1>3, <1>4, <1>5 DEF Observations

LEMMA ScannedIs ==
  ASSUME StoreFormed, NEW roots \in BOOLEAN, scans' = Append(scans, ScanNow(roots)),
         UNCHANGED <<disk, permits, receipts, invalid>>
  PROVE  /\ Latest' = Latest + 1 /\ scans' \in Seq(Observations)
         /\ LatestScan' = "ok" /\ ContentIdentity(Latest)' = "ok" /\ CurrentFacts' = "ok"
         /\ ~ContentDrifted' /\ (roots => scans'[Latest'].external # "unread")
  <1>1. /\ scans' \in Seq(Observations) /\ Latest' = Latest + 1 /\ scans'[Latest'] = ScanNow(roots)
        /\ Latest \in Nat
    BY ObservationIs, LatestIs DEF StoreFormed, Latest
  <1>2. Invalidators(Latest)' = {}
    BY <1>1 DEF Invalidators, StoreFormed
  <1>3. ~UseRevoked(Latest)'
    <2>1. Active' = Active
      BY DEF Active, Drifted, Standing, disk
    <2> QED  BY <1>1, <2>1, ObservationIs DEF UseRevoked
  <1>4. LatestScan' = "ok"
    BY <1>1, <1>2, <1>3 DEF LatestScan
  <1>5. ContentIdentity(Latest)' = "ok" /\ ~ContentDrifted'
    BY <1>1, ObservationIs DEF ContentIdentity, ContentDrifted, disk
  <1>6. roots => scans'[Latest'].external # "unread"
    BY <1>1, ObservationIs
  <1> QED  BY <1>1, <1>4, <1>5, <1>6 DEF CurrentFacts

LEMMA ScanTalk ==
  ASSUME GuidanceInv, NEW cmd \in Commands, Scan(TRUE, cmd), asks' \in Nat, events' \in Nat
  PROVE  TalkFormed' /\ OffersStand' /\ ScansReasoned' /\ ScanDone'
  <1> DEFINE a == ToRead(To("report"), "scan_complete")
  <1>1. /\ cmd.name = "scan" /\ cmd.roots \in BOOLEAN /\ StoreFormed /\ TalkFormed /\ "ok" \in Codes
        /\ scans' = Append(scans, ScanNow(cmd.roots)) /\ UNCHANGED <<disk, permits, receipts, invalid>>
        /\ Answer(TRUE, cmd, "ok", <<a>>)
    BY DEF Scan, Commands, GuidanceInv, Codes
  <1>2. Says(a, "report", 0, "scan_complete")
    BY OffersMade
  <1> HIDE DEF a
  <1>3. a \in Suggestions /\ <<a>> \in Seq(Suggestions)
    BY <1>2 DEF Says
  <1>4. /\ TalkFormed' /\ answer'.cmd = cmd /\ answer'.code = "ok"
        /\ Offered' = {WithContext(cmd, o) : o \in Gives(<<a>>)}
    BY <1>1, <1>3, AnswerIs
  <1>5. Offered' = {WithContext(cmd, a)}
    BY <1>4, OffersAre
  <1>6. WithContext(cmd, a).cmd.name = "report"
    BY <1>2, <1>3, WithContextIs DEF Says
  <1>7. /\ LatestScan' = "ok" /\ ContentIdentity(Latest)' = "ok" /\ CurrentFacts' = "ok" /\ ~ContentDrifted'
        /\ cmd.roots => scans'[Latest'].external # "unread"
    BY <1>1, ScannedIs
  <1>8. OffersStand'
    BY <1>5, <1>6, <1>7 DEF OffersStand, Stands
  <1>9. ScansReasoned'
    BY <1>5, <1>6 DEF ScansReasoned, Reasoned
  <1>10. ScanDone'
    <2> SUFFICES ASSUME lesson' # NoLesson
                 PROVE  lesson'.code \in Cured /\ Fresh'
      BY <1>4 DEF ScanDone
    <2>1. /\ \E o \in Offered : o.cmd = cmd /\ o.reason = answer.code
          /\ lesson' = [cmd |-> answer.cmd, code |-> answer.code]
      BY <1>1 DEF Answer
    <2>2. PICK o \in Offered : o.cmd = cmd /\ o.reason = answer.code
      BY <2>1
    <2>3. answer.code \in Cured /\ (answer.code = "trusted_canonical_sources_required" => cmd.roots)
      BY <1>1, <2>2 DEF GuidanceInv, ScansReasoned, Reasoned
    <2> QED  BY <1>7, <2>1, <2>3 DEF Fresh
  <1> QED  BY <1>4, <1>8, <1>9, <1>10

-----------------------------------------------------------------------------
(* What a command does to the store.                                       *)
LEMMA RefuseKeeps ==
  ASSUME StoreFormed, Reversals, NEW me, NEW cmd, NEW code, Refuse(me, cmd, code)
  PROVE  StoreFormed' /\ Reversals'
  BY SameStore DEF Refuse

LEMMA ScanKeeps ==
  ASSUME StoreFormed, Reversals, NEW me, NEW cmd \in Commands, Scan(me, cmd)
  PROVE  StoreFormed' /\ Reversals'
  <1>1. /\ scans' = Append(scans, ScanNow(cmd.roots)) /\ cmd.roots \in BOOLEAN
        /\ UNCHANGED <<files, settings, root, permits, reported, plans, receipts, invalid, orphan>>
    BY DEF Scan, Commands, disk
  <1>2. Latest' = Latest + 1 /\ scans' \in Seq(Observations)
    BY <1>1, ScannedIs DEF disk
  <1>3. invalid \subseteq (0 .. Latest + 1) \X Nat
    <2>1. Latest \in Nat
      BY LatestIs
    <2>2. 0 .. Latest \subseteq 0 .. Latest + 1
      BY <2>1
    <2> QED  BY <2>2 DEF StoreFormed
  <1> QED  BY <1>1, <1>2, <1>3 DEF StoreFormed, Reversals

LEMMA ReportKeeps ==
  ASSUME StoreFormed, Reversals, NEW me, NEW cmd \in Commands, Report(me, cmd)
  PROVE  StoreFormed' /\ Reversals'
  <1>1. CASE Refuse(me, cmd, CurrentFacts)
    BY <1>1, RefuseKeeps
  <1>2. CASE /\ reported' = reported \cup {Latest}
             /\ UNCHANGED <<disk, permits, scans, plans, receipts, invalid, orphan>>
    BY <1>2, LatestIs DEF StoreFormed, Reversals, disk, Latest
  <1> QED  BY <1>1, <1>2 DEF Report

LEMMA PermissionKeeps ==
  ASSUME StoreFormed, Reversals, NEW me, NEW cmd \in Commands, Confirm(me, cmd) \/ Revoke(me, cmd)
  PROVE  StoreFormed' /\ Reversals'
  <1>1. CASE \E code : Refuse(me, cmd, code)
    BY <1>1, RefuseKeeps
  <1>2. CASE /\ permits' \in Seq(Permissions)
             /\ UNCHANGED <<disk, scans, reported, plans, receipts, invalid, orphan>>
    BY <1>2 DEF StoreFormed, Reversals, disk, Latest
  <1> DEFINE granted == [stands |-> TRUE, identity |-> root]
             revoked == [permits EXCEPT ![cmd.id].stands = FALSE]
  <1>3. Append(permits, granted) \in Seq(Permissions) /\ revoked \in Seq(Permissions)
    <2>1. permits \in [1 .. Len(permits) -> Permissions] /\ Len(permits) \in Nat
      BY DEF StoreFormed
    <2>2. \A p \in Permissions : [p EXCEPT !.stands = FALSE] \in Permissions
      BY DEF Permissions
    <2>3. revoked \in [1 .. Len(permits) -> Permissions]
      BY <2>1, <2>2
    <2>4. granted \in Permissions
      BY DEF StoreFormed, Permissions
    <2> HIDE DEF granted, revoked
    <2>5. revoked \in Seq(Permissions)
      BY <2>1, <2>3
    <2>6. Append(permits, granted) \in Seq(Permissions)
      BY <2>4 DEF StoreFormed
    <2> QED  BY <2>5, <2>6
  <1>4. CASE Confirm(me, cmd)
    BY <1>1, <1>2, <1>3, <1>4 DEF Confirm, StoreFormed
  <1>5. CASE Revoke(me, cmd)
    BY <1>1, <1>2, <1>3, <1>5 DEF Revoke
  <1> QED  BY <1>4, <1>5

LEMMA PlanKeeps ==
  ASSUME StoreFormed, Reversals, NEW me, NEW cmd \in Commands, MakePlan(me, cmd)
  PROVE  StoreFormed' /\ Reversals'
  <1>1. CASE Refuse(me, cmd, PlanRefusal(cmd.id))
    BY <1>1, RefuseKeeps
  <1>2. CASE /\ plans' = Append(plans, [kind |-> cmd.id, scan |-> Latest, status |-> "ready"])
             /\ UNCHANGED <<disk, permits, scans, reported, receipts, invalid, orphan>>
    <2>1. [kind |-> cmd.id, scan |-> Latest, status |-> "ready"] \in PlanRows
      BY LatestIs DEF PlanRows, Commands
    <2>2. plans' \in Seq(PlanRows)
      BY <1>2, <2>1 DEF StoreFormed
    <2> QED  BY <1>2, <2>2 DEF StoreFormed, Reversals, disk, Latest
  <1> QED  BY <1>1, <1>2 DEF MakePlan

LEMMA PlanBecomes ==
  ASSUME StoreFormed, NEW p,
         NEW s \in {"ready", "applying", "recovery_required", "applied", "failed_rolled_back"}
  PROVE  [plans EXCEPT ![p].status = s] \in Seq(PlanRows)
  <1>1. \A row \in PlanRows : [row EXCEPT !.status = s] \in PlanRows
    BY DEF PlanRows
  <1>2. plans \in [1 .. Len(plans) -> PlanRows] /\ Len(plans) \in Nat
    BY DEF StoreFormed
  <1>3. [plans EXCEPT ![p].status = s] \in [1 .. Len(plans) -> PlanRows]
    BY <1>1, <1>2
  <1> QED  BY <1>2, <1>3

(* A Receipt that reverses nothing, or stands for a journal to recover.    *)
LEMMA ReceiptAdded ==
  ASSUME StoreFormed, Reversals, NEW p \in Nat, NEW n \in 0 .. Len(receipts),
         NEW s \in {"applied", "failed_rolled_back", "recovery_required"}, n # 0 => s = "recovery_required",
         receipts' = Append(receipts, [plan |-> p, reverses |-> n, status |-> s])
  PROVE  receipts' \in Seq(ReceiptRows) /\ Len(receipts') = Len(receipts) + 1 /\ Reversals'
  <1> DEFINE row == [plan |-> p, reverses |-> n, status |-> s]
             r == Len(receipts) + 1
  <1>1. Len(receipts) \in Nat /\ row \in ReceiptRows
    BY LatestIs DEF ReceiptRows
  <1>2. /\ receipts' \in Seq(ReceiptRows) /\ Len(receipts') = r /\ DOMAIN receipts' = 1 .. r
        /\ receipts'[r] = row /\ \A q \in 1 .. Len(receipts) : receipts'[q] = receipts[q]
    BY <1>1 DEF StoreFormed
  <1>3. ASSUME NEW u \in DOMAIN receipts'
        PROVE  LET back == receipts'[u].reverses
               IN  /\ back \in 0 .. Len(receipts')
                   /\ back # 0 => /\ receipts'[u].status \in {"undone", "recovery_required"}
                                  /\ receipts'[u].status = "undone" => receipts'[back].status = "undone"
    <2>1. CASE u = r
      BY <1>1, <1>2, <2>1
    <2>2. CASE u \in 1 .. Len(receipts)
      <3>1. /\ receipts[u].reverses \in 0 .. Len(receipts)
            /\ receipts[u].reverses # 0 =>
                  /\ receipts[u].status \in {"undone", "recovery_required"}
                  /\ receipts[u].status = "undone" => receipts[receipts[u].reverses].status = "undone"
        BY <2>2, LatestIs DEF Reversals
      <3>2. receipts'[u] = receipts[u]
        BY <1>2, <2>2
      <3>3. receipts[u].reverses # 0 => receipts'[receipts[u].reverses] = receipts[receipts[u].reverses]
        BY <1>1, <1>2, <3>1
      <3> QED  BY <1>1, <1>2, <3>1, <3>2, <3>3
    <2> QED  BY <1>1, <1>2, <2>1, <2>2
  <1> QED  BY <1>2, <1>3 DEF Reversals

LEMMA ApplyKeeps ==
  ASSUME StoreFormed, Reversals, NEW me, NEW cmd \in Commands, Apply(me, cmd)
  PROVE  StoreFormed' /\ Reversals'
  <1> DEFINE p == cmd.id
             r == Len(receipts) + 1
             Becomes(s) == plans' = [plans EXCEPT ![p].status = s]
  <1>1. p \in Nat /\ Len(receipts) \in Nat /\ Latest \in Nat
    BY LatestIs DEF Commands
  <1>2. CASE \E code : Refuse(me, cmd, code)
    BY <1>2, RefuseKeeps
  <1>3. ASSUME NEW s \in {"applying", "recovery_required"}, Becomes(s),
               UNCHANGED orphan \/ orphan' = [plan |-> p, reverses |-> 0],
               UNCHANGED <<disk, permits, scans, reported, receipts, invalid>>
        PROVE  StoreFormed' /\ Reversals'
    <2>1. plans' \in Seq(PlanRows)
      BY <1>3, PlanBecomes
    <2>2. orphan' \in [plan : Nat, reverses : 0 .. Len(receipts)]
      BY <1>1, <1>3 DEF StoreFormed
    <2> QED  BY <1>3, <2>1, <2>2 DEF StoreFormed, Reversals, disk, Latest
  <1>4. ASSUME NEW s \in {"applied", "failed_rolled_back", "recovery_required"}, Becomes(s),
               receipts' = Append(receipts, [plan |-> p, reverses |-> 0, status |-> s]),
               invalid' = IF s = "applied" THEN invalid \cup {<<Latest, r>>} ELSE invalid,
               UNCHANGED <<disk, permits, scans, reported, orphan>>
        PROVE  StoreFormed' /\ Reversals'
    <2>1. plans' \in Seq(PlanRows)
      BY <1>4, PlanBecomes
    <2>2. receipts' \in Seq(ReceiptRows) /\ Len(receipts') = r /\ Reversals'
      <3>1. 0 \in 0 .. Len(receipts)
        BY <1>1
      <3> QED  BY <1>1, <1>4, <3>1, ReceiptAdded
    <2>3. invalid' \subseteq (0 .. Latest) \X Nat
      BY <1>1, <1>4 DEF StoreFormed
    <2>4. orphan' \in [plan : Nat, reverses : 0 .. r]
      BY <1>1, <1>4 DEF StoreFormed
    <2> QED  BY <1>4, <2>1, <2>2, <2>3, <2>4 DEF StoreFormed, disk, Latest
  <1> QED  BY <1>2, <1>3, <1>4 DEF Apply

LEMMA UndoKeeps ==
  ASSUME StoreFormed, Reversals, NEW me, NEW cmd \in Commands, Undo(me, cmd)
  PROVE  StoreFormed' /\ Reversals'
  <1> DEFINE r == cmd.id
             u == Len(receipts) + 1
             Reversal(s) == [plan |-> receipts[r].plan, reverses |-> r, status |-> s]
  <1>1. r \in 1 .. Len(receipts) /\ Len(receipts) \in Nat /\ Latest \in Nat /\ receipts[r] \in ReceiptRows
    BY LatestIs DEF Undo, StoreFormed
  <1>2. receipts[r].plan \in Nat
    BY <1>1 DEF ReceiptRows
  <1>3. CASE \E code : Refuse(me, cmd, code)
    BY <1>3, RefuseKeeps
  <1>4. CASE /\ orphan' = [plan |-> receipts[r].plan, reverses |-> r]
             /\ UNCHANGED <<disk, permits, scans, reported, plans, receipts, invalid>>
    <2>1. orphan' \in [plan : Nat, reverses : 0 .. Len(receipts)]
      BY <1>1, <1>2, <1>4
    <2> QED  BY <1>4, <2>1 DEF StoreFormed, Reversals, disk, Latest
  <1>5. ASSUME UndoRefusal(r) = "ok",
               receipts' = Append([receipts EXCEPT ![r].status = "undone"], Reversal("undone")),
               invalid' = invalid \cup {<<Latest, u>>},
               UNCHANGED <<disk, permits, scans, reported, plans, orphan>>
        PROVE  StoreFormed' /\ Reversals'
    <2> DEFINE marked == [receipts EXCEPT ![r].status = "undone"]
    <2>1. [receipts[r] EXCEPT !.status = "undone"] \in ReceiptRows /\ Reversal("undone") \in ReceiptRows
      BY <1>1, <1>2 DEF ReceiptRows
    <2>2. marked \in Seq(ReceiptRows) /\ Len(marked) = Len(receipts) /\ DOMAIN marked = 1 .. Len(receipts)
      <3>1. receipts \in [1 .. Len(receipts) -> ReceiptRows]
        BY DEF StoreFormed
      <3>2. marked \in [1 .. Len(receipts) -> ReceiptRows]
        BY <1>1, <2>1, <3>1
      <3> QED  BY <1>1, <3>2
    <2>3. /\ receipts' \in Seq(ReceiptRows) /\ Len(receipts') = u /\ DOMAIN receipts' = 1 .. u
          /\ receipts'[u] = Reversal("undone") /\ \A q \in 1 .. Len(receipts) : receipts'[q] = marked[q]
      <3> HIDE DEF marked
      <3> QED  BY <1>1, <1>5, <2>1, <2>2 DEF marked
    <2>4. \A q \in 1 .. Len(receipts) : /\ receipts'[q].reverses = receipts[q].reverses
                                       /\ receipts'[q].status = IF q = r THEN "undone" ELSE receipts[q].status
      <3> SUFFICES ASSUME NEW q \in 1 .. Len(receipts)
                   PROVE  /\ receipts'[q].reverses = receipts[q].reverses
                          /\ receipts'[q].status = IF q = r THEN "undone" ELSE receipts[q].status
        OBVIOUS
      <3>1. receipts[q] \in ReceiptRows /\ receipts'[q] = marked[q] /\ q \in DOMAIN receipts
        <4>1. DOMAIN receipts = 1 .. Len(receipts)
          BY LatestIs
        <4>2. receipts[q] \in ReceiptRows
          BY DEF StoreFormed
        <4> QED  BY <2>3, <4>1, <4>2
      <3>2. CASE q = r
        BY <3>1, <3>2 DEF ReceiptRows
      <3>3. CASE q # r
        BY <3>1, <3>3
      <3> QED  BY <3>2, <3>3
    <2>5. /\ receipts[r].status = "applied" /\ receipts[r].reverses = 0
          /\ \A q \in 1 .. Len(receipts) : receipts[q].reverses # r
      BY <1>1, <1>5, LatestIs DEF UndoRefusal, Reversals
    <2>6. ASSUME NEW q \in DOMAIN receipts'
          PROVE  LET back == receipts'[q].reverses
                 IN  /\ back \in 0 .. Len(receipts')
                     /\ back # 0 => /\ receipts'[q].status \in {"undone", "recovery_required"}
                                    /\ receipts'[q].status = "undone" => receipts'[back].status = "undone"
      <3>1. CASE q = u
        <4>1. receipts'[q].reverses = r /\ receipts'[q].status = "undone" /\ receipts'[r].status = "undone"
          BY <1>1, <2>3, <2>4, <3>1
        <4> QED  BY <1>1, <2>3, <4>1
      <3>2. CASE q \in 1 .. Len(receipts)
        <4> DEFINE back == receipts[q].reverses
        <4>1. /\ back \in 0 .. Len(receipts)
              /\ back # 0 => /\ receipts[q].status \in {"undone", "recovery_required"}
                             /\ receipts[q].status = "undone" => receipts[back].status = "undone"
          BY <3>2, LatestIs DEF Reversals
        <4>2. back # 0 => back \in 1 .. Len(receipts) /\ q # r
          BY <1>1, <2>5, <4>1
        <4>3. back # 0 => receipts'[q].status = receipts[q].status
          BY <2>4, <3>2, <4>2
        <4>4. back # 0 /\ receipts[back].status = "undone" => receipts'[back].status = "undone"
          BY <2>4, <4>2
        <4>5. receipts'[q].reverses = back
          BY <2>4, <3>2
        <4> HIDE DEF back
        <4> QED  BY <1>1, <2>3, <4>1, <4>3, <4>4, <4>5
      <3> QED  BY <1>1, <2>3, <3>1, <3>2
    <2>7. Reversals'
      BY <2>6 DEF Reversals
    <2>8. invalid' \subseteq (0 .. Latest) \X Nat
      BY <1>1, <1>5 DEF StoreFormed
    <2>9. orphan' \in [plan : Nat, reverses : 0 .. u]
      BY <1>1, <1>5 DEF StoreFormed
    <2> QED  BY <1>5, <2>3, <2>7, <2>8, <2>9 DEF StoreFormed, disk, Latest
  <1>6. CASE /\ receipts' = Append(receipts, Reversal("recovery_required"))
             /\ UNCHANGED <<disk, permits, scans, reported, plans, invalid, orphan>>
    <2>1. r \in 0 .. Len(receipts)
      BY <1>1
    <2>2. receipts' \in Seq(ReceiptRows) /\ Len(receipts') = u /\ Reversals'
      BY <1>2, <1>6, <2>1, ReceiptAdded
    <2>3. orphan' \in [plan : Nat, reverses : 0 .. u]
      BY <1>1, <1>6 DEF StoreFormed
    <2> QED  BY <1>6, <2>2, <2>3 DEF StoreFormed, disk, Latest
  <1> QED  BY <1>3, <1>4, <1>5, <1>6 DEF Undo

LEMMA RecoverKeeps ==
  ASSUME StoreFormed, Reversals, NEW me, NEW cmd \in Commands, Recover(me, cmd)
  PROVE  StoreFormed' /\ Reversals'
  <1>1. UNCHANGED <<disk, permits, scans, reported, invalid>> /\ Len(receipts) \in Nat
    BY LatestIs DEF Recover
  <1>2. CASE UNCHANGED <<plans, receipts, orphan>>
    BY <1>1, <1>2 DEF StoreFormed, Reversals, disk, Latest
  <1>3. CASE /\ orphan' = Nowhere
             /\ receipts' = Append(receipts, [plan |-> orphan.plan, reverses |-> orphan.reverses,
                                              status |-> "recovery_required"])
             /\ plans' = IF orphan.reverses # 0 THEN plans
                         ELSE [plans EXCEPT ![orphan.plan].status = "recovery_required"]
    <2>1. orphan.plan \in Nat /\ orphan.reverses \in 0 .. Len(receipts)
      BY DEF StoreFormed
    <2>2. receipts' \in Seq(ReceiptRows) /\ Len(receipts') = Len(receipts) + 1 /\ Reversals'
      BY <1>3, <2>1, ReceiptAdded
    <2>3. plans' \in Seq(PlanRows)
      BY <1>3, PlanBecomes DEF StoreFormed
    <2>4. orphan' \in [plan : Nat, reverses : 0 .. Len(receipts) + 1]
      BY <1>1, <1>3 DEF Nowhere
    <2> QED  BY <1>1, <2>2, <2>3, <2>4 DEF StoreFormed, disk, Latest
  <1> QED  BY <1>2, <1>3 DEF Recover

LEMMA RunKeeps ==
  ASSUME StoreFormed, Reversals, NEW me, NEW cmd \in Commands, Run(me, cmd)
  PROVE  StoreFormed' /\ Reversals'
  <1>1. CASE Status(me, cmd)
    BY <1>1, SameStore DEF Status
  <1>2. CASE Finding(me, cmd)
    BY <1>2, SameStore DEF Finding, Refuse
  <1>3. CASE Find(me, cmd)
    BY <1>3, RefuseKeeps DEF Find
  <1>4. CASE Show(me, cmd)
    BY <1>4, SameStore DEF Show
  <1> QED  BY <1>1, <1>2, <1>3, <1>4, ScanKeeps, ReportKeeps, PermissionKeeps, PlanKeeps, ApplyKeeps,
              UndoKeeps, RecoverKeeps DEF Run

LEMMA RunTalks ==
  ASSUME GuidanceInv, NEW cmd \in Commands, Run(TRUE, cmd), asks' \in Nat, events' \in Nat
  PROVE  TalkFormed' /\ OffersStand' /\ ScansReasoned' /\ ScanDone'
  BY StatusTalk, ScanTalk, ReportTalk, FindingTalk, FindTalk, PermissionTalk, PlanTalk, ShowTalk, ApplyTalk,
     UndoTalk, RecoverTalk DEF Run

(* Another session's command only makes what the Agent knows out of date.  *)
LEMMA OutOfDate ==
  ASSUME GuidanceInv, quiet' = FALSE, UNCHANGED <<answer, lesson>>, asks' \in Nat, events' \in Nat
  PROVE  TalkFormed' /\ OffersStand' /\ ScansReasoned' /\ ScanDone'
  BY DEF GuidanceInv, TalkFormed, OffersStand, ScansReasoned, ScanDone, Offered

LEMMA OthersAreNotHeard ==
  ASSUME NEW cmd, Run(FALSE, cmd)
  PROVE  quiet' = FALSE /\ UNCHANGED <<answer, lesson>>
  <1>1. ASSUME NEW code, NEW offers, Answer(FALSE, cmd, code, offers)
        PROVE  quiet' = FALSE /\ UNCHANGED <<answer, lesson>>
    BY <1>1 DEF Answer
  <1>2. ASSUME NEW code, Refuse(FALSE, cmd, code)
        PROVE  quiet' = FALSE /\ UNCHANGED <<answer, lesson>>
    BY <1>1, <1>2 DEF Refuse
  <1>3. CASE Status(FALSE, cmd) \/ Scan(FALSE, cmd) \/ Show(FALSE, cmd) \/ Recover(FALSE, cmd)
    BY <1>1, <1>3 DEF Status, Scan, Show, Recover
  <1>4. CASE Report(FALSE, cmd) \/ Find(FALSE, cmd) \/ Confirm(FALSE, cmd) \/ Revoke(FALSE, cmd)
    BY <1>1, <1>2, <1>4 DEF Report, Find, Confirm, Revoke
  <1>5. CASE Finding(FALSE, cmd) \/ MakePlan(FALSE, cmd)
    BY <1>1, <1>2, <1>5 DEF Finding, MakePlan
  <1>6. CASE Apply(FALSE, cmd)
    BY <1>1, <1>2, <1>6 DEF Apply
  <1>7. CASE Undo(FALSE, cmd)
    BY <1>1, <1>2, <1>7 DEF Undo
  <1> QED  BY <1>3, <1>4, <1>5, <1>6, <1>7 DEF Run

LEMMA OwnAreCommands ==
  ASSUME StoreFormed, TalkFormed
  PROVE  /\ Own \subseteq Commands
         /\ answer.offers # <<>> => Head(answer.offers).cmd \in Commands /\ Head(answer.offers) \in Offered
         /\ To("status") \in Commands /\ To("scan") \in Commands
         /\ \A n \in Nat : On("apply", n) \in Commands /\ On("revoke", n) \in Commands
  <1>1. \A o \in Offered : o.cmd \in Commands
    <2>1. answer.offers \in Seq(Suggestions)
      BY DEF TalkFormed
    <2>2. \A n \in DOMAIN answer.offers : answer.offers[n] \in Suggestions
      BY <2>1
    <2>3. \A o \in Suggestions : o.cmd \in Commands
      BY DEF Suggestions
    <2> QED  BY <2>2, <2>3 DEF Offered
  <1>2. answer.offers # <<>> => Head(answer.offers) \in Offered
    BY DEF TalkFormed, Offered
  <1>3. {"status", "scan", "report", "load", "finding", "plan", "show", "revoke", "apply"} \subseteq Names
    BY DEF Names
  <1>4. /\ To("status") \in Commands /\ To("scan") \in Commands /\ To("report") \in Commands
        /\ To("load") \in Commands
        /\ Command("scan", 0, TRUE) \in Commands
        /\ \A n \in Nat : /\ On("finding", n) \in Commands /\ On("plan", n) \in Commands
                          /\ On("show", n) \in Commands /\ On("revoke", n) \in Commands
                          /\ On("apply", n) \in Commands
    BY <1>3 DEF To, On, Command, Commands
  <1>5. reported \subseteq Nat /\ DOMAIN plans \subseteq Nat /\ DOMAIN permits \subseteq Nat /\ {1, 2} \subseteq Nat
    BY DEF StoreFormed
  <1>6. Own \subseteq Commands
    BY <1>1, <1>4, <1>5 DEF Own
  <1> QED  BY <1>1, <1>2, <1>4, <1>6

-----------------------------------------------------------------------------
LEMMA InitGuidanceInv == Init => GuidanceInv
  <1> SUFFICES ASSUME Init
               PROVE  GuidanceInv
    OBVIOUS
  <1>1. StoreFormed
    BY DEF Init, StoreFormed, Nowhere, Latest
  <1>2. To("none") \in Commands /\ "ok" \in Codes /\ <<>> \in Seq(Suggestions)
    BY DEF To, Command, Commands, Names, Codes
  <1>3. NoAnswer \in [cmd : Commands, code : Codes, offers : Seq(Suggestions)]
    <2> DEFINE cmd == To("none")
    <2>1. NoAnswer = [cmd |-> cmd, code |-> "ok", offers |-> <<>>] /\ cmd \in Commands
      BY <1>2 DEF NoAnswer
    <2> HIDE DEF cmd
    <2>2. [cmd |-> cmd, code |-> "ok", offers |-> <<>>] \in [cmd : Commands, code : Codes, offers : Seq(Suggestions)]
      BY <1>2, <2>1
    <2> QED  BY <2>1, <2>2, Zenon
  <1>4. NoLesson \in [cmd : Commands, code : Codes]
    BY <1>2 DEF NoLesson
  <1>5. TalkFormed
    BY <1>3, <1>4 DEF Init, TalkFormed
  <1>6. Offered = {} /\ receipts = <<>>
    BY DEF Init, Offered, NoAnswer
  <1> QED  BY <1>1, <1>5, <1>6 DEF Init, GuidanceInv, Reversals, OffersStand, ScansReasoned, ScanDone

LEMMA NextGuidanceInv == GuidanceInv /\ [Next]_vars => GuidanceInv'
  <1> SUFFICES ASSUME GuidanceInv, [Next]_vars
               PROVE  GuidanceInv'
    OBVIOUS
  <1>1. StoreFormed /\ TalkFormed /\ Reversals /\ asks \in Nat /\ events \in Nat
    BY DEF GuidanceInv, TalkFormed
  <1>2. ASSUME NEW cmd \in Commands, Run(TRUE, cmd), asks' \in Nat, events' \in Nat
        PROVE  GuidanceInv'
    BY <1>1, <1>2, RunKeeps, RunTalks DEF GuidanceInv
  <1>3. CASE FollowFirst
    BY <1>1, <1>2, <1>3, OwnAreCommands DEF FollowFirst
  <1>4. CASE Ask
    <2>1. PICK cmd \in Own : Run(TRUE, cmd)
      BY <1>4 DEF Ask
    <2>2. cmd \in Commands
      BY <1>1, OwnAreCommands
    <2>3. asks' \in Nat /\ events' \in Nat
      BY <1>1, <1>4 DEF Ask
    <2> QED  BY <1>2, <2>1, <2>2, <2>3
  <1>5. CASE Elsewhere
    <2>1. PICK cmd \in {To("scan")} \cup {On("apply", p) : p \in ReadyNow} \cup {On("revoke", p) : p \in Standing} :
             Run(FALSE, cmd)
      BY <1>5 DEF Elsewhere
    <2>2. ReadyNow \subseteq Nat /\ Standing \subseteq Nat
      BY <1>1 DEF ReadyNow, Standing, StoreFormed
    <2>3. cmd \in Commands
      BY <1>1, <2>1, <2>2, OwnAreCommands
    <2>4. asks' \in Nat /\ events' \in Nat
      BY <1>1, <1>5 DEF Elsewhere, Event
    <2> QED  BY <1>1, <2>1, <2>3, <2>4, RunKeeps, OthersAreNotHeard, OutOfDate DEF GuidanceInv
  <1>6. CASE Edit \/ Configure \/ Replace
    <2>1. /\ quiet' = FALSE /\ UNCHANGED <<answer, lesson>> /\ asks' \in Nat /\ events' \in Nat
          /\ UNCHANGED <<permits, scans, reported, plans, receipts, invalid, orphan>>
      BY <1>1, <1>6 DEF Edit, Configure, Replace, Event, store
    <2>2. files' \in Files /\ settings' \in Nat /\ root' \in Nat
      BY <1>1, <1>6 DEF Edit, Configure, Replace, StoreFormed
    <2>3. StoreFormed' /\ Reversals'
      BY <1>1, <2>1, <2>2 DEF StoreFormed, Reversals, Latest
    <2> QED  BY <2>1, <2>3, OutOfDate DEF GuidanceInv
  <1>7. CASE UNCHANGED vars
    <2>1. UNCHANGED <<files, settings, root, permits, scans, reported, plans, receipts, invalid, orphan,
                      answer, quiet, lesson, asks, events>>
      BY <1>7 DEF vars, disk, store, talk
    <2>2. StoreFormed' /\ TalkFormed' /\ Reversals'
      BY <1>1, <2>1 DEF StoreFormed, TalkFormed, Reversals, Latest
    <2>3. /\ Latest' = Latest /\ LatestScan' = LatestScan /\ CurrentFacts' = CurrentFacts
          /\ Drifted' = Drifted
          /\ RowNeedsRecovery' = RowNeedsRecovery /\ JournalIssues' = JournalIssues
          /\ \A n : ContentIdentity(n)' = ContentIdentity(n) /\ UndoRefusal(n)' = UndoRefusal(n)
      BY <2>1, SameFacts
    <2>4. Offered' = Offered /\ ScansReasoned'
      BY <2>1 DEF Offered, ScansReasoned, GuidanceInv
    <2>5. OffersStand'
      <3>1. \A o \in Offered : (Oversight(o) => Oversight(o)') /\ (Stands(o.cmd) => Stands(o.cmd)')
        BY <2>1, <2>3 DEF Oversight, Stands
      <3> QED  BY <2>1, <2>4, <3>1 DEF OffersStand, GuidanceInv
    <2>6. ScanDone'
      BY <2>1, <2>3 DEF ScanDone, Fresh, ContentDrifted, GuidanceInv
    <2> QED  BY <2>2, <2>4, <2>5, <2>6 DEF GuidanceInv
  <1> QED  BY <1>3, <1>4, <1>5, <1>6, <1>7 DEF Next

(* The files, settings, store and talk keep their form, the Receipts of an *)
(* Undo and of what it took back agree, what is suggested stands, and after*)
(* a Scan it was sent to the Agent can go on.                              *)
THEOREM GuidanceInvariant == Spec => []GuidanceInv
  <1>1. Init => GuidanceInv
    BY InitGuidanceInv
  <1>2. GuidanceInv /\ [Next]_vars => GuidanceInv'
    BY NextGuidanceInv
  <1> QED  BY <1>1, <1>2, PTL DEF Spec

-----------------------------------------------------------------------------
(* What the Agent sees is the answer to the command it ran.                *)
LEMMA AnswerSeen ==
  ASSUME NEW cmd, NEW code, NEW offers, Answer(TRUE, cmd, code, offers)
  PROVE  answer'.cmd = cmd /\ answer'.code = code
  BY DEF Answer

LEMMA RefusalSeen ==
  ASSUME NEW cmd, NEW code, Refuse(TRUE, cmd, code)
  PROVE  answer'.cmd = cmd /\ answer'.code = code
  BY AnswerSeen DEF Refuse

(* The codes each command may answer with.                                 *)
MayAnswer(cmd) ==
    \/ cmd.name \in {"scan", "show", "recovery"} /\ answer'.code = "ok"
    \/ cmd.name = "status" /\ answer'.code = Readiness
    \/ cmd.name = "report" /\ answer'.code = CurrentFacts
    \/ cmd.name = "finding" /\ answer'.code \in {LatestScan, ContentIdentity(cmd.id), "ok"}
                            /\ (LatestScan = "ok" /\ ContentIdentity(cmd.id) = "ok" => answer'.code = "ok")
    \/ cmd.name \in {"load", "inspect"} /\ answer'.code = FindOutcome(cmd)
    \/ cmd.name = "confirm" /\ answer'.code = IF LatestScan # "ok" THEN LatestScan
                                              ELSE IF cmd.id # Latest THEN "source_root_finding_stale"
                                              ELSE IF Drifted # {} THEN "source_root_permission_identity_drift"
                                              ELSE "ok"
    \/ cmd.name = "revoke" /\ answer'.code \in {"source_root_already_revoked", "ok"}
    \/ cmd.name = "plan" /\ answer'.code = PlanRefusal(cmd.id)
    \/ cmd.name = "apply" /\ \/ answer'.code = ApplyRefusal(cmd.id)
                             \/ answer'.code \in {"killed", "command_failed", "applied", "failed_rolled_back",
                                                  "recovery_required"}
    \/ cmd.name = "undo" /\ \/ UndoRefusal(cmd.id) # "ok" /\ answer'.code = UndoRefusal(cmd.id)
                            \/ answer'.code \in {"state_drift", "killed", "undone", "recovery_required"}

LEMMA RunAnswers ==
  ASSUME NEW cmd, Run(TRUE, cmd)
  PROVE  answer'.cmd = cmd /\ MayAnswer(cmd)
  <1>1. CASE Status(TRUE, cmd) \/ Scan(TRUE, cmd) \/ Show(TRUE, cmd) \/ Recover(TRUE, cmd)
    BY <1>1, AnswerSeen DEF Status, Scan, Show, Recover, MayAnswer
  <1>2. CASE Report(TRUE, cmd)
    BY <1>2, AnswerSeen, RefusalSeen DEF Report, MayAnswer
  <1>3. CASE Finding(TRUE, cmd)
    BY <1>3, AnswerSeen, RefusalSeen DEF Finding, MayAnswer
  <1>4. CASE Find(TRUE, cmd)
    BY <1>4, RefusalSeen DEF Find, MayAnswer
  <1>5. CASE Confirm(TRUE, cmd)
    BY <1>5, AnswerSeen, RefusalSeen DEF Confirm, MayAnswer
  <1>6. CASE Revoke(TRUE, cmd)
    BY <1>6, AnswerSeen, RefusalSeen DEF Revoke, MayAnswer
  <1>7. CASE MakePlan(TRUE, cmd)
    BY <1>7, AnswerSeen, RefusalSeen DEF MakePlan, MayAnswer
  <1>8. CASE Apply(TRUE, cmd)
    BY <1>8, AnswerSeen, RefusalSeen DEF Apply, MayAnswer
  <1>9. CASE Undo(TRUE, cmd)
    BY <1>9, AnswerSeen, RefusalSeen DEF Undo, MayAnswer
  <1> QED  BY <1>1, <1>2, <1>3, <1>4, <1>5, <1>6, <1>7, <1>8, <1>9 DEF Run

(* A step that hears an answer runs one of the Agent's commands.           *)
LEMMA HearsOrWaits ==
  ASSUME Next, events \in Nat
  PROVE  \/ \E cmd : Run(TRUE, cmd)
         \/ events' # events /\ UNCHANGED answer
  <1>1. CASE FollowFirst \/ Ask
    BY <1>1 DEF FollowFirst, Ask
  <1>2. Event => events' # events
    BY DEF Event
  <1>3. CASE Elsewhere
    BY <1>2, <1>3, OthersAreNotHeard DEF Elsewhere
  <1>4. CASE Edit \/ Configure \/ Replace
    BY <1>2, <1>4 DEF Edit, Configure, Replace, store
  <1> QED  BY <1>1, <1>3, <1>4 DEF Next

(* A command that stands is not refused.                                   *)
LEMMA StandingIsAccepted ==
  ASSUME NEW cmd, Stands(cmd), MayAnswer(cmd)
  PROVE  ~Refused(answer'.code)
  <1>1. CASE cmd.name \in {"scan", "show", "recovery", "report", "confirm", "finding"}
    BY <1>1 DEF MayAnswer, Stands, Refused
  <1>2. CASE cmd.name = "status"
    BY <1>2, ReadinessIs DEF MayAnswer, Refused
  <1>3. CASE cmd.name = "inspect"
    BY <1>3, FactsAre DEF MayAnswer, Stands, FindOutcome, Refused
  <1>4. CASE cmd.name = "plan"
    BY <1>4 DEF MayAnswer, Stands, PlanRefusal, ConsolidationRefusal, Refused
  <1>5. CASE cmd.name = "apply"
    <2>1. ApplyRefusal(cmd.id) \in {"ok", "library_content_rescan_required", "state_drift"}
      BY <1>5, FactsAre DEF Stands, ApplyRefusal
    <2> QED  BY <1>5, <2>1 DEF MayAnswer, Refused
  <1>6. CASE cmd.name = "undo"
    BY <1>6 DEF MayAnswer, Stands, Refused
  <1>7. CASE cmd.name \in {"load", "revoke"}
    BY <1>7 DEF Stands
  <1> QED  BY <1>1, <1>2, <1>3, <1>4, <1>5, <1>6, <1>7 DEF MayAnswer

(* After a Scan that was asked for, what asked for it is not said again.   *)
Uncured ==
    {"ok", "find_snapshot_changed", "same_name_variants_ambiguous", "source_root_finding_stale",
     "source_root_already_revoked", "source_root_permission_identity_drift", "recovery_first", "no_effective_change", "roster_mutation_scope_read_only",
     "plan_not_ready", "journal_requires_recovery", "plan_snapshot_stale", "not_undoable", "killed",
     "command_failed", "applied", "failed_rolled_back", "recovery_required", "state_drift", "undone",
     "no_snapshot", "rescan_required", "plan_ready", "report_required", "ready"}

LEMMA ScanIsHeeded ==
  ASSUME StoreFormed, NEW cmd, Fresh, lesson.code \in Cured, MayAnswer(cmd)
  PROVE  \/ answer'.code # lesson.code
         \/ /\ cmd.name = "finding" /\ lesson.code = "content_identity_rescan_required"
            /\ ContentIdentity(cmd.id) # "ok"
  <1>1. /\ LatestScan = "ok" /\ ContentIdentity(Latest) = "ok" /\ CurrentFacts = "ok" /\ ~ContentDrifted
        /\ lesson.code = "trusted_canonical_sources_required" => scans[Latest].external # "unread"
    BY FactsAre DEF Fresh
  <1>2. answer'.code \in Uncured => answer'.code # lesson.code
    <2>1. Uncured \cap Cured = {}
      BY DEF Uncured, Cured, Rescans
    <2>2. ASSUME NEW code \in Uncured, code = lesson.code
          PROVE  FALSE
      BY <2>1, <2>2
    <2> QED  BY <2>2
  <1>3. CASE answer'.code \in Uncured
    BY <1>2, <1>3
  <1>4. CASE cmd.name \in {"scan", "show", "recovery", "report", "confirm", "revoke"}
    <2>1. answer'.code \in {"ok", "source_root_finding_stale", "source_root_permission_identity_drift",
                            "source_root_already_revoked"}
      BY <1>1, <1>4 DEF MayAnswer
    <2> QED  BY <1>3, <2>1 DEF Uncured
  <1>5. CASE cmd.name = "finding"
    <2>1. \/ answer'.code = "ok"
          \/ ContentIdentity(cmd.id) # "ok" /\ answer'.code = "content_identity_rescan_required"
      BY <1>1, <1>5, FactsAre DEF MayAnswer
    <2> QED  BY <1>3, <1>5, <2>1 DEF Uncured
  <1>6. CASE cmd.name = "status"
    <2>1. answer'.code \in {"recovery_required", "no_snapshot", "rescan_required", "plan_ready",
                            "report_required", "ready"}
      BY <1>6, ReadinessIs DEF MayAnswer
    <2> QED  BY <1>3, <2>1 DEF Uncured
  <1>7. CASE cmd.name \in {"load", "inspect"}
    <2>1. FindOutcome(cmd) \in {"ok", "find_snapshot_changed", "same_name_variants_ambiguous"}
      BY <1>1 DEF FindOutcome, LoadOutcome
    <2>2. answer'.code = FindOutcome(cmd)
      BY <1>7 DEF MayAnswer
    <2> QED  BY <1>3, <2>1, <2>2 DEF Uncured
  <1>8. CASE cmd.name = "plan"
    <2>1. ConsolidationRefusal \in {"no_effective_change", "ok"}
      BY <1>1 DEF ConsolidationRefusal
    <2>2. Latest # 0
      BY <1>1 DEF LatestScan
    <2>3. /\ RosterRefusal \in {"trusted_canonical_sources_required", "roster_mutation_scope_read_only", "ok"}
          /\ RosterRefusal = "trusted_canonical_sources_required" => scans[Latest].external = "unread"
      <3>1. scans[Latest].external \in {"unread", "permitted", "temporary"}
        <4>1. scans[Latest] \in Observations
          BY <2>2, LatestIs DEF StoreFormed, Latest
        <4> QED  BY <4>1 DEF Observations
      <3> QED  BY <3>1 DEF RosterRefusal
    <2>4. \/ answer'.code \in {"recovery_first", "no_effective_change", "roster_mutation_scope_read_only", "ok"}
          \/ answer'.code = "trusted_canonical_sources_required" /\ scans[Latest].external = "unread"
      BY <1>1, <1>8, <2>1, <2>3 DEF MayAnswer, PlanRefusal
    <2>5. CASE answer'.code \in {"recovery_first", "no_effective_change", "roster_mutation_scope_read_only", "ok"}
      BY <1>3, <2>5 DEF Uncured
    <2>6. CASE answer'.code = "trusted_canonical_sources_required" /\ scans[Latest].external = "unread"
      <3>1. lesson.code # "trusted_canonical_sources_required"
        BY <1>1, <2>6
      <3> QED  BY <2>6, <3>1
    <2> QED  BY <2>4, <2>5, <2>6
  <1>9. CASE cmd.name = "apply"
    <2>1. ApplyRefusal(cmd.id) \in {"recovery_first", "plan_not_ready", "journal_requires_recovery",
                                    "plan_snapshot_stale", "ok"}
      BY <1>1 DEF ApplyRefusal
    <2>2. \/ answer'.code = ApplyRefusal(cmd.id)
          \/ answer'.code \in {"killed", "command_failed", "applied", "failed_rolled_back", "recovery_required"}
      BY <1>9 DEF MayAnswer
    <2> QED  BY <1>3, <2>1, <2>2 DEF Uncured
  <1>10. CASE cmd.name = "undo"
    <2>1. \/ UndoRefusal(cmd.id) # "ok" /\ answer'.code = UndoRefusal(cmd.id)
          \/ answer'.code \in {"state_drift", "killed", "undone", "recovery_required"}
      BY <1>10 DEF MayAnswer
    <2>2. UndoRefusal(cmd.id) \in {"ok", "not_undoable", "journal_requires_recovery"}
      BY FactsAreCodes
    <2> QED  BY <1>3, <2>1, <2>2 DEF Uncured
  <1> QED  BY <1>4, <1>5, <1>6, <1>7, <1>8, <1>9, <1>10 DEF MayAnswer

(* Every action that src/app.rs and src/app/error.rs suggest, taken at     *)
(* once, is carried out or refused only for what the files hold now, and   *)
(* not for a Snapshot, Plan, Receipt, permission or recovery, unless it is *)
(* one of the oversights, where the command making the suggestion does not *)
(* look: one of them is a permission whose directory is another one now.   *)
THEOREM SuggestionsHold == Spec => OffersHold
  <1>1. ASSUME GuidanceInv, Next, NEW o \in Offered, Taken(o), quiet, ~Oversight(o)
        PROVE  ~Refused(answer'.code)
    <2>1. Stands(o.cmd) /\ events \in Nat
      BY <1>1 DEF GuidanceInv, OffersStand, TalkFormed
    <2>2. PICK cmd : Run(TRUE, cmd)
      BY <1>1, <2>1, HearsOrWaits DEF Taken
    <2>3. o.cmd = cmd /\ MayAnswer(cmd)
      BY <1>1, <2>2, RunAnswers DEF Taken
    <2> QED  BY <2>1, <2>3, StandingIsAccepted
  <1>2. GuidanceInv /\ [Next]_vars =>
            [\A o \in Offered : Taken(o) /\ quiet /\ ~Oversight(o) => ~Refused(answer'.code)]_vars
    BY <1>1
  <1> QED  BY <1>2, GuidanceInvariant, PTL DEF Spec, OffersHold

(* The Scan that a refusal suggests removes what the command was refused   *)
(* for: repeated after it, with nothing changed in between, the command    *)
(* gets another answer.  The exception, OldPayload, is a Finding of a      *)
(* Report made under other settings: the code asks for a Scan, and none    *)
(* brings that Report back.                                                *)
THEOREM ScansCure == Spec => ScanCures
  <1>1. ASSUME GuidanceInv, Next, quiet, lesson # NoLesson, ~OldPayload, answer'.cmd = lesson.cmd
        PROVE  answer'.code # lesson.code
    <2>1. /\ StoreFormed /\ events \in Nat
          /\ answer.code = "ok" /\ lesson.code \in Cured /\ Fresh
      BY <1>1 DEF GuidanceInv, ScanDone, TalkFormed
    <2>2. CASE UNCHANGED answer
      BY <2>1, <2>2 DEF Cured, Rescans
    <2>3. CASE \E cmd : Run(TRUE, cmd)
      <3>1. PICK cmd : Run(TRUE, cmd)
        BY <2>3
      <3>2. cmd = lesson.cmd /\ MayAnswer(cmd)
        BY <1>1, <3>1, RunAnswers
      <3> QED  BY <1>1, <2>1, <3>2, ScanIsHeeded DEF OldPayload
    <2> QED  BY <1>1, <2>1, <2>2, <2>3, HearsOrWaits
  <1>2. GuidanceInv /\ [Next]_vars =>
            [quiet /\ lesson # NoLesson /\ ~OldPayload /\ answer'.cmd = lesson.cmd =>
                answer'.code # lesson.code]_vars
    BY <1>1
  <1> QED  BY <1>2, GuidanceInvariant, PTL DEF Spec, ScanCures
=============================================================================
