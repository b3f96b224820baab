---------------------------- MODULE SourceUpdates ----------------------------
(***************************************************************************)
(* Source updates: the Agent hands `plan --stdin` the upstream content of  *)
(* a Skill's newer revision, Plan compares the entrypoint with the baseline*)
(* the store trusts for the revision it declares and asks for an explicit  *)
(* choice unless nothing was changed locally, Apply replaces the entrypoint*)
(* or lays the upstream beside it, and the verified Receipt makes the      *)
(* upstream content the trusted baseline of its revision.                  *)
(*                                                                         *)
(* Commands take the state lock, so Scans, Plans, Applies and Undos do not *)
(* overlap; other programs edit the packages between any two of their      *)
(* reads.  The journal and the compensations are ChangeEngine's, the status*)
(* of Plans and Receipts Governance's, clients' visibility LibraryPlan's.  *)
(***************************************************************************)
EXTENDS PackageReading, FiniteSets

CONSTANTS
    Links,     \* placements that are links
    Asked,     \* what the Agent may ask for: functions from placements to Requests
    MaxPlans   \* bound: Plans prepared

Choice == {"retain_local", "adopt_upstream", "preserve_both"}
NoChoice == "none"
Upstream == {e \in Entry : e.revision # 0}
Request == [upstream : Upstream, choice : Choice \cup {NoChoice},
            base : Contents]     \* the baseline the Agent compared with, Gone if it names none

ASSUME UpdatesAssumption ==
    /\ Links \subseteq Placement /\ MaxPlans \in Nat
    /\ \A asked \in Asked :
          asked \in [DOMAIN asked -> Request] /\ DOMAIN asked \subseteq Placement

VARIABLES
    latest,    \* the latest Snapshot no Receipt has invalidated, or 0
    plans,     \* the Plans prepared, in order
    drafting,  \* what Plan has read of the files it is asked to update
    running,   \* the Apply under way
    receipts,  \* the Receipts of verified Applies: the Plan, and its Undo
    recovery,  \* recovery is required: a journal is unresolved
    replaced   \* the entrypoints Apply has taken off, with their updates

governance == <<latest, plans, drafting, running, receipts, recovery, replaced>>
vars == <<readingVars, governance>>

NoDraft == [asked |-> <<>>, read |-> <<>>]
Nobody == [plan |-> 0]

Init ==
    /\ ReadingInit
    /\ latest = 0 /\ plans = <<>> /\ drafting = NoDraft /\ running = Nobody
    /\ receipts = <<>> /\ recovery = FALSE /\ replaced = {}

Idle == at = 0 /\ drafting = NoDraft /\ running = Nobody

(***************************************************************************)
(* Plan.                                                                   *)
(***************************************************************************)
Shown(p) == snapshot.of[p]

(* A Skill is one revision of the source for all of its placements.        *)
Updatable(p) ==
    /\ p \notin Links /\ Shown(p).safe
    /\ Declared(Shown(p).entry) # 0

(* What the entrypoint read now says, against the baseline of the revision *)
(* its Skill declared to the Scan.                                         *)
From(p) == Declared(Shown(p).entry)
TrustedFor(p) == baseline[From(p)].trusted
FirstOrTrustedFor(p) ==
    IF TrustedFor(p) # Gone THEN TrustedFor(p) ELSE baseline[From(p)].first
LocallyModifiedSinceSeen(p, current) == current # FirstOrTrustedFor(p)
LocallyModified(p, current) == TrustedFor(p) = Gone \/ current # TrustedFor(p)

(* "conflicts with the trusted source baseline" *)
ConflictsWithTrusted(upstream) ==
    baseline[upstream.revision].trusted \notin {Gone, upstream}

Accepted(p, request, current) ==
    /\ Updatable(p)
    /\ request.upstream.revision # From(p)
    /\ current \notin {Gone, request.upstream}
    /\ request.base # Gone => request.base = FirstOrTrustedFor(p)
    /\ ~ConflictsWithTrusted(request.upstream)
    /\ LocallyModified(p, current) => request.choice # NoChoice

(* normalize_agent_plan reads each entrypoint and judges what it read ...  *)
ReadCurrent(asked) ==
    /\ Idle /\ latest # 0 /\ ~recovery /\ Len(plans) < MaxPlans
    /\ \A p \in DOMAIN asked : Accepted(p, asked[p], disk[Home[p]][Entrypoint])
    /\ drafting' = [asked |-> asked, read |-> [p \in DOMAIN asked |-> disk[Home[p]][Entrypoint]]]
    /\ UNCHANGED <<readingVars, latest, plans, running, receipts, recovery, replaced>>

(* ... and change::fingerprint reads it again for the Plan to be bound to. *)
ChosenFor(request) == IF request.choice = NoChoice THEN "adopt_upstream" ELSE request.choice
Update(p) ==
    [choice |-> ChosenFor(drafting.asked[p]), explicit |-> drafting.asked[p].choice # NoChoice,
     upstream |-> drafting.asked[p].upstream, from |-> From(p),
     expected |-> disk[Home[p]][Entrypoint],
     slipped |-> disk[Home[p]][Entrypoint] # drafting.read[p]]

(* change::prepare refuses a file to replace that is gone, a sibling that  *)
(* is there already, and two operations on one file.                       *)
Sibling(update) == update.upstream.revision
FileOf(update) ==
    IF update.choice = "adopt_upstream" THEN Entrypoint ELSE Sibling(update)
Changing(updates) == {p \in DOMAIN updates : updates[p].choice # "retain_local"}
Preparable(updates) ==
    /\ \A p \in Changing(updates) :
          (disk[Home[p]][FileOf(updates[p])] = Gone) <=> (FileOf(updates[p]) # Entrypoint)
    /\ \A p, q \in Changing(updates) :
          Home[p] = Home[q] /\ FileOf(updates[p]) = FileOf(updates[q]) => p = q

PreparePlan ==
    /\ drafting # NoDraft
    /\ LET updates == [p \in DOMAIN drafting.asked |-> Update(p)] IN
       plans' = IF Preparable(updates)
                THEN Append(plans, [scan |-> latest, updates |-> updates, status |-> "ready"])
                ELSE plans
    /\ drafting' = NoDraft
    /\ UNCHANGED <<readingVars, latest, running, receipts, recovery, replaced>>

(***************************************************************************)
(* Apply.                                                                  *)
(***************************************************************************)
Plan == plans[running.plan]
Operated(n) == Changing(plans[n].updates)

(* validate_source_update_preconditions, before anything is written: the   *)
(* file of every update, retained ones too, as the Plan was bound to it.   *)
Undrifted(p, update) == disk[Home[p]][Entrypoint] = update.expected

BeginApply(n) ==
    /\ Idle /\ ~recovery /\ plans[n].status = "ready" /\ plans[n].scan = latest
    /\ \A p \in DOMAIN plans[n].updates : Undrifted(p, plans[n].updates[p])
    /\ plans' = [plans EXCEPT ![n].status = "applying"]
    /\ running' = [plan |-> n, done |-> <<>>, next |-> "validate"]
    /\ UNCHANGED <<readingVars, latest, drafting, receipts, recovery, replaced>>

Order(p) == CHOOSE n \in DOMAIN Candidates : Candidates[n] = p
Done == {running.done[k] : k \in DOMAIN running.done}
Pending == Operated(running.plan) \ Done
NextUpdated == CHOOSE p \in Pending : \A q \in Pending : Order(p) <= Order(q)
FileThere(p) == disk[Home[p]][FileOf(Plan.updates[p])]
AsExpected(p) ==
    FileThere(p) = IF FileOf(Plan.updates[p]) = Entrypoint THEN Plan.updates[p].expected ELSE Gone
Goes(next) == running' = [running EXCEPT !.next = next]
Concludes(status) ==
    running' = Nobody /\ plans' = [plans EXCEPT ![running.plan].status = status]

(* All operations are checked before the first: there is no journal yet,   *)
(* and if one has drifted the Plan is ready again.                         *)
ValidateSequence ==
    /\ running # Nobody /\ running.next = "validate"
    /\ IF \A p \in Pending : AsExpected(p)
       THEN Goes("stage") /\ UNCHANGED plans
       ELSE Concludes("ready")
    /\ UNCHANGED <<readingVars, latest, drafting, receipts, recovery, replaced>>

(* replace_file backs the entrypoint up, which must be as expected: or     *)
(* Apply stops where it is, with the operations before it done.            *)
Turn(next) == running # Nobody /\ running.next = next /\ Pending # {}
Replaces == FileOf(Plan.updates[NextUpdated]) = Entrypoint
StageReplacement ==
    /\ Turn("stage") /\ Replaces
    /\ IF AsExpected(NextUpdated)
       THEN Goes("compare") /\ UNCHANGED <<plans, recovery>>
       ELSE Concludes("recovery_required") /\ recovery' = TRUE
    /\ UNCHANGED <<readingVars, latest, drafting, receipts, replaced>>

(* ... compares it once more ... *)
Compare ==
    /\ Turn("compare")
    /\ Goes(IF AsExpected(NextUpdated) THEN "swap" ELSE "roll back")
    /\ UNCHANGED <<readingVars, latest, plans, drafting, receipts, recovery, replaced>>

(* ... and puts the upstream in its place, whatever it holds by then.      *)
Write(p) ==
    /\ disk' = [disk EXCEPT ![Home[p]][FileOf(Plan.updates[p])] = Plan.updates[p].upstream]
    /\ running' = [running EXCEPT !.done = Append(@, p), !.next = "stage"]
Swap ==
    /\ Turn("swap")
    /\ IF FileThere(NextUpdated) = Gone
       THEN Goes("roll back") /\ UNCHANGED <<disk, replaced>>
       ELSE /\ Write(NextUpdated)
            /\ replaced' = replaced \cup
                  {[update |-> Plan.updates[NextUpdated], was |-> FileThere(NextUpdated)]}
    /\ UNCHANGED <<edits, scans, scanning, snapshot, baseline,
                   latest, plans, drafting, receipts, recovery>>

(* write_file creates the sibling where there is none. *)
CreateSibling ==
    /\ Turn("stage") /\ ~Replaces
    /\ IF AsExpected(NextUpdated) THEN Write(NextUpdated) ELSE Goes("roll back") /\ UNCHANGED disk
    /\ UNCHANGED <<edits, scans, scanning, snapshot, baseline,
                   latest, plans, drafting, receipts, recovery, replaced>>

(* What a Plan wrote is put back, the last file first, up to one somebody  *)
(* has written over since.  A backup is put back over the replacement, over*)
(* itself and where there is no file; a sibling must be as it was written. *)
Overwritten(updates, ps) ==
    {p \in ps :
        LET update == updates[p] IN
        disk[Home[p]][FileOf(update)] \notin
            {update.upstream} \cup (IF FileOf(update) = Entrypoint THEN {update.expected, Gone} ELSE {})}
Restored(updates, ps) ==
    [q \in Package |-> [f \in File |->
        LET put == {p \in ps : Home[p] = q /\ FileOf(updates[p]) = f} IN
        IF put = {} THEN disk[q][f]
        ELSE LET update == updates[CHOOSE p \in put : TRUE] IN
             IF f = Entrypoint THEN update.expected ELSE Gone]]
PutBack(updates, ps) ==
    disk' = Restored(updates, {p \in ps : \A q \in Overwritten(updates, ps) : Order(q) < Order(p)})

(* A replacement that failed has its own backup put back; a file that could*)
(* not be created is left to recovery, whose it may be.                    *)
RollBack ==
    LET staged == Done \cup (IF Replaces THEN {NextUpdated} ELSE {}) IN
    /\ Turn("roll back")
    /\ PutBack(Plan.updates, staged)
    /\ recovery' = (Overwritten(Plan.updates, staged) # {} \/ ~Replaces)
    /\ Concludes(IF recovery' THEN "recovery_required" ELSE "failed_rolled_back")
    /\ UNCHANGED <<edits, scans, scanning, snapshot, baseline,
                   latest, drafting, receipts, replaced>>

(* save_apply_receipt_with_trusted_sources, one row after the other: a     *)
(* baseline that is trusted with another digest refuses the transaction,   *)
(* and the files stay changed under a journal without a Receipt.           *)
Proposed(r) == {Plan.updates[p].upstream : p \in {q \in Operated(running.plan) :
                                                    Plan.updates[q].upstream.revision = r}}
Settles(r) == Cardinality(Proposed(r) \cup ({baseline[r].trusted} \ {Gone})) <= 1
Trusting ==
    [r \in Revision |->
        IF Proposed(r) = {} THEN baseline[r]
        ELSE LET content == CHOOSE c \in Proposed(r) : TRUE IN
             [FirstObserved(baseline[r], content) EXCEPT !.trusted = content]]

Finalize ==
    /\ running # Nobody /\ running.next = "stage" /\ Pending = {}
    /\ IF \A r \in Revision : Settles(r)
       THEN /\ baseline' = Trusting
            /\ receipts' = Append(receipts, [plan |-> running.plan, live |-> TRUE])
            /\ Concludes("applied")
            /\ latest' = 0 /\ UNCHANGED recovery
       ELSE /\ recovery' = TRUE /\ running' = Nobody
            /\ UNCHANGED <<baseline, receipts, plans, latest>>
    /\ UNCHANGED <<package, scans, scanning, snapshot, drafting, replaced>>

(***************************************************************************)
(* Undo.                                                                   *)
(***************************************************************************)
Undo(n) ==
    LET updates == plans[receipts[n].plan].updates IN
    /\ Idle /\ ~recovery /\ receipts[n].live
    /\ PutBack(updates, Changing(updates))
    /\ recovery' = (Overwritten(updates, Changing(updates)) # {})
    /\ receipts' = IF recovery' THEN receipts ELSE [receipts EXCEPT ![n].live = FALSE]
    /\ latest' = IF recovery' THEN latest ELSE 0
    /\ UNCHANGED <<edits, scans, scanning, snapshot, baseline,
                   plans, drafting, running, replaced>>

(***************************************************************************)
(* Scans, and other programs.                                              *)
(***************************************************************************)
Scan == Idle /\ BeginScan /\ UNCHANGED governance
ScanStep ==
    /\ ReadStep
    /\ latest' = IF snapshot' # snapshot THEN snapshot'.id ELSE latest
    /\ UNCHANGED <<plans, drafting, running, receipts, recovery, replaced>>
Next ==
    \/ Scan \/ ScanStep
    \/ \E asked \in Asked : ReadCurrent(asked)
    \/ PreparePlan
    \/ \E n \in DOMAIN plans : BeginApply(n)
    \/ ValidateSequence \/ StageReplacement \/ Compare \/ Swap \/ CreateSibling
    \/ RollBack \/ Finalize
    \/ \E n \in DOMAIN receipts : Undo(n)
    \/ \E p \in Package, f \in File, c \in Contents :
          (f # Entrypoint => Declared(c) = 0) /\ Edit(p, f, c) /\ UNCHANGED governance

Spec == Init /\ [][Next]_vars

(***************************************************************************)
(* Properties.                                                             *)
(***************************************************************************)
(* There is no silent update: an entrypoint that was replaced without an   *)
(* explicit choice held exactly the content the store trusts for the       *)
(* revision it declares, although the Scan may have read the file torn and *)
(* the user may have edited it at any time.  Excepted are an edit between  *)
(* Plan's own two reads of the file, to which the Plan is bound unjudged,  *)
(* and one between Apply's last comparison and the replacement.            *)
NoSilentUpdate ==
    \A x \in replaced :
        \/ x.update.explicit \/ x.update.slipped \/ x.was # x.update.expected
        \/ Declared(x.was) # 0 /\ baseline[Declared(x.was)].trusted = x.was

(* Once a revision's content is trusted, no later Scan, Plan or Undo makes *)
(* the store trust other bytes for it, or none.                            *)
TrustedStays ==
    [][\A r \in Revision :
          baseline[r].trusted # Gone => baseline'[r].trusted = baseline[r].trusted]_vars

(* Every successful mutation writes a Receipt (docs/product-spec.md:350):  *)
(* an Apply that ran to its end and was not rolled back has one.           *)
EverySuccessHasReceipt ==
    \A n \in DOMAIN plans : plans[n].status = "applying" /\ running.plan # n =>
        \E k \in DOMAIN receipts : receipts[k].plan = n
=============================================================================
