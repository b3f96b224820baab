-------------------------------- MODULE Setup --------------------------------
(***************************************************************************)
(* `setup` (setup_command_with_manifests_for_agent in src/app.rs): the one *)
(* Bootstrap Skill package, previewed for the detected Agents or for one   *)
(* of them, applied as a Plan and undone.  A person edits the packages at  *)
(* any time, also while Setup reads them.  Apply and Undo are one step     *)
(* each, ChangeEngine having their inside.                                 *)
(*                                                                         *)
(* A package is [kind, to, files, extra]: absent, a directory, a link to   *)
(* another package or something else; the content of its managed files;    *)
(* the content of an unmanaged file of the person.  Files have the content *)
(* "none", "current", "older" (of a released complete package), "single"   *)
(* (of a release with SKILL.md alone), "odd" (no readable regular file),   *)
(* or one of the person's own.                                             *)
(***************************************************************************)
EXTENDS FiniteSets, Naturals

CONSTANTS Agents,
          Hermes,      \* the Agent whose settings may hide a Skill
          Shared,      \* the Skill root that several Agents discover
          Managed,     \* the files of the package
          Entry,       \* SKILL.md
          Own,         \* contents that are the person's own
          Layouts,     \* [at, there, session, packages, hides] to start from
          MaxEdits,    \* bound: edits of the person
          MaxScans,    \* bound: Scans
          MaxPlans     \* bound: Plans not applied

Dirs == Agents \union {Shared}   \* the private roots, and the shared one
Bundled == {"none", "current", "older", "single", "odd"}
NoFiles == [f \in Managed |-> "none"]
Package ==
    {p \in [kind : {"absent", "dir", "link", "odd"}, to : Dirs,
            files : [Managed -> Bundled \union Own], extra : Own \union {"none"}] :
        p.kind # "dir" => p.files = NoFiles}

ASSUME SetupAssumption ==
    /\ Hermes \in Agents /\ Shared \notin Agents /\ Entry \in Managed
    /\ Own \cap Bundled = {}
    /\ \A layout \in Layouts : layout.at \in [Agents -> Dirs] /\ layout.packages \in [Dirs -> Package]

Everyone == "all"
Selections == Agents \union {Everyone}
Choices == {"none", "retain-local", "adopt-current"}

VARIABLES at,       \* Agent -> the root its fixed root leads to
          there,    \* the roots that exist
          session,  \* Agents whose session root the Scan included
          hides,    \* Hermes' settings hide the Bootstrap Skill
          packages, \* root -> the package in it
          scan,     \* [number, current]
          reading,  \* a Setup between classification and fingerprints
          plans,    \* prepared Plans
          receipt,  \* of the last Apply
          edits
setupVars == <<at, there, session, hides, packages, scan, reading, plans, receipt, edits>>

NoPackage == [kind |-> "absent", to |-> Shared, files |-> NoFiles, extra |-> "none"]
Directory(files, extra) == [kind |-> "dir", to |-> Shared, files |-> files, extra |-> extra]
LinkTo(d) == [NoPackage EXCEPT !.kind = "link", !.to = d]

NotReading == [stage |-> "idle"]
NoReceipt == [status |-> "none"]

SetupInit ==
    /\ \E layout \in Layouts :
          /\ at = layout.at /\ there = layout.there /\ session = layout.session
          /\ hides = layout.hides /\ packages = layout.packages
    /\ scan = [number |-> 0, current |-> FALSE]
    /\ reading = NotReading /\ plans = {} /\ receipt = NoReceipt /\ edits = 0

-----------------------------------------------------------------------------
(* What Setup makes of a package. *)
FileStatus(f, content) ==
    IF content = "none" THEN "missing"
    ELSE IF content = "odd" THEN "unsupported"
    ELSE IF content = "current" THEN "current"
    ELSE IF f = Entry /\ content = "single" THEN "official_outdated"
    ELSE "modified"

(* Mutant of Official: the version of SKILL.md speaks for the package.     *)
OfficialEntry(files) == files[Entry] \in {"older", "single"}

(* A whole released package, or the SKILL.md of a release that had no      *)
(* more; never files of several releases.                                  *)
Official(files) ==
    \/ \A f \in Managed : files[f] = "older"
    \/ files[Entry] = "single" /\ \A f \in Managed \ {Entry} : files[f] = "none"

PackageStatus(package) ==
    LET statuses == {FileStatus(f, package.files[f]) : f \in Managed}
    IN  IF package.kind \in {"link", "odd"} \/ "unsupported" \in statuses THEN "unsupported"
        ELSE IF package.kind = "absent" \/ statuses = {"missing"} THEN "missing"
        ELSE IF statuses = {"current"} THEN "current"
        ELSE IF Official(package.files) THEN "official_outdated"
        ELSE "modified"

(* The Agents Setup may write for: not through the shared root, and with a *)
(* Skill root, or sessions and a Skill root that is missing.               *)
SharedRoot(a) == at[a] = Shared
Missing(a) == at[a] = a /\ a \notin there   \* and not a link that leads nowhere
Eligible == {a \in Agents : ~SharedRoot(a) /\ (at[a] \in there \/ (a \in session /\ Missing(a)))}
Targets(selection) == IF selection = Everyone THEN Eligible ELSE Eligible \cap {selection}
Installs(status, choice) ==
    status \in {"missing", "official_outdated"} \/ (status = "modified" /\ choice = "adopt-current")

(* A selected Agent's package that an unselected Agent has in its own root.*)
Conflicts(selection, installed) ==
    {pair \in installed \X Eligible :
        selection # Everyone /\ pair[1] # pair[2] /\ at[pair[1]] = at[pair[2]]}

Outcome(selection, choice) ==
    LET targets == Targets(selection)
        status == [a \in targets |-> PackageStatus(packages[at[a]])]
        found == {status[a] : a \in targets}
        installed == {a \in targets : Installs(status[a], choice)}
    IN  IF \E a \in installed \cap {Hermes} : hides /\ packages[at[a]].files[Entry] = "none" THEN "hidden"
        ELSE IF "unsupported" \in found THEN "unsupported_targets"
        ELSE IF "modified" \in found /\ choice = "none" THEN "modified_choice_required"
        ELSE IF Conflicts(selection, installed) # {} THEN "selected_scope_not_isolatable"
        ELSE IF installed # {} THEN "preview_ready"
        ELSE IF "modified" \in found THEN "local_modifications_retained"
        ELSE IF "current" \in found THEN "up_to_date"
        ELSE "no_supported_agent"

(* Several Agents' roots that lead to one directory share its operations.  *)
Written(selection, choice) ==
    {at[a] : a \in {a \in Targets(selection) : Installs(PackageStatus(packages[at[a]]), choice)}}
NotCurrentButThere(package) ==   \* mutant of NotCurrent
    {f \in Managed : FileStatus(f, package.files[f]) \in {"official_outdated", "modified"}}
NotCurrent(package) == {f \in Managed : FileStatus(f, package.files[f]) # "current"}

Scan ==
    /\ reading = NotReading /\ scan.number < MaxScans
    /\ scan' = [number |-> scan.number + 1, current |-> TRUE]
    /\ UNCHANGED <<at, there, session, hides, packages, reading, plans, receipt, edits>>

(* The statuses are read first, *)
Classify(selection, choice) ==
    /\ reading = NotReading /\ scan.current /\ Cardinality(plans) < MaxPlans
    /\ Outcome(selection, choice) = "preview_ready"
    /\ reading' = [stage |-> "classified", selection |-> selection, choice |-> choice, seen |-> packages,
                   writes |-> [d \in Written(selection, choice) |-> NotCurrent(packages[d])]]
    /\ UNCHANGED <<at, there, session, hides, packages, scan, plans, receipt, edits>>

(* then the fingerprints, the projections and the Plan's own checks: a     *)
(* file to write must be missing and one to replace a regular file.        *)
Projected(package, files) ==
    [package EXCEPT !.kind = "dir", !.files = [f \in Managed |-> IF f \in files THEN "current" ELSE @[f]]]
Acceptable(d) ==
    /\ packages[d].kind = reading.seen[d].kind
    /\ \A f \in reading.writes[d] :
          IF reading.seen[d].files[f] = "none" THEN packages[d].files[f] = "none"
                                               ELSE packages[d].files[f] \notin {"none", "odd"}
Bind ==
    /\ reading.stage = "classified"
    /\ plans' = IF \A d \in DOMAIN reading.writes : Acceptable(d)
                THEN plans \union
                     {[scan |-> scan.number, selection |-> reading.selection, choice |-> reading.choice,
                       seen |-> reading.seen, writes |-> reading.writes,
                       before |-> [d \in DOMAIN reading.writes |-> packages[d]],
                       after |-> [d \in DOMAIN reading.writes |-> Projected(packages[d], reading.writes[d])],
                       makes |-> DOMAIN reading.writes \ there]}
                ELSE plans
    /\ reading' = NotReading
    /\ UNCHANGED <<at, there, session, hides, packages, scan, receipt, edits>>

(* apply: on the Snapshot of the Plan, with every package as it was bound. *)
Undrifted(plan) ==
    /\ scan.current /\ plan.scan = scan.number
    /\ \A d \in DOMAIN plan.before : packages[d] = plan.before[d]
    /\ plan.makes \cap there = {}
Overlaid(changed) == [d \in Dirs |-> IF d \in DOMAIN changed THEN changed[d] ELSE packages[d]]
Apply(plan) ==
    /\ reading = NotReading /\ plan \in plans /\ Undrifted(plan)
    /\ packages' = Overlaid(plan.after)
    /\ there' = there \union plan.makes
    /\ receipt' = [status |-> "applied", plan |-> plan]
    /\ plans' = plans \ {plan}
    /\ scan' = [scan EXCEPT !.current = FALSE]
    /\ UNCHANGED <<at, session, hides, reading, edits>>

(* undo: refused when what it would take back was changed.                 *)
Untouched(plan, d) ==
    IF plan.before[d].kind = "dir"
    THEN packages[d].kind = "dir" /\ \A f \in plan.writes[d] : packages[d].files[f] = "current"
    ELSE packages[d] = plan.after[d]
Reverted(plan, d) ==
    [packages[d] EXCEPT !.kind = plan.before[d].kind,
                    !.files = [f \in Managed |-> IF f \in plan.writes[d] THEN plan.before[d].files[f] ELSE @[f]]]
Undo ==
    /\ reading = NotReading /\ receipt.status = "applied"
    /\ LET plan == receipt.plan
       IN  /\ \A d \in DOMAIN plan.after : Untouched(plan, d)
           /\ packages' = Overlaid([d \in DOMAIN plan.after |-> Reverted(plan, d)])
           /\ there' = there \ plan.makes
    /\ receipt' = [receipt EXCEPT !.status = "undone"]
    /\ scan' = [scan EXCEPT !.current = FALSE]
    /\ UNCHANGED <<at, session, hides, reading, plans, edits>>

(* The person: writes or removes a file, or puts a link for a package.     *)
Edited(d, package) ==
    /\ edits < MaxEdits /\ d \in there /\ packages[d] # package
    /\ packages' = [packages EXCEPT ![d] = package]
    /\ edits' = edits + 1
    /\ UNCHANGED <<at, there, session, hides, scan, reading, plans, receipt>>
EditsFile ==
    \E d \in Dirs, f \in Managed, content \in Own \union {"none"} :
        packages[d].kind = "dir" /\ Edited(d, [packages[d] EXCEPT !.files[f] = content])
AddsFile ==
    \E d \in Dirs, content \in Own :
        packages[d].kind = "dir" /\ Edited(d, [packages[d] EXCEPT !.extra = content])
Links == \E d \in Dirs, other \in Dirs : other # d /\ packages[d].kind = "absent" /\ Edited(d, LinkTo(other))

SetupNext ==
    \/ Scan
    \/ \E selection \in Selections, choice \in Choices : Classify(selection, choice)
    \/ Bind
    \/ \E plan \in plans : Apply(plan)
    \/ Undo
    \/ EditsFile \/ AddsFile \/ Links
SetupSpec == SetupInit /\ [][SetupNext]_setupVars

-----------------------------------------------------------------------------
(* No file of the person's own making is replaced by the bundled one unless*)
(* the person chose adopt-current, for the package as a whole is official  *)
(* or it is not.  (An edit between the classification and the fingerprints *)
(* of one Setup goes into the Plan as the content to be replaced.)         *)
LocalEditsKept ==
    [][\A d \in Dirs, f \in Managed :
          packages[d].files[f] \in Own /\ packages'[d].files[f] = "current" =>
              \/ receipt'.plan.choice = "adopt-current"
              \/ receipt'.plan.seen[d].files[f] # packages[d].files[f]]_setupVars

(* A package Setup has written is a current one, in all its files: the next*)
(* Setup finds nothing to do, whatever was there before.                   *)
SetupSettles ==
    receipt.status = "applied" =>
        \A d \in DOMAIN receipt.plan.after :
            packages[d] = receipt.plan.after[d] /\ receipt.plan.before[d] = receipt.plan.seen[d] =>
                PackageStatus(packages[d]) = "current"
=============================================================================
