----------------------------- MODULE Snapshots -----------------------------
(***************************************************************************)
(* What Scan, Report and the retention commands keep in SQLite             *)
(* (scan_command, persist_index, report_command, readiness_decision and    *)
(* lifecycle_purge_command in src/app.rs over src/sqlite.rs): the rows of  *)
(* the scans in insertion order, one payload per completed scan with its   *)
(* version, reports bound to the payload version they were built from, raw *)
(* usage with its evidence, and the monthly maxima a purge folds it into.  *)
(*                                                                         *)
(* Usage is that of one Skill in one session file, in buckets as           *)
(* scan_sessions forms them: one for each UTC month, and one for records   *)
(* without a time.                                                         *)
(* Timestamps are seconds of a wall clock that may stand still between two *)
(* commands and, once, be set back.                                        *)
(***************************************************************************)
EXTENDS Integers, Sequences, FiniteSets, FiniteSetsExt

CONSTANTS MaxTime,     \* bound: the clock
          MonthLength, \* seconds of a month
          MaxScans,    \* bound: rows of scans
          MaxReports,  \* bound: reports built
          MaxCount,    \* bound: events in one bucket
          MaxFound     \* bound: buckets one Scan finds

ASSUME SnapshotsAssumption ==
    /\ MaxTime \in Nat /\ MonthLength \in Nat \ {0}
    /\ MaxScans \in Nat /\ MaxReports \in Nat /\ MaxCount \in Nat \ {0}
    /\ MaxFound \in Nat

VARIABLES
    now, steady,  \* the clock; FALSE once it has been set back
    scanning,     \* a process runs Scan; without one a running row stays as it is
    scans,        \* rows of scans
    payloads,     \* scan_payloads, by scan: usage summaries and updated_at
    evidence,     \* evidence rows of kind usage
    raw,          \* usage_events
    monthly,      \* usage_monthly_sources: max_observed_event_count
    reports,      \* rows of reports
    recorded      \* history: the largest count persisted for each bucket

tables == <<scans, payloads, evidence, raw, monthly, reports>>
snapVars == <<now, steady, scanning, tables, recorded>>

Time == 0 .. MaxTime
Month(t) == t \div MonthLength
Months == {Month(t) : t \in Time}
Unknown == -1
Buckets == Months \union {Unknown}
NoTime == -1

Largest(S) == IF S = {} THEN 0 ELSE Max(S)

SnapInit ==
    /\ now = 0 /\ steady = TRUE
    /\ scanning = FALSE
    /\ scans = <<>> /\ payloads = <<>> /\ reports = <<>>
    /\ evidence = {} /\ raw = {}
    /\ monthly = [m \in Months |-> 0]
    /\ recorded = [b \in Buckets |-> 0]

(***************************************************************************)
(* The world outside.                                                      *)
(***************************************************************************)
Tick == now < MaxTime /\ now' = now + 1
        /\ UNCHANGED <<steady, scanning, tables, recorded>>

SetClockBack ==
    /\ steady /\ now > 0 /\ now' = 0 /\ steady' = FALSE
    /\ UNCHANGED <<scanning, tables, recorded>>

(***************************************************************************)
(* Scan: a running row, then one transaction for the index, the payload    *)
(* and the completed row.                                                  *)
(***************************************************************************)
BeginScan ==
    /\ ~scanning /\ scanning' = TRUE /\ Len(scans) < MaxScans
    /\ scans' = Append(scans, [started |-> now, completed |-> NoTime, status |-> "running"])
    /\ payloads' = Append(payloads, [usage |-> {}, version |-> NoTime])
    /\ UNCHANGED <<now, steady, evidence, raw, monthly, reports, recorded>>

EndRow(status) == [scans EXCEPT ![Len(scans)].status = status, ![Len(scans)].completed = now]

ScanFails ==
    /\ scanning /\ scanning' = FALSE /\ scans' = EndRow("failed")
    /\ UNCHANGED <<now, steady, payloads, evidence, raw, monthly,
                   reports, recorded>>

(* The process dies: its row goes on saying running. *)
ScanDies ==
    /\ scanning /\ scanning' = FALSE
    /\ UNCHANGED <<now, steady, tables, recorded>>

(* What scan_sessions may find: a summary for some of the buckets, up to   *)
(* now.  The file may have grown, stayed, or been rotated away since the   *)
(* last Scan, or its agent is excluded from evidence.                      *)
Summaries ==
    {u \in [bucket : Buckets, count : 1 .. MaxCount, last : 0 .. now \union {NoTime}] :
        u.bucket = IF u.last = NoTime THEN Unknown ELSE Month(u.last)}
Observable ==
    {S \in UNION {kSubset(k, Summaries) : k \in 0 .. MaxFound} :
        \A u, v \in S : u.bucket = v.bucket => u = v}

(* save_usage_event: an observation already there is left as it was, with *)
(* the evidence of the Scan that saw it first.                            *)
Known(u) == \E r \in raw : <<r.bucket, r.count, r.at>> = <<u.bucket, u.count, u.last>>

(* persist_index: a row of evidence for every summary, whose identifier is *)
(* of this Scan, and the observations that are new.                        *)
EvidenceRows(n, found) ==
    {[scan |-> n, bucket |-> u.bucket, last |-> u.last, observed |-> now] : u \in found}
UsageRows(n, found) ==
    {[bucket |-> u.bucket, count |-> u.count, at |-> u.last, scan |-> n] :
        u \in {v \in found : ~Known(v)}}

CompleteScan(found) ==
    LET n == Len(scans) IN
    /\ scanning /\ scanning' = FALSE /\ found \in Observable
    /\ scans' = EndRow("completed")
    /\ payloads' = [payloads EXCEPT ![n] = [usage |-> found, version |-> now]]
    /\ evidence' = evidence \union EvidenceRows(n, found)
    /\ raw' = raw \union UsageRows(n, found)
    /\ recorded' = [b \in Buckets |->
                       Largest({recorded[b]} \union {u.count : u \in {v \in found : v.bucket = b}})]
    /\ UNCHANGED <<now, steady, monthly, reports>>

(***************************************************************************)
(* The latest Snapshot and its report.                                     *)
(***************************************************************************)
Completed == {i \in DOMAIN scans : scans[i].status = "completed"}

Later(i, j) ==
    \/ scans[i].completed > scans[j].completed
    \/ /\ scans[i].completed = scans[j].completed
       /\ \/ scans[i].started > scans[j].started
          \/ scans[i].started = scans[j].started /\ i > j

LatestScan ==
    IF Completed = {} THEN 0
    ELSE CHOOSE i \in Completed : \A j \in Completed \ {i} : ~Later(j, i)

Fresh(r) == reports[r].version = payloads[reports[r].scan].version
ReportExistsFor(s) == \E r \in DOMAIN reports : reports[r].scan = s /\ Fresh(r)

(* latest_report: ORDER BY created_at DESC, rowid DESC *)
LatestReport ==
    LET live == {r \in DOMAIN reports : Fresh(r)}
        newer(q, r) == \/ reports[q].created > reports[r].created
                       \/ reports[q].created = reports[r].created /\ q > r
    IN IF live = {} THEN 0 ELSE CHOOSE r \in live : \A q \in live \ {r} : newer(r, q)

(* report_command: the latest report if it is of the latest Snapshot. *)
BuildReport ==
    /\ LatestScan # 0 /\ ~scanning /\ Len(reports) < MaxReports
    /\ LatestReport # 0 => reports[LatestReport].scan # LatestScan
    /\ reports' = Append(reports, [scan |-> LatestScan, created |-> now,
                                   version |-> payloads[LatestScan].version,
                                   usage |-> payloads[LatestScan].usage])
    /\ UNCHANGED <<now, steady, scanning, scans, payloads, evidence, raw,
                   monthly, recorded>>

(* readiness_decision, of a Snapshot nothing has invalidated. *)
Ready == LatestScan # 0 /\ ReportExistsFor(LatestScan)

(***************************************************************************)
(* lifecycle purge --raw-days: one transaction.                            *)
(***************************************************************************)
EvidenceOf(r) == CHOOSE e \in evidence : e.scan = r.scan /\ e.bucket = r.bucket
OrElse(t, default) == IF t = NoTime THEN default ELSE t

RetainedAt(r) == OrElse(r.at, EvidenceOf(r).observed)
Expired(cutoff) == {r \in raw : RetainedAt(r) < cutoff}

Overwritten(m, counts) == IF counts = {} THEN monthly[m] ELSE Max(counts)
Folded(m, counts) == Largest({monthly[m]} \union counts)

ForgottenEvidence(cutoff) ==
    {EvidenceOf(r) : r \in Expired(cutoff)}
      \union {e \in evidence : OrElse(e.last, e.observed) < cutoff}

KeptRaw(cutoff) == {r \in raw : EvidenceOf(r) \notin ForgottenEvidence(cutoff)}

(* A summary without a time is as old as the payload it is in. *)
KeptUsage(p, cutoff) == {u \in p.usage : OrElse(u.last, p.version) >= cutoff}

VersionByClock(p) == now
NextVersion(p) == Largest({p.version + 1, now})

PurgePayload(p, cutoff) ==
    IF KeptUsage(p, cutoff) = p.usage THEN p
    ELSE [usage |-> KeptUsage(p, cutoff), version |-> NextVersion(p)]

Purge(cutoff) ==
    /\ ~scanning /\ cutoff \in 1 .. now
    /\ monthly' = [m \in Months |->
                      Folded(m, {r.count : r \in {x \in Expired(cutoff) : Month(RetainedAt(x)) = m}})]
    /\ evidence' = evidence \ ForgottenEvidence(cutoff)
    /\ raw' = KeptRaw(cutoff)
    /\ payloads' = [i \in DOMAIN payloads |-> PurgePayload(payloads[i], cutoff)]
    /\ <<monthly', evidence', raw', payloads'>> # <<monthly, evidence, raw, payloads>>
    /\ UNCHANGED <<now, steady, scanning, scans, reports, recorded>>

SnapNext ==
    \/ Tick \/ SetClockBack
    \/ BeginScan \/ ScanFails \/ ScanDies
    \/ \E found \in Observable : CompleteScan(found)
    \/ BuildReport
    \/ \E c \in Time : Purge(c)

SnapSpec == SnapInit /\ [][SnapNext]_snapVars

(* However Scans, purges and rotations of the session file alternate, what  *)
(* is kept for a month is the largest count a Snapshot ever recorded for    *)
(* it: a purge neither loses it nor adds the same events twice              *)
(* (purge_usage_before's MAX upsert and the DO NOTHING of save_usage_event).*)
Kept(m) == Largest({monthly[m]} \union {r.count : r \in {x \in raw : Month(RetainedAt(x)) = m}})
UsageRetained ==
    /\ \A m \in Months : /\ recorded[m] <= Kept(m)
                          /\ Kept(m) <= Largest({recorded[m], recorded[Unknown]})
    /\ \E m \in Months : recorded[Unknown] <= Kept(m)

(* What readiness reports, report shows: a Snapshot with a report is the    *)
(* one whose report is returned, built from the payload as it now is, also  *)
(* when a purge and a report fall into the same second.                     *)
ReadyReport ==
    steady /\ Ready =>
        /\ LatestReport # 0
        /\ reports[LatestReport].scan = LatestScan
        /\ reports[LatestReport].usage = payloads[LatestScan].usage

=============================================================================
