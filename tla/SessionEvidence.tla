--------------------------- MODULE SessionEvidence ---------------------------
(***************************************************************************)
(* How a Scan reads the session files of the Agents (scan_sessions in      *)
(* src/scan.rs) and what Reports conclude from it: which Skills were used, *)
(* whether the sample is complete, and which Skills nobody seems to use    *)
(* (lifecycle_findings in src/query.rs).                                   *)
(*                                                                         *)
(* The files belong to running Agents: between two steps of the Scan they  *)
(* grow, move or disappear.  A record is one line of one byte; sizes and   *)
(* limits are counted in records.  Where the tail of a .json file is cut   *)
(* into objects is not modelled: such a file counts as partly read anyway. *)
(***************************************************************************)
EXTENDS Naturals, Sequences, FiniteSetsExt, SequencesExt

CONSTANTS Clients,       \* the Agents whose sessions are scanned, in order
          Holders,       \* Skill -> Agents with a placement of it
          NameOfSkill,   \* Skill -> its name, in lower case
          NestedNames,   \* <<inner, outer>>: the matcher reports inner before outer ends
          Old,           \* Skills not modified for 180 days
          Folders,       \* directory -> its depth below a session root
          MaxDepth,      \* max_depth
          MaxDiscovered, \* MAX_SESSION_DISCOVERY_FILES_PER_ROOT
          MaxSampled,    \* MAX_SESSION_FILES_PER_ROOT
          MaxFileBytes, MaxAgentBytes, MaxAgentLines,
          Histories,     \* what the session roots may hold in the beginning
          MaxChanges     \* bound: changes the Agents make during the Scan

VARIABLES sessions,   \* Agent -> [root, folders, files]; a file has a folder, a form and records
          before,     \* sessions when the Scan began
          moved,      \* files that moved since
          changes,    \* changes so far
          agent,      \* the Agent whose sessions are read; 0 once all are
          stage,      \* "list" or "read"
          listed,     \* directories listed so far
          queue,      \* files to read
          bytes, lines,
          coverage,   \* Agent -> SessionCoverage so far
          usage       \* Skills with any evidence of usage
evidenceVars == <<sessions, before, moved, changes, agent, stage, listed, queue, bytes, lines, coverage, usage>>

(* A session root: finitely many files, each in one of its directories.    *)
FormedRoot(r) ==
    /\ DOMAIN r = {"root", "folders", "files"} /\ IsFiniteSet(DOMAIN r.files)
    /\ \A f \in DOMAIN r.files :
          /\ DOMAIN r.files[f] = {"folder", "form", "readable", "records"}
          /\ r.files[f].folder \in r.folders /\ r.files[f].records \in Seq(ToSet(r.files[f].records))

ASSUME EvidenceAssumption ==
    /\ Clients \in Seq(ToSet(Clients)) /\ Clients # <<>>
    /\ \A i, j \in DOMAIN Clients : Clients[i] = Clients[j] => i = j
    /\ \A s \in DOMAIN Holders : Holders[s] \subseteq ToSet(Clients)
    /\ Old \subseteq DOMAIN Holders /\ MaxSampled \in Nat
    /\ \A s \in DOMAIN Holders : <<NameOfSkill[s], NameOfSkill[s]>> \notin NestedNames
    /\ \A h \in Histories : DOMAIN h = ToSet(Clients) /\ \A a \in DOMAIN h : FormedRoot(h[a])

UsageSkills == DOMAIN Holders
Client == Clients[agent]

(* Records: malformed, blank, an event that names a Skill or its file, or  *)
(* other text with a name in it.                                           *)
Malformed == [kind |-> "malformed"]
Blank == [kind |-> "blank"]
EventOn(name) == [kind |-> "event", name |-> name]
EventIn(s) == [kind |-> "event_path", skill |-> s]
TextWith(name) == [kind |-> "text", name |-> name]

Names(record, s) ==
    CASE record.kind \in {"event", "text"} -> record.name = NameOfSkill[s]
      [] record.kind = "event_path" -> record.skill = s
      [] OTHER -> FALSE
UniqueName(s) == \A t \in UsageSkills : NameOfSkill[t] = NameOfSkill[s] => t = s

(* session_record_observations and the text match: a name several Skills   *)
(* have is attributed to none of them.  The matcher knows the other names, *)
(* and its matches do not overlap: a text with a name inside which it has  *)
(* found another is attributed to the Skill of that one.                   *)
Innermost(name) == {s \in UsageSkills : UniqueName(s) /\ <<NameOfSkill[s], name>> \in NestedNames}
Shadowed(s) == Innermost(NameOfSkill[s]) # {}
Attributed(record) ==
    IF record.kind = "text" /\ Innermost(record.name) # {} THEN Innermost(record.name)
    ELSE {s \in UsageSkills : Names(record, s) /\ (record.kind = "event_path" \/ UniqueName(s))}

NoCoverage == [limitations |-> {}, skipped |-> FALSE, partial |-> FALSE, present |-> FALSE]
Limited(c, code) == [c EXCEPT !.limitations = @ \union {code}]
LimitedIf(c, condition, code) == IF condition THEN Limited(c, code) ELSE c
Cover(c) == coverage' = [coverage EXCEPT ![Client] = c]

EvidenceInit ==
    /\ sessions \in Histories /\ before = sessions /\ moved = {} /\ changes = 0
    /\ agent = 1 /\ stage = "list" /\ listed = {} /\ queue = <<>> /\ bytes = 0 /\ lines = 0
    /\ coverage = [a \in ToSet(Clients) |-> NoCoverage] /\ usage = {}

-----------------------------------------------------------------------------
(* The Scan goes on with the next Agent. *)
NextAgent ==
    /\ agent' = IF agent = Len(Clients) THEN 0 ELSE agent + 1
    /\ stage' = "list" /\ listed' = {} /\ queue' = <<>> /\ bytes' = 0 /\ lines' = 0

SessionRoot == sessions[Client]
InFolder(d) == {f \in DOMAIN SessionRoot.files : SessionRoot.files[f].folder = d}

(* A root that is missing or cannot be read. *)
SkipRoot ==
    /\ agent # 0 /\ stage = "list" /\ listed = {} /\ SessionRoot.root # "present"
    /\ Cover(Limited(coverage[Client], IF SessionRoot.root = "missing" THEN "root_missing" ELSE "root_inaccessible"))
    /\ NextAgent
    /\ UNCHANGED <<sessions, before, moved, changes, usage>>

(* collect_session_files: one directory after the other; links are passed  *)
(* over, deeper directories end the descent.                               *)
Collectable(f) == SessionRoot.files[f].form # "link"
ListFolder ==
    /\ agent # 0 /\ stage = "list" /\ SessionRoot.root = "present"
    /\ \E d \in SessionRoot.folders \ listed :
          LET found == {f \in InFolder(d) : Collectable(f)}
              room == MaxDiscovered + 1 - Len(queue)
          IN  \E taken \in SUBSET found :
                 /\ Cardinality(taken) = Min({Cardinality(found), room})
                 /\ listed' = listed \union {d}
                 /\ IF Folders[d] > MaxDepth
                    THEN /\ queue' = queue
                         /\ Cover(Limited([coverage[Client] EXCEPT !.present = TRUE], "depth_limit"))
                    ELSE /\ queue' = queue \o SetToSeq(taken)
                         /\ Cover(LimitedIf([coverage[Client] EXCEPT !.present = TRUE],
                                            taken # found \/ room = 0, "file_limit"))
    /\ UNCHANGED <<sessions, before, moved, changes, agent, stage, bytes, lines, usage>>

(* The walk itself fails. *)
WalkFails ==
    /\ agent # 0 /\ stage = "list" /\ SessionRoot.root = "present" /\ listed # SessionRoot.folders
    /\ Cover(Limited([coverage[Client] EXCEPT !.present = TRUE, !.skipped = TRUE], "walk_failure"))
    /\ NextAgent
    /\ UNCHANGED <<sessions, before, moved, changes, usage>>

(* The newest are sampled; their order is any.                             *)
SampleLimit == MaxSampled
Sample ==
    /\ agent # 0 /\ stage = "list" /\ SessionRoot.root = "present" /\ listed = SessionRoot.folders
    /\ stage' = "read"
    /\ \E order \in SetToSeqs(ToSet(queue)) :
          queue' = SubSeq(order, 1, Min({Len(order), SampleLimit}))
    /\ Cover(IF Len(queue) > SampleLimit
             THEN Limited([coverage[Client] EXCEPT !.skipped = TRUE], "sampled_file_limit")
             ELSE coverage[Client])
    /\ UNCHANGED <<sessions, before, moved, changes, agent, listed, bytes, lines, usage>>

(* The budget of the Agent is used up. *)
StopReading ==
    /\ agent # 0 /\ stage = "read" /\ queue # <<>>
    /\ bytes >= MaxAgentBytes \/ lines >= MaxAgentLines
    /\ Cover(LimitedIf(LimitedIf([coverage[Client] EXCEPT !.skipped = TRUE], bytes >= MaxAgentBytes, "byte_limit"),
                       lines >= MaxAgentLines, "line_limit"))
    /\ NextAgent
    /\ UNCHANGED <<sessions, before, moved, changes, usage>>

CanRead == agent # 0 /\ stage = "read" /\ queue # <<>> /\ bytes < MaxAgentBytes /\ lines < MaxAgentLines

(* fs::metadata or the read fails: the file is gone, or cannot be opened.  *)
MissFile ==
    /\ CanRead /\ (Head(queue) \in DOMAIN SessionRoot.files => ~SessionRoot.files[Head(queue)].readable)
    /\ Cover(Limited([coverage[Client] EXCEPT !.skipped = TRUE], "file_failure"))
    /\ queue' = Tail(queue)
    /\ UNCHANGED <<sessions, before, moved, changes, agent, stage, listed, bytes, lines, usage>>

(* read_session_tail_with_facts and the loop over the records: of a file   *)
(* that is too long the end is read, without its first line; a .json file  *)
(* read in full is one record, valid as a whole or not at all.             *)
LastOf(seq, n) == SubSeq(seq, Len(seq) - n + 1, Len(seq))
ReadFile ==
    /\ CanRead /\ Head(queue) \in DOMAIN SessionRoot.files /\ SessionRoot.files[Head(queue)].readable
    /\ LET file == SessionRoot.files[Head(queue)]
           size == Len(file.records)
           limit == Min({MaxFileBytes, MaxAgentBytes - bytes})
           whole == size <= limit
           aligned == IF whole THEN file.records
                      ELSE LastOf(file.records, IF file.form = "json" THEN limit ELSE limit - 1)
           sample == SubSeq(aligned, 1, Min({Len(aligned), MaxAgentLines - lines}))
           document == whole /\ file.form = "json"
           failed == IF document THEN size = 0 \/ Malformed \in ToSet(file.records)
                     ELSE file.form = "jsonl" /\ Malformed \in ToSet(sample)
           cut == ~whole \/ sample # aligned
           unread == document /\ (failed \/ cut)
           counted == [coverage[Client] EXCEPT !.partial = @ \/ cut \/ failed]
           lineCut == LimitedIf(counted, sample # aligned, "line_limit")
           byteCut == LimitedIf(LimitedIf(lineCut, size > MaxFileBytes, "file_byte_limit"),
                                limit < MaxFileBytes /\ ~whole, "byte_limit")
       IN  /\ bytes' = bytes + Min({size, limit})
           /\ lines' = lines + (IF unread /\ cut THEN 0 ELSE Len(sample))
           /\ usage' = IF unread THEN usage ELSE usage \union UNION {Attributed(r) : r \in ToSet(sample)}
           /\ Cover(LimitedIf(byteCut, failed, "file_parse_failure"))
    /\ queue' = Tail(queue)
    /\ UNCHANGED <<sessions, before, moved, changes, agent, stage, listed>>

DoneWithAgent ==
    /\ agent # 0 /\ stage = "read" /\ queue = <<>> /\ NextAgent
    /\ UNCHANGED <<sessions, before, moved, changes, coverage, usage>>

-----------------------------------------------------------------------------
(* The Agents go on working. *)
Working(a) == agent # 0 /\ changes < MaxChanges /\ changes' = changes + 1 /\ sessions[a].root = "present"
KeepReading == UNCHANGED <<before, agent, stage, listed, queue, bytes, lines, coverage, usage>>

Append1 ==
    /\ \E a \in DOMAIN sessions : /\ Working(a)
          /\ \E f \in DOMAIN sessions[a].files, s \in UsageSkills :
                sessions' = [sessions EXCEPT ![a].files[f].records = Append(@, EventOn(NameOfSkill[s]))]
    /\ KeepReading /\ UNCHANGED moved
MoveFile ==
    /\ \E a \in DOMAIN sessions : /\ Working(a)
          /\ \E f \in DOMAIN sessions[a].files, d \in sessions[a].folders :
                /\ d # sessions[a].files[f].folder
                /\ sessions' = [sessions EXCEPT ![a].files[f].folder = d]
                /\ moved' = moved \union {<<a, f>>}
    /\ KeepReading
RemoveFile ==
    /\ \E a \in DOMAIN sessions : /\ Working(a)
          /\ \E f \in DOMAIN sessions[a].files :
                /\ sessions' = [sessions EXCEPT ![a].files = [g \in DOMAIN @ \ {f} |-> @[g]]]
                /\ moved' = moved \union {<<a, f>>}
    /\ KeepReading

EvidenceNext ==
    \/ SkipRoot \/ ListFolder \/ WalkFails \/ Sample \/ StopReading \/ MissFile \/ ReadFile \/ DoneWithAgent
    \/ Append1 \/ MoveFile \/ RemoveFile
EvidenceSpec == EvidenceInit /\ [][EvidenceNext]_evidenceVars

-----------------------------------------------------------------------------
Scanned == agent = 0

(* denominator_is_reliable *)
Reliable(a) ==
    coverage[a].present /\ coverage[a].limitations = {} /\ ~coverage[a].skipped /\ ~coverage[a].partial

(* archive_skill_has_reliable_coverage, and the archive candidates. *)
ReliableForSome(s) == \E a \in Holders[s] : Reliable(a)
ReliableFor(s) == Holders[s] # {} /\ \A a \in Holders[s] : Reliable(a)
StaleCandidates == {s \in Old : s \notin usage /\ ReliableFor(s)}

SessionFiles(a) == IF before[a].root = "present" THEN DOMAIN before[a].files ELSE {}
Mentions(a, s) ==
    {f \in SessionFiles(a) : \E i \in DOMAIN before[a].files[f].records : Names(before[a].files[f].records[i], s)}

(* A Skill that a session of an Agent which has it speaks of is no archive *)
(* candidate, whatever the Agents do while the Scan runs.  Four things     *)
(* escape it: links among the session files, files that move meanwhile, a  *)
(* name that several Skills have, and a name that stands in a text only    *)
(* and has the name of another Skill inside it.                            *)
OnlyInText(a, f, s) ==
    \A i \in DOMAIN before[a].files[f].records :
        Names(before[a].files[f].records[i], s) => before[a].files[f].records[i].kind = "text"
UsedIsNotStale ==
    Scanned => \A s \in StaleCandidates : \A a \in Holders[s] : \A f \in Mentions(a, s) :
        \/ before[a].files[f].form = "link" \/ <<a, f>> \in moved
        \/ ~UniqueName(s) \/ (Shadowed(s) /\ OnlyInText(a, f, s))

=============================================================================
