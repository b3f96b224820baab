----------------------------- MODULE MCSnapshots -----------------------------
(***************************************************************************)
(* One instance each of Snapshots, SourceScan and SessionEvidence,         *)
(* explored side by side: they share no state, and `half` says which of    *)
(* them moves.                                                             *)
(*                                                                         *)
(* SourceScan: two links, which may lead to one local package or to the    *)
(* external one.                                                           *)
(* SessionEvidence: two Skills of two Agents, one of which has both; the   *)
(* name of the one has the name of the other inside it.                    *)
(***************************************************************************)
EXTENDS Snapshots, SourceScan, SessionEvidence

CONSTANTS firstLink, secondLink, claude, codex, one, two, f, g, top, deep, tooDeep

TheOrder == <<firstLink, secondLink>>

TheClients == <<claude, codex>>
TheHolders == (one :> {claude}) @@ (two :> {claude, codex})
TheNames == (one :> one) @@ (two :> two)
TheNestedNames == {<<two, one>>}
TheFolders == (top :> 1) @@ (deep :> 2) @@ (tooDeep :> 3)

SessionFile(place, form, readable, records) ==
    [folder |-> place, form |-> form, readable |-> readable, records |-> records]
Texts == {<<>>, <<EventOn(one)>>, <<TextWith(one)>>, <<TextWith(two), Blank>>, <<EventIn(one), Blank, Malformed>>,
          <<EventOn(one), EventOn(two), Blank, Blank>>}
SomeFile == {SessionFile(top, form, TRUE, records) : form \in {"jsonl", "json", "link"}, records \in Texts}
                \union {SessionFile(deep, "jsonl", readable, <<EventOn(one)>>) : readable \in BOOLEAN}
                \union {SessionFile(tooDeep, "jsonl", TRUE, <<EventOn(one)>>)}
Root(files) == [root |-> "present", files |-> files,
                folders |-> {top, deep} \cup {files[x].folder : x \in DOMAIN files}]
FirstRoot == {Root(f :> a) : a \in SomeFile}
                 \union {Root((f :> a) @@ (g :> SessionFile(top, "jsonl", TRUE, <<EventOn(one)>>))) : a \in SomeFile}
                 \union {[root |-> r, folders |-> {}, files |-> <<>>] : r \in {"missing", "inaccessible"}}
SecondRoot == {Root(<<>>), Root(f :> SessionFile(top, "jsonl", TRUE, <<EventOn(two)>>)),
               [root |-> "missing", folders |-> {}, files |-> <<>>]}
NoHistory == [a \in {claude, codex} |-> Root(<<>>)]
TheHistories == {NoHistory} \union {(claude :> r) @@ (codex :> q) : r \in FirstRoot, q \in SecondRoot}

VARIABLES half
allVars == <<snapVars, scanVars, evidenceVars, half>>

MCInit ==
    /\ SnapInit /\ ScanInit /\ EvidenceInit /\ half \in {"snapshots", "sources", "sessions"}
    /\ half # "sources" => \A p \in Linked : link[p] = External
    /\ half # "sessions" => sessions = NoHistory

MCNext ==
    /\ UNCHANGED half
    /\ \/ half = "snapshots" /\ SnapNext /\ UNCHANGED <<scanVars, evidenceVars>>
       \/ half = "sources" /\ ScanNext /\ UNCHANGED <<snapVars, evidenceVars>>
       \/ half = "sessions" /\ EvidenceNext /\ UNCHANGED <<snapVars, scanVars>>

MCSpec == MCInit /\ [][MCNext]_allVars

=============================================================================
