---------------------------- MODULE MCSourceUpdates ----------------------------
(***************************************************************************)
(* Two clients with a copy of the Skill each and a third whose entry links *)
(* to the first copy.  Both copies declare the first revision; the second  *)
(* client's was edited before SkillRoster first saw it.                    *)
(***************************************************************************)
EXTENDS SourceUpdates, TLC

CONSTANTS mine, linked, other, A, B, official, local, gone

MCPlacement == {mine, linked, other}
MCCandidates == <<mine, linked, other>>
MCPackage == {A, B}
MCHome == (mine :> A) @@ (linked :> A) @@ (other :> B)
MCLinks == {linked}
MCRevision == {1, 2}
MCText == {official, local}

(* One placement in any way, and once with a baseline of the Agent's; both *)
(* at once by adopting.                                                    *)
Plain == {q \in Request : q.base = gone}
Compared == {q \in Request : q.base = [revision |-> 1, text |-> official] /\ q.choice = NoChoice}
Adopting == {q \in Plain : q.choice = "adopt_upstream"}
MCAsked ==
    (UNION {[{p} -> Plain] : p \in {mine, other}}) \cup [{mine} -> Compared]
    \cup [{mine, other} -> Adopting]

Installed(text) ==
    [f \in File |-> IF f = Entrypoint THEN [revision |-> 1, text |-> text] ELSE gone]
MCInit == disk = (A :> Installed(official)) @@ (B :> Installed(local)) /\ Init
MCSpec == MCInit /\ [][Next]_vars
==============================================================================
