----------------------------- MODULE MCReports ------------------------------
(***************************************************************************)
(* Reports with four placements of two Agents: copies and variants of one  *)
(* Skill, its namesakes, a Skill with a declared source, a package that    *)
(* cannot be read in full, a broken link, and links to two directories     *)
(* outside the approved roots.  A finding lists one target, pages of one.  *)
(***************************************************************************)
EXTENDS Reports, TLC

CONSTANTS p, q, r, s, agentA, agentB, none, dirP, dirQ, dirR, dirS, one, two

Fact(skill, name, identity, package, agent, dir) ==
    [skill |-> skill, name |-> name, identity |-> identity, package |-> package, source |-> none,
     revision |-> none, routed |-> TRUE, executable |-> FALSE, misnamed |-> FALSE, old |-> FALSE,
     complete |-> TRUE, agent |-> agent, exposed |-> TRUE, link |-> "none", target |-> none,
     dir |-> dir, mutable |-> TRUE, owns |-> TRUE]
Local(fact) == [place |-> "local", fact |-> fact]
Link(target, fact, key) ==
    [place |-> "external", target |-> target,
     fact |-> [fact EXCEPT !.link = "valid", !.target = target, !.mutable = FALSE, !.owns = FALSE, !.dir = target],
     unread |-> [fact EXCEPT !.skill = key, !.identity = 0, !.package = key, !.complete = FALSE, !.routed = FALSE,
                             !.link = "escapes", !.target = target, !.mutable = FALSE, !.owns = FALSE]]
Broken(fact, key) ==
    [place |-> "local", fact |-> [fact EXCEPT !.skill = key, !.identity = 0, !.package = key, !.complete = FALSE,
                                              !.routed = FALSE, !.link = "broken", !.mutable = TRUE, !.owns = FALSE]]

Tool(agent, dir) == Fact(1, "tool", 1, 1, agent, dir)
OtherTool(agent, dir) == Fact(2, "tool", 2, 2, agent, dir)
Partial(agent, dir) == [Fact(3, "tool", 0, 3, agent, dir) EXCEPT !.complete = FALSE]
Sourced(agent, dir, package, revision) ==
    [Fact(4, "kit", package, package, agent, dir) EXCEPT !.source = one, !.revision = revision, !.old = TRUE]

AtP == {Local(Tool(agentA, dirP)), Link(one, OtherTool(agentA, dirP), 11)}
AtQ == {Local(Tool(agentB, dirQ)), Local(OtherTool(agentB, dirQ)), Link(two, Tool(agentB, dirQ), 12)}
Unexposed == Local([Tool(agentA, dirP) EXCEPT !.exposed = FALSE, !.link = "valid", !.owns = FALSE])
AtR == {Local(Sourced(agentA, dirR, 5, 1)), Broken(Tool(agentA, dirR), 13), Local(Partial(agentA, dirR)), Unexposed}
AtS == Local(Sourced(agentB, dirS, 6, 2))
TheDisks ==
    {(p :> a) @@ (q :> b) @@ (r :> c) @@ (s :> AtS) : a \in AtP, b \in AtQ, c \in AtR}
      \union {(p :> a) @@ (q :> b) @@ (r :> Unexposed) : a \in AtP, b \in AtQ}
ThePlacements == <<p, q, r, s>>
Root(agent, kind, status, whole) == [agent |-> agent, kind |-> kind, status |-> status, whole |-> whole]
Sessions(a, b) == {Root(agentA, "sessions", a, TRUE), Root(agentB, "sessions", b, TRUE)}
TheRoots ==
    <<[roots |-> Sessions("included", "included") \union {Root(agentA, "skills", "included", TRUE),
                 Root(agentB, "skills", "missing", TRUE), Root(none, "skills", "included", FALSE)},
       whole |-> {agentA, agentB}, used |-> {}],
      [roots |-> Sessions("included", "excluded") \union {Root(agentA, "skills", "included", TRUE),
                 Root(agentB, "skills", "inaccessible", TRUE)},
       whole |-> {agentA}, used |-> {<<1, agentB>>}],
      [roots |-> Sessions("included", "included") \union {Root(agentB, "sessions", "missing", TRUE),
                 Root(agentA, "skills", "included", TRUE), Root(agentB, "skills", "included", TRUE)},
       whole |-> {agentA, agentB}, used |-> {}]>>
TheSimilar == {{1, 4}}
=============================================================================
