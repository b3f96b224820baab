--------------------------- MODULE MCRosterFindings ---------------------------
(***************************************************************************)
(* Three Skills, two of them of one name.  Claude Code and Codex list      *)
(* copies, links to each other's and links to a common source.             *)
(***************************************************************************)
EXTENDS RosterFindings

CONSTANTS claude, codex, none, c, k, src, shared, lib, n, m, one, two, three, one1, two1, two2, three1

TheRoots == (claude :> {c}) @@ (codex :> {k, shared}) @@ (none :> {src, lib})
TheSemantics == (claude :> "claude") @@ (codex :> "codex") @@ (none :> "none")
ThePackageNames == (one1 :> n) @@ (two1 :> m) @@ (two2 :> m) @@ (three1 :> m)
TheSkillOf == (one1 :> one) @@ (two1 :> two) @@ (two2 :> two) @@ (three1 :> three)
TheNames == (one :> n) @@ (two :> m) @@ (three :> m)
TheOrder == <<one, two, three>>

TheEvidence == {(<<codex, one>> :> 2) @@ (<<claude, two>> :> 1)}
TheRosters == {<<>>,
               [pair \in {claude, codex} \X {one, two} |-> IF pair[2] = one THEN "other" ELSE "core"]}

Open == [codex |-> [known |-> TRUE, rules |-> <<>>], claude |-> [known |-> TRUE, overrides |-> <<>>],
         hermes |-> [known |-> TRUE, disabled |-> {}, channel |-> {}, extraRoots |-> FALSE]]
Base == [p \in {<<r>> : r \in {c, k, src, shared, lib}} |-> Directory(NoPackage)]

(* One Skill: a copy, and at most two more copies or links to it. *)
Placed(places, package) ==
    {f \in UNION {[P -> {Directory(package)} \union {LinkTo(p) : p \in places}] : P \in SUBSET places} :
        /\ \A p \in DOMAIN f : f[p].kind = "link" => /\ f[p].to \in DOMAIN f
                                                     /\ f[f[p].to].kind = "dir"
        /\ Cardinality(DOMAIN f) \in 1 .. 2}
x == "x"
First == Placed({<<r, n>> : r \in {c, k, src}}, one1)
Second == Placed({<<r, m>> : r \in {c, k, shared}}, two1)
Third == {<<>>} \union {[p \in {<<k, x>>} |-> Directory(three1)], [p \in {<<c, x>>} |-> Directory(three1)],
                        [p \in {<<k, x>>} |-> Directory(two2)]}
Aliased == {[d EXCEPT ![<<c>>] = LinkTo(<<k>>)] :
               d \in {Base @@ f @@ g @@ h : f \in {w \in First : \A p \in DOMAIN w : p[1] # c},
                                            g \in {w \in Second : \A p \in DOMAIN w : p[1] # c},
                                            h \in {w \in Third : \A p \in DOMAIN w : p[1] # c}}}
Ruled == {[Open EXCEPT !.codex.rules = <<[by |-> "path", path |-> <<k, n>>, enabled |-> TRUE]>>]}
TheWorlds == (({Base @@ f @@ g @@ h : f \in First, g \in Second, h \in Third} \union Aliased) \X {Open})
                \union ({Base @@ f @@ g : f \in {w \in First : <<k, n>> \in DOMAIN w}, g \in Second} \X Ruled)

=============================================================================
