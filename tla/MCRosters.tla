------------------------------ MODULE MCRosters ------------------------------
(***************************************************************************)
(* Claude Code, Codex and Hermes, each with a root of its own, the shared  *)
(* root, a source root nobody lists, a provider's and a durable one; one or *)
(* two Skills in copies and links between them, and settings that hide one.*)
(***************************************************************************)
EXTENDS Rosters

CONSTANTS claude, codex, hermes, none,         \* Agents
          c, k, h, src, shared, lib, plug, far, \* roots: c of Claude Code, k of Codex
          n, m,                                \* names
          one, two,                            \* Skills
          one1, one2, two1                     \* packages

TheRoots == (claude :> {c}) @@ (codex :> {k, shared}) @@ (hermes :> {h}) @@ (none :> {src, lib, plug, far})
TheSemantics == (claude :> "claude") @@ (codex :> "codex") @@ (hermes :> "hermes") @@ (none :> "none")
ThePackageNames == (one1 :> n) @@ (one2 :> n) @@ (two1 :> m)
TheSkillOf == (one1 :> one) @@ (one2 :> one) @@ (two1 :> two)
TheNames == (one :> n) @@ (two :> m)

Base == [p \in {<<r>> : r \in {c, k, h, src, lib, shared, plug, far}} |-> Directory(NoPackage)]
At(places, choices) == {f \in UNION {[P -> choices] : P \in SUBSET places} : \A p \in DOMAIN f : f[p].to # p}
Holds(f) == \E p \in DOMAIN f : f[p].kind = "dir"

(* Copies of one Skill and links between them. *)
Places == {<<r, n>> : r \in {c, k, h, src}}
Plain(size) ==
    {f \in At(Places, {Directory(one1)} \union {LinkTo(p) : p \in Places}) : Holds(f) /\ Cardinality(DOMAIN f) <= size}

(* Copies that others only read. *)
Foreign ==
    {f \in At({<<r, n>> : r \in {c, k, shared, plug, far}},
              {Directory(one1)} \union {LinkTo(<<r, n>>) : r \in {shared, far}}) :
        Holds(f) /\ Cardinality(DOMAIN f) <= 3}

(* Two contents under one name. *)
Variants ==
    {f \in At({<<r, n>> : r \in {c, k, src}}, {Directory(one1), Directory(one2), LinkTo(<<k, n>>)}) :
        \E p \in DOMAIN f : f[p].package = one2}

(* A Skill inside another. *)
Nested ==
    {(<<r, n>> :> Directory(one1)) @@ (<<r, n, m>> :> Directory(two1)) @@ f :
        r \in {c, k, h},
        f \in {g \in At({<<q, x>> : q \in {c, k, h}, x \in {n, m}},
                        {Directory(two1)} \union {LinkTo(p) : p \in {<<k, n>>, <<k, n, m>>}}) :
                  Cardinality(DOMAIN g) <= 1 /\ \A p \in DOMAIN g : p[2] = n => g[p].kind = "link"}}

(* A root that is a link to another. *)
Aliased ==
    {[d EXCEPT ![<<alias[1]>>] = LinkTo(<<alias[2]>>)] :
        alias \in {<<c, k>>, <<h, src>>, <<h, k>>},
        d \in {Base @@ f : f \in Plain(2)}}
Consistent(d) == \A p \in DOMAIN d : d[<<p[1]>>].kind = "link" => Len(p) = 1

(* Settings of the clients. *)
Open == [codex |-> [known |-> TRUE, rules |-> <<>>], claude |-> [known |-> TRUE, overrides |-> <<>>],
         hermes |-> [known |-> TRUE, disabled |-> {}, channel |-> {}, extraRoots |-> FALSE]]
Rule(p, enabled) == [by |-> "path", path |-> p, enabled |-> enabled]
Ruled ==
    {[Open EXCEPT !.codex.rules = <<Rule(p, FALSE)>>] : p \in {<<k, n>>}}
      \union {[Open EXCEPT !.codex.rules = <<[by |-> "name", name |-> n, enabled |-> FALSE], Rule(<<k, n>>, TRUE)>>],
              [Open EXCEPT !.claude.overrides = (n :> "off")], [Open EXCEPT !.hermes.disabled = {n}],
              [Open EXCEPT !.hermes.channel = {n}], [Open EXCEPT !.codex.known = FALSE]}

(* A path rule names a package: one for a place that is empty, or a link   *)
(* of another Agent, may come to mean another package by a Plan.           *)
Sensible(d, settings) ==
    \A i \in DOMAIN settings.codex.rules :
        LET rule == settings.codex.rules[i]
        IN  rule.by = "path" => rule.path \in DOMAIN d /\ d[rule.path].kind = "dir"

TheWorlds ==
    ({Base @@ f : f \in Plain(3) \union Foreign \union Variants \union Nested} \X {Open})
      \union ({d \in Aliased : Consistent(d)} \X {Open})
      \union {w \in {Base @@ f : f \in Plain(2)} \X Ruled : Sensible(w[1], w[2])}

=============================================================================
