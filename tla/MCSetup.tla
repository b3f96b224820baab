------------------------------- MODULE MCSetup -------------------------------
(* Setup for two Agents, whose roots may be one directory or the shared    *)
(* root, with every kind of package.                                       *)
EXTENDS Setup, TLC

CONSTANTS codex, hermes, shared, entry, reference

Files(e, r) == (entry :> e) @@ (reference :> r)
Packages ==
    {NoPackage, [NoPackage EXCEPT !.kind = "odd"]} \union
    {Directory(Files(f[1], f[2]), f[3]) :
        f \in {<<"none", "none", "mine">>, <<"single", "none", "none">>, <<"single", "older", "none">>,
               <<"older", "older", "mine">>, <<"older", "mine", "none">>, <<"current", "none", "none">>,
               <<"current", "current", "mine">>, <<"mine", "odd", "none">>}}
Others == {NoPackage, Directory(Files("single", "none"), "mine"), Directory(Files("older", "mine"), "none")}
Roots == {(codex :> c) @@ (hermes :> h) : c \in {codex, shared}, h \in {hermes, codex, shared}}
AllLayouts ==
    {[at |-> at0, there |-> there0, session |-> s, hides |-> hide,
      packages |-> (codex :> p) @@ (hermes :> q) @@ (shared :> NoPackage)] :
        at0 \in Roots, there0 \in {{codex, hermes, shared}, {hermes, shared}}, s \in {{}, {codex}},
        hide \in BOOLEAN, p \in Packages, q \in Others}
MCLayouts ==
    {layout \in AllLayouts :
        /\ codex \in layout.there => layout.session = {}
        /\ codex \notin layout.there => layout.packages[codex] = NoPackage
        /\ layout.hides => layout.packages[codex] = NoPackage
        /\ layout.packages[hermes] = NoPackage \/ layout.at[hermes] = hermes}
=============================================================================
