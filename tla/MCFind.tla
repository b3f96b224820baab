------------------------------- MODULE MCFind -------------------------------
(***************************************************************************)
(* FindLoad with three placements of up to three Skills, and beside it     *)
(* every ranking of three observations by a task and its hints.            *)
(***************************************************************************)
EXTENDS FindLoad

CONSTANTS p, q, r, dirP, dirQ, dirR, away, gone, dangling, unreadable

Content(id, content, name, rest, entry, form) ==
    [id |-> id, content |-> content, name |-> name, triggers |-> <<>>, description |-> <<3>>, avoid |-> <<>>,
     rest |-> rest, entry |-> entry, form |-> form]
Plain == Content(1, 1, <<1>>, 1, 1, "ok")
OtherFiles == [Plain EXCEPT !.rest = 2]
OtherRouting == Content(1, 2, <<1>>, 3, 3, "ok")
Namesake == Content(2, 3, <<1>>, 4, 4, "ok")
Bigger == Content(3, 4, <<1, 2>>, 5, 5, "too_big")
TheContents == {Plain, OtherFiles, OtherRouting}
Partly == Content(1, 1, <<1>>, 7, 1, "incomplete")
Third == Content(3, 6, <<1>>, 6, 6, "ok")
TheOutside == [x \in {p, q, r} |->
    Content(CASE x = p -> 4 [] x = q -> 5 [] x = r -> 6, 0, <<1>>, 0, 0, "unread")]

TheStarts ==
    {[at |-> (p :> dirP) @@ (q :> dirQ) @@ (r :> c[1]),
      holds |-> (dirP :> Plain) @@ (dirQ :> b) @@ (dirR :> c[2]) @@ (away :> Plain)
                   @@ (gone :> unreadable) @@ (dangling :> unreadable)] :
        b \in {Plain, OtherFiles, OtherRouting, Namesake},
        c \in ({dirR} \X {Plain, Bigger, Third, Partly, unreadable}) \union ({away, dangling} \X {Plain})}
ThePlacements == <<p, q, r>>

TheTasks == {[text |-> t, excluded |-> e] : t \in {<<1>>, <<1, 3>>, <<2>>, <<1, 4, 2>>}, e \in {{}, {<<3>>}}}
TheHints == {{}, {<<2>>}, {<<1, 2>>}, {<<3>>, <<2, 4>>}}
TheRequests == {[task |-> [text |-> <<1>>, excluded |-> {}], hints |-> h] : h \in {{<<4, 3>>}}}

TheNames == {<<1>>, <<1, 2>>, <<4>>}
TheOrder == (<<1>> :> 1) @@ (<<1, 2>> :> 2) @@ (<<2>> :> 3) @@ (<<4>> :> 4)
Catalogued(id) ==
    {[id |-> id, content |-> c[1], name |-> n, triggers |-> c[2], description |-> c[3], avoid |-> c[4]] :
        n \in TheNames, c \in {<<1, <<>>, <<3>>, <<>>>>, <<2, <<2>>, <<>>, <<>>>>, <<4, <<3>>, <<4>>, <<1, 2>>>>}}

VARIABLES half, asked
allVars == <<findVars, half, asked>>

None == [catalog |-> {}]
Asked == {[catalog |-> {a, b, c}, task |-> t, hints |-> h] :
             a \in Catalogued(1), b \in Catalogued(2), c \in Catalogued(1) \union Catalogued(3),
             t \in TheTasks, h \in TheHints}

MCInit == FindInit /\ asked = None /\ half \in {"load", "rank"}
Ask == half = "rank" /\ asked = None /\ asked' \in Asked /\ UNCHANGED <<findVars, half>>
MCNext ==
    \/ half = "load" /\ FindNext /\ UNCHANGED <<half, asked>>
    \/ at = (CHOOSE start \in Starts : TRUE).at /\ holds = (CHOOSE start \in Starts : TRUE).holds /\ Ask
MCSpec == MCInit /\ [][MCNext]_allVars

(* The statement of Retrieval, on the rankings asked for.                  *)
TaskMatchStays == asked # None => StrongestTaskMatchStays(asked.catalog, asked.task, asked.hints)
=============================================================================
