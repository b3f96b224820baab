---------------------------- MODULE MCChangeEngine ----------------------------
(***************************************************************************)
(* Small instances of ChangeEngine.  `src` is a Skill in a client's root,  *)
(* `lib` its place in the Library (on the state directory's filesystem),   *)
(* `link` a second exposure, `cfg` a regular file and `far` a Skill on     *)
(* another filesystem.                                                     *)
(***************************************************************************)
EXTENDS ChangeEngine, TLC

CONSTANTS src, lib, link, cfg, far, A, B, C, D, L, N, T, U, absent, none, r1, r2, r3

MCPath == {src, lib, link, cfg, far}
MCContent == {A, B, C, D, L, N, T, U}
MCTree == (src :> A) @@ (lib :> absent) @@ (link :> absent) @@ (cfg :> B) @@ (far :> C)
MCDevice == (src :> "home") @@ (lib :> "home") @@ (link :> "home") @@ (cfg :> "home")
              @@ (far :> "far")

Do(kind, target, source, content) ==
    [kind |-> kind, target |-> target, source |-> source, content |-> content]

(* roster_plan: into the Library, and a link where the Skill was. *)
Relocate == <<Do("moveRecoverable", lib, src, A), Do("createSymlink", src, lib, L)>>
(* setup: a directory and a replaced file. *)
Bootstrap == <<Do("createDirectory", link, link, D), Do("replaceFile", cfg, cfg, N)>>
(* a Skill from another filesystem, and a new file. *)
Import == <<Do("moveRecoverable", lib, far, C), Do("writeFile", link, link, N)>>
(* a link removed, a package copied. *)
Unlink == <<Do("removeSymlink", src, src, A), Do("copy", link, far, C)>>

AllPlans == {Relocate, Bootstrap, Import, Unlink}
Visitor == {U}
Package == {cfg}

(* Receipt IDs are interchangeable: taking them in one order loses nothing, *)
(* and unlike SYMMETRY it leaves the temporal properties checkable.         *)
IDs == <<r1, r2, r3>>
Taken(r) == journal[r] # Absent \/ cur = r
InOrder == \A m, n \in 1 .. Cardinality(Receipt) : (m < n /\ Taken(IDs[n])) => Taken(IDs[m])

(* Faults and edits come in any mix, up to a bound on both together.        *)
MaxDisturbances == 2
Bounded == InOrder /\ edits + faults <= MaxDisturbances
BoundedSpec == Init /\ [][Next /\ Bounded']_vars /\ WF_vars(Command)
==============================================================================
