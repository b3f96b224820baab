----------------------------- MODULE AtomicChange -----------------------------
(***************************************************************************)
(* What Plan, Apply, Receipt and Undo promise of the governed paths: a     *)
(* Plan changes all of its paths or none of them, a Receipt remembers what *)
(* they held before and after and what each of its operations found there, *)
(* Undo puts exactly what was before back, and only over what the Plan left*)
(* there or found there, and once an interrupted change has to be inspected*)
(* nothing else is changed.                                                *)
(***************************************************************************)
CONSTANTS Path, Held, Missing, Receipt

VARIABLES tree,    \* what the governed paths hold
          log,     \* the Receipts of committed Plans
          blocked, \* a change is unresolved
          raced    \* another program changed a path under the running command

vars == <<tree, log, blocked, raced>>

NoEntry == [before |-> <<>>, after |-> <<>>, found |-> <<>>, live |-> FALSE]
Overlay(t, over) == [p \in Path |-> IF p \in DOMAIN over THEN over[p] ELSE t[p]]
Holds(t, over) == \A p \in DOMAIN over : t[p] = over[p]

AInit == /\ tree \in [Path -> Held]
         /\ log = [r \in Receipt |-> NoEntry]
         /\ blocked = FALSE
         /\ raced = FALSE

Commit(r) ==
    LET entry == log'[r] IN
    /\ ~blocked /\ log[r] = NoEntry
    /\ log' = [log EXCEPT ![r] = entry] /\ entry.live
    /\ DOMAIN entry.before = DOMAIN entry.after
    /\ \A p \in DOMAIN entry.before : entry.before[p] \in entry.found[p]
    /\ Holds(tree, entry.before)
    /\ tree' = Overlay(tree, entry.after)
    /\ UNCHANGED <<blocked, raced>>

Revert(r) ==
    /\ ~blocked /\ log[r].live
    /\ \A p \in DOMAIN log[r].after : tree[p] \in {log[r].after[p], Missing} \cup log[r].found[p]
    /\ tree' = Overlay(tree, log[r].before)
    /\ log' = [log EXCEPT ![r].live = FALSE]
    /\ UNCHANGED <<blocked, raced>>

Block == blocked' = TRUE /\ UNCHANGED <<tree, log, raced>>

(* Another program changes a path, between two commands or under one.      *)
Disturb(p) ==
    /\ \E c \in Held : tree' = [tree EXCEPT ![p] = c]
    /\ raced' \in {raced, TRUE}
    /\ UNCHANGED <<log, blocked>>

(* A command another program raced with ends: atomicity says nothing of it,*)
(* but for the Receipts of other changes.                                  *)
EndRaced ==
    /\ raced /\ ~raced'
    /\ \E r \in Receipt : \A s \in Receipt \ {r} : log'[s].before = log[s].before

ANext ==
    \/ Block \/ EndRaced
    \/ \E r \in Receipt : Commit(r) \/ Revert(r)
    \/ \E p \in Path : Disturb(p)

ASpec == AInit /\ [][ANext]_vars
==============================================================================
