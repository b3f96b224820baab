-------------------------- MODULE WriteBackRegister --------------------------
(***************************************************************************)
(* What write_private_file_atomic promises of a journal: readers see one   *)
(* whole record, the last one put; a power loss leaves one whole record,   *)
(* put since the last flush or standing at it; after a flush, that one     *)
(* (or none, while the directory of the journal has itself not been        *)
(* flushed).                                                               *)
(***************************************************************************)
EXTENDS Integers

CONSTANT Value

VARIABLES value,     \* what a reader sees
          survivors  \* what a power loss may leave

register == <<value, survivors>>

Init == value = 0 /\ survivors = {0}

Put(v) == value' = v /\ survivors' = survivors \union {v}
Flush == survivors' \in {{value}, {value} \union (survivors \intersect {0})} /\ UNCHANGED value
Lose(v) == v \in survivors /\ value' = v /\ survivors' = {v}

Next == \/ \E v \in Value : Put(v)
        \/ Flush
        \/ \E v \in survivors : Lose(v)
Spec == Init /\ [][Next]_register
=============================================================================
