-------------------------- MODULE MCStateDirectory --------------------------
(***************************************************************************)
(* One instance of Sessions and one of DurableJournal.  They share no      *)
(* state, so they are explored side by side and not in a product: `half`   *)
(* says which of them moves.                                               *)
(*                                                                         *)
(* Sessions: a reader and a writer of the current release and a binary of  *)
(* the release before it that reads or deletes.                            *)
(***************************************************************************)
EXTENDS Sessions, DurableJournal, TLC

CONSTANTS reader, writerProcess, older

TheProcesses == {reader, writerProcess, older}
TheBinary == (reader :> 2) @@ (writerProcess :> 2) @@ (older :> 1)
TheCommands ==
    (reader :> {"read"}) @@ (writerProcess :> {"write"}) @@ (older :> {"read", "delete"})

VARIABLE half
allVars == <<vars, journalVars, half>>

MCInit == Init /\ JournalInit /\ half \in {"sessions", "journal"}

MCNext ==
    /\ UNCHANGED half
    /\ \/ half = "sessions" /\ Next /\ UNCHANGED journalVars
       \/ half = "journal" /\ JournalNext /\ UNCHANGED vars

MCSpec == MCInit /\ [][MCNext]_allVars
=============================================================================
