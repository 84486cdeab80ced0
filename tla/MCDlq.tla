------------------------------- MODULE MCDlq --------------------------------
(* Instances of DlqCommands for TLC. *)
EXTENDS DlqCommands, TLC

CONSTANTS j1, j2

\* The recipients of one message, claimed one at a time.
MCCreated == [j \in Jobs |-> 1]
MCPayloadBytes == [j \in Jobs |-> 1]
MCBackoff == <<1>>

\* Two replays, of the same file if need be, and no other fault of the relay.
MCBudget == [f \in Faults |-> IF f = "replay" THEN 2 ELSE 0]

RowSymmetry == Permutations(Jobs)
=============================================================================
