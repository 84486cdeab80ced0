------------------------------- MODULE MCRelay ------------------------------
(* Instances of Relay for TLC. *)
EXTENDS Relay, TLC

CONSTANTS j1, j2, j3

\* j1 and j2 are the recipients of one message, j3 that of a later one.
MCCreated == [j \in Jobs |-> IF j = j3 THEN 2 ELSE 1]

\* j1 and j3 are by themselves larger than the smallest BatchMaxBytes used.
MCPayloadBytes == [j \in Jobs |-> IF j = j2 THEN 50 ELSE 400]

MCBackoff == <<1>>

\* Each of the faults F once.
Once(F) == [f \in Faults |-> IF f \in F THEN 1 ELSE 0]

MCBudgetPrompt  == Once({"db", "crash", "replay"})
MCBudgetOverrun == Once({"overrun", "crash", "replay"})
MCBudgetLive    == Once({"crash", "db"})
MCBudgetStop    == Once({"signal"})

WorkerSymmetry == Permutations(Workers)
=============================================================================
