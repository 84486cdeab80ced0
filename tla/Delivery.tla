------------------------------ MODULE Delivery ------------------------------
(***************************************************************************)
(* What the relay promises about a recipient whose message it accepted,    *)
(* with no table, workers, leases or processes: the recipient stays        *)
(* pending until MailerSend has taken it (sent) or it is set aside in the  *)
(* dead-letter queue (dead), from where only an operator brings it back.   *)
(* MailerSend may take a recipient more than once: delivery is at least    *)
(* once.                                                                   *)
(***************************************************************************)
EXTENDS Naturals

CONSTANT Jobs

VARIABLES
  stage,   \* [Jobs -> {"absent", "pending", "sent", "dead"}]
  taken    \* [Jobs -> Nat], how often MailerSend took the recipient

Init ==
  /\ stage = [j \in Jobs |-> "absent"]
  /\ taken = [j \in Jobs |-> 0]

\* The recipients S go from one stage to another, all at once.
Move(S, from, to) ==
  /\ \A j \in S : stage[j] = from
  /\ stage' = [j \in Jobs |-> IF j \in S THEN to ELSE stage[j]]
  /\ UNCHANGED taken

Submit(S) == Move(S, "absent", "pending")
Bury(S)   == Move(S, "pending", "dead")
Replay(S) == Move(S, "dead", "pending")

\* Only what MailerSend has taken is recorded as sent.
Record(S) ==
  /\ \A j \in S : taken[j] > 0
  /\ Move(S, "pending", "sent")

\* MailerSend takes a request; never one for a recipient nobody submitted.
Take(S) ==
  /\ \A j \in S : stage[j] # "absent"
  /\ taken' = [j \in Jobs |-> IF j \in S THEN taken[j] + 1 ELSE taken[j]]
  /\ UNCHANGED stage

Next ==
  \E S \in SUBSET Jobs :
    Submit(S) \/ Take(S) \/ Record(S) \/ Bury(S) \/ Replay(S)

Spec == Init /\ [][Next]_<<stage, taken>>
=============================================================================
