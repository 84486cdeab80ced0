----------------------------- MODULE Submission -----------------------------
(***************************************************************************)
(* What the relay promises an SMTP client: a submission is stored for all  *)
(* the recipients the client asked for, at once, or not at all, and it is  *)
(* acknowledged only once it is stored.  A submission that is stored and   *)
(* never acknowledged is possible: the client does not know, and may       *)
(* submit again.                                                           *)
(***************************************************************************)
EXTENDS Sequences

CONSTANTS
  Subs,       \* submissions
  Rows        \* a sender and a recipient

VARIABLES
  asked,      \* [Subs -> Seq(Rows)], <<>> before the client submits
  stored,     \* [Subs -> Seq(Rows)], <<>> while nothing is stored
  acked       \* submissions the client has a 250 for

Init ==
  /\ asked = [s \in Subs |-> <<>>]
  /\ stored = [s \in Subs |-> <<>>]
  /\ acked = {}

Ask(s) ==
  /\ asked[s] = <<>>
  /\ asked'[s] \in Seq(Rows) \ {<<>>}
  /\ asked' = [asked EXCEPT ![s] = asked'[s]]
  /\ UNCHANGED <<stored, acked>>

Store(s) ==
  /\ stored[s] = <<>>
  /\ stored' = [stored EXCEPT ![s] = asked[s]]
  /\ UNCHANGED <<asked, acked>>

Acknowledge(s) ==
  /\ stored[s] # <<>>
  /\ acked' = acked \cup {s}
  /\ UNCHANGED <<asked, stored>>

Next == \E s \in Subs : Ask(s) \/ Store(s) \/ Acknowledge(s)

Spec == Init /\ [][Next]_<<asked, stored, acked>>
=============================================================================
