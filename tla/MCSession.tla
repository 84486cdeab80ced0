----------------------------- MODULE MCSession ------------------------------
(* Instances of SmtpSession for TLC. *)
EXTENDS SmtpSession, TLC

CONSTANTS c1, c2, ip1

MCRemoteIP == [c \in Conns |-> ip1]

SessionSymmetry == Permutations(Conns) \cup Permutations(AllowedSenders)
=============================================================================
