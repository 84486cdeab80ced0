---------------------------- MODULE MCAdmission -----------------------------
(* Instances of SmtpAdmission for TLC. *)
EXTENDS SmtpAdmission, TLC

CONSTANTS c1, c2, c3, c4, ip1, ip2

\* c4 alone has an address of its own.
MCRemoteIP == [c \in Conns |-> IF c = c4 THEN ip2 ELSE ip1]

\* Connections of one address are alike.
ConnSymmetry == Permutations({c1, c2, c3})
=============================================================================
