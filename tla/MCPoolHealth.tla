---------------------------- MODULE MCPoolHealth ----------------------------
(* Instance of PoolHealth for TLC. *)
EXTENDS PoolHealth, TLC

\* The verdicts a TCP and a UDP outbound may get are the same set, so tags may be
\* exchanged although only one of them is in Udp.
PoolSymmetry == Permutations(Checkers) \cup Permutations(Tags)
EligibleOfAll == [g \in Groups |-> Tags]
=============================================================================
