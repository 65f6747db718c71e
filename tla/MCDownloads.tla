----------------------------- MODULE MCDownloads -----------------------------
(* Two requests, three contents and a place on GitHub for the artifact.      *)
EXTENDS Downloads, TLC

CONSTANTS b1, b2, b3, u1, q1, q2

\* Two are of one length, and only a digest tells them apart; the third, which
\* only GitHub has, is longer.
Lengths == [b \in Bytes |-> IF b = b3 THEN 2 ELSE 1]
=============================================================================
