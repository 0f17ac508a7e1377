----------------------------- MODULE MCCosocket -----------------------------
(* Instances of Cosocket for TLC. *)
EXTENDS Cosocket, TLC

CONSTANTS s1, s2, h1, h2, k1, k2, c1, c2

OneBucket == [k \in Keys |-> 0]
\* No two hosts have the same key.
NoCollision == [h \in Hosts |-> IF h = h1 THEN k1 ELSE k2]

Symmetric == Permutations(Threads) \cup Permutations(Conns) \cup Permutations(Socks)
=============================================================================
