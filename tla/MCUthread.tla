----------------------------- MODULE MCUthread ------------------------------
(* Instances of Uthread for TLC. *)
EXTENDS Uthread, TLC

\* The coroutines other than the main one are interchangeable.
Symmetric == Permutations(Threads \ {Main})
=============================================================================
