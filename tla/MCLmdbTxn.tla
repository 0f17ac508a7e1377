------------------------------ MODULE MCLmdbTxn ------------------------------
EXTENDS LmdbTxn

(***************************************************************************)
(* One transaction with two keys and room for a child; four transactions   *)
(* with two readers, a power failure and a child in the last, which finds  *)
(* pages to reuse; five transactions, of which two reuse pages.            *)
(***************************************************************************)
Explored ==
    {[ops |-> <<6, 0, 0, 0, 0>>, keys |-> {1, 2}, readers |-> {}, crashes |-> 1],
     [ops |-> <<1, 1, 1, 3, 0>>, keys |-> {1}, readers |-> {1, 2}, crashes |-> 1],
     [ops |-> <<1, 1, 1, 1, 2>>, keys |-> {1}, readers |-> {1}, crashes |-> 0]}

=============================================================================
