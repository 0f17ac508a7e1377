------------------------------ MODULE SwopQueue ------------------------------
(***************************************************************************)
(* What swop's list promises: the coroutines that gave way are served one  *)
(* at a time in the order in which they came, and none is dropped,         *)
(* duplicated or overtaken.                                                *)
(***************************************************************************)
EXTENDS Naturals, Sequences

CONSTANT Threads
VARIABLE queue

Init == queue = <<>>

Join(t) ==
    /\ \A i \in 1 .. Len(queue) : queue[i] # t
    /\ queue' = Append(queue, t)

Serve ==
    /\ queue # <<>>
    /\ queue' = Tail(queue)

Next == Serve \/ \E t \in Threads : Join(t)

Spec == Init /\ [][Next]_queue
=============================================================================
