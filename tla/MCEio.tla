-------------------------------- MODULE MCEio --------------------------------
(***************************************************************************)
(* Eio for TLC: two coroutines, two descriptors, and as many handles as    *)
(* there can be.                                                           *)
(***************************************************************************)
EXTENDS Eio

Digits == {<<6, 4, 4>>, <<8>>}

TwoFds == {0, 1}

FewCalls == {[path |-> 0, file |-> 4], [path |-> 1, file |-> 2], [path |-> 2, file |-> 1]}

(***************************************************************************)
(* The two conversions of a mode belong together: what chmod is given,     *)
(* stat tells, for every mode of up to three digits; a digit above 7 is    *)
(* refused.                                                                *)
(***************************************************************************)
ASSUME ModesKept ==
    /\ \A a \in 1 .. 7, b, c \in 0 .. 7 : OctalDigits[oct2decimal(<<a, b, c>>)] = <<a, b, c>>
    /\ \A a \in 0 .. 9, b \in 8 .. 9 : oct2decimal(<<a, b>>) = -1

=============================================================================
