------------------------------- MODULE Replies -------------------------------
(***************************************************************************)
(* What the client libraries read from their servers: lines, bodies whose  *)
(* length a line has told, the line ends after bodies, and packets.  A     *)
(* library's function is a record of what it sends and what it reads       *)
(* first; what it does with what it reads is a function of what it expects *)
(* and what comes: it ends the call, or goes on to expect more.            *)
(***************************************************************************)
EXTENDS Integers, Sequences

(***************************************************************************)
(* Something the server sent: its kind, the number in it, whether the      *)
(* connection broke off inside it, and the request it answers, 0 if none.  *)
(***************************************************************************)
Said(k, n) == [k |-> k, n |-> n, part |-> FALSE, of |-> 0]

Word(k) == Said(k, 0)

For(id, reply) == [i \in DOMAIN reply |-> [reply[i] EXCEPT !.of = id]]

(***************************************************************************)
(* What the library does: it goes on with more to read, ends the call with *)
(* an answer of the server, gives up without one, or has read something it *)
(* cannot have been sent in this place.                                    *)
(***************************************************************************)
GoOn(more) == [end |-> "", more |-> more]

Ends(how) == [end |-> how, more |-> <<>>]

Times(n, e) == [i \in 1 .. n |-> e]

(***************************************************************************)
(* A function of a library.                                                *)
(***************************************************************************)
Call(name, reads) == [name |-> name, reads |-> reads]

=============================================================================
