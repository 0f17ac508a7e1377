------------------------------ MODULE LmdbStore ------------------------------
(***************************************************************************)
(* What the transactions of an LMDB environment promise, without a page, a *)
(* free list or a reader table: one committed map, one writer with nested  *)
(* transactions, readers that see one map that was committed while they    *)
(* began, and crashes that lose no commit that was answered.               *)
(*                                                                         *)
(* A commit is in doubt between the moment it can first be seen and the    *)
(* moment it is answered: a reader that is just beginning may see either   *)
(* side of it, and so may a restart.  A commit whose very last write       *)
(* reports an error stays in doubt until the environment is opened again.  *)
(*                                                                         *)
(* LmdbTxn implements this specification.                                  *)
(***************************************************************************)
EXTENDS Naturals, Sequences

CONSTANTS
    Keys,       \* the keys of the database
    Readers,    \* the processes that read
    Values,     \* what a key may hold
    Absent,     \* what a key without an entry "holds"
    Spoilt      \* the map of a transaction that can only be aborted

VARIABLES
    com,        \* the committed map
    doubt,      \* {} or the map of the commit in doubt
    stack,      \* the maps of the open write transaction and of its child
    rd          \* each reader: [pc, may, map]

vars == <<com, doubt, stack, rd>>

Empty == [k \in Keys |-> Absent]

Idle == [pc |-> "idle", may |-> {}, map |-> Empty]

Init ==
    /\ com = Empty
    /\ doubt = {}
    /\ stack = <<>>
    /\ rd = [r \in Readers |-> Idle]

top == Len(stack)

(***************************************************************************)
(* The readers that are just beginning may see the new map as well.        *)
(***************************************************************************)
Offered(m) ==
    [r \in Readers |->
        IF rd[r].pc = "calling" THEN [rd[r] EXCEPT !.may = @ \union {m}] ELSE rd[r]]

(***************************************************************************)
(* The writer's transaction.  A step of it shows to nobody else.           *)
(***************************************************************************)
Begin ==
    /\ stack = <<>>
    /\ doubt = {}
    /\ stack' = <<com>>

(***************************************************************************)
(* One key is written, or deleted, in the innermost transaction; or the    *)
(* operation fails and the transaction can only be aborted.                *)
(***************************************************************************)
Write ==
    LET before == stack
        inner  == before[Len(before)]
        after  == {[inner EXCEPT ![k] = v] : k \in Keys, v \in Values \union {Absent}}
    IN  /\ before # <<>>
        /\ inner # Spoilt
        /\ stack' \in {[before EXCEPT ![Len(before)] = m] : m \in after \union {Spoilt}}

BeginChild ==
    /\ top = 1
    /\ stack[1] # Spoilt
    /\ stack' = Append(stack, stack[1])

CommitChild ==
    /\ top = 2
    /\ stack' = <<stack[2]>>

Abort ==
    /\ stack # <<>>
    /\ stack' \in {<<>>, SubSeq(stack, 1, top - 1)}

WriterStep ==
    /\ UNCHANGED <<com, doubt, rd>>
    /\ stack' # stack
    /\ Begin \/ Write \/ BeginChild \/ CommitChild \/ Abort

(***************************************************************************)
(* The commit can be seen from here on.                                    *)
(***************************************************************************)
Commit ==
    /\ top = 1
    /\ stack[1] # Spoilt
    /\ doubt' = {stack[1]}
    /\ stack' = <<>>
    /\ rd' = Offered(stack[1])
    /\ UNCHANGED com

(***************************************************************************)
(* The commit is answered.                                                 *)
(***************************************************************************)
Settle ==
    /\ doubt # {}
    /\ {com'} = doubt
    /\ doubt' = {}
    /\ UNCHANGED <<stack, rd>>

(***************************************************************************)
(* A reader calls, is given a map, and ends.                               *)
(***************************************************************************)
Call(r) ==
    /\ rd[r].pc = "idle"
    /\ rd' = [rd EXCEPT ![r] = [@ EXCEPT !.pc = "calling", !.may = {com} \union doubt]]

Return(r) ==
    /\ rd[r].pc = "calling"
    /\ \E m \in rd[r].may : rd' = [rd EXCEPT ![r] = [pc |-> "in", may |-> {}, map |-> m]]

End(r) ==
    /\ rd[r].pc # "idle"
    /\ rd' = [rd EXCEPT ![r] = Idle]

ReaderStep ==
    /\ UNCHANGED <<com, doubt, stack>>
    /\ \E r \in Readers : Call(r) \/ Return(r) \/ End(r)

(***************************************************************************)
(* Power fails and the environment is opened again.                        *)
(***************************************************************************)
Restart ==
    /\ com' \in {com} \union doubt
    /\ doubt' = {}
    /\ stack' = <<>>
    /\ rd' = [r \in Readers |-> Idle]

Next == ReaderStep \/ WriterStep \/ Settle \/ Commit \/ Restart

Spec == Init /\ [][Next]_vars

=============================================================================
