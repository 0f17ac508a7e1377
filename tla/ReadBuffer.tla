----------------------------- MODULE ReadBuffer -----------------------------
(***************************************************************************)
(* The chain of blocks in which a cosocket or popen handle keeps the bytes *)
(* it has received and Lua has not read: read_buf, last_buf, total_buf_len *)
(* of cosocket_t in src/coevent.c.  The chain is a sequence of blocks, the *)
(* last one being last_buf; the empty sequence is read_buf == NULL.        *)
(***************************************************************************)
EXTENDS Integers, Sequences, SequencesExt, FiniteSetsExt

CONSTANT BlockSize  \* 4096 in the code

ASSUME ReadBufferAssumption == BlockSize \in Nat \ {0}

\* Bytes as reading a line tells them apart.
LF == "n"
CR == "r"
Byte == {LF, CR, "x"}

\* buf_read_len: a number of bytes, or one of these.
Line == -1
All == -2

Bytes(blocks) == FlattenSeq(blocks)

-----------------------------------------------------------------------------
(* Receiving *)

WithBlock(blocks) ==
    IF blocks = <<>> \/ Len(Last(blocks)) >= BlockSize THEN Append(blocks, <<>>) ELSE blocks

Put(blocks, b) == WithBlock([blocks EXCEPT ![Len(blocks)] = Append(@, b)])

\* read or recv until there is no more: every byte goes into the last block, and
\* a full block is followed by a new one at once.
Filled(blocks, bytes) == FoldLeft(Put, WithBlock(blocks), bytes)

-----------------------------------------------------------------------------
(* lua_co_read_ and lua_co_popen_read_, the same code twice *)

\* How many bytes a request for len takes: up to and including the first line
\* feed, everything, or that many (fewer only when no more will come).
BeCopy(blocks, total, len, closed) ==
    CASE len = Line -> SelectInSeq(Bytes(blocks), LAMBDA b : b = LF)
      [] len = All -> total
      [] OTHER -> IF closed /\ len > total THEN total ELSE len

\* The request is met from the chain.
Served(blocks, total, len, closed) ==
    LET n == BeCopy(blocks, total, len, closed)
    IN  n > 0 /\ total >= n /\ Len(Bytes(blocks)) >= n

\* Mutant: the rest of the block in which the copy ends is freed too.
Bug_RestFreed(blocks, n) ==
    LET upto(k) == Len(Bytes(SubSeq(blocks, 1, k)))
        k == Min({i \in DOMAIN blocks : upto(i) >= n})
    IN  SubSeq(blocks, k + 1, Len(blocks))

\* The chain after n bytes were copied: the blocks before the one in which the
\* copy ends are freed, and that one, even if nothing is left in it, is first.
Remaining(blocks, n) ==
    LET upto(k) == Len(Bytes(SubSeq(blocks, 1, k)))
        k == Min({i \in DOMAIN blocks : upto(i) >= n})
    IN  <<SubSeq(blocks[k], n - upto(k - 1) + 1, Len(blocks[k]))>>
        \o SubSeq(blocks, k + 1, Len(blocks))

CutLast(s, b) == IF s # <<>> /\ Last(s) = b THEN Front(s) ELSE s

\* What Lua gets: the bytes, a line without its line feed and one carriage
\* return before that.  For an empty line the code looks for the carriage return
\* in the byte before the copy, which belongs to the allocator; it is taken to be
\* something else, as it is with glibc.
Text(blocks, n, len) ==
    LET s == SubSeq(Bytes(blocks), 1, n)
    IN  IF len = Line THEN CutLast(CutLast(s, LF), CR) ELSE s
=============================================================================
