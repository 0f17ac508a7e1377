------------------------------- MODULE Popen -------------------------------
(***************************************************************************)
(* cosocket.popen: handles that read the output of a command, src/coevent.c *)
(* from popen_timeout_handle to lua_co_popen_gc.                           *)
(*                                                                         *)
(* A coroutine that calls read and finds too little in the handle's buffer *)
(* is parked until the event loop calls cosocket_be_popen_read or the      *)
(* timer calls popen_timeout_handle.  The handler stays registered after   *)
(* the first read, so output also arrives when nobody reads.  Each action  *)
(* is one call or one handler; what a resumed coroutine does before the    *)
(* handler goes on is a sequence of actions within a frame.                *)
(***************************************************************************)
EXTENDS ReadBuffer, FiniteSets

CONSTANTS
    Threads,   \* coroutines
    Pipes,     \* popen handles
    Lengths,   \* the arguments of read: numbers of bytes, Line, All
    MaxBytes,  \* bound on the output of a command
    Ends,      \* how reading from a pipe ends, see End
    None

\* The command closes its output; read fails when the handle's buffer is empty;
\* read fails when there is text in it.
End == {"eof", "error", "error after text"}

ASSUME PopenAssumption ==
    /\ Lengths \subseteq Nat \cup {Line, All}
    /\ MaxBytes \in Nat
    /\ Ends \subseteq End
    /\ None \notin Threads \cup Pipes

VARIABLES
    hd,      \* the handles
    thr,     \* the handle each coroutine is parked on, or None
    frame,   \* the coroutine running inside cosocket_be_popen_read's resume, or None
    hist     \* what happened to each handle; the code keeps no such record

vars == <<hd, thr, frame, hist>>

-----------------------------------------------------------------------------
(* State *)

\* status is 2 until the handle is closed, then 0.  open is fd # -1, ptr is
\* ptr # NULL, armed means that epoll will call cosocket_be_popen_read, timer is
\* timeout_ptr # NULL.  blocks and total are the buffer.
Cok == [life : {"absent", "live", "collected"}, status : {0, 2}, open : BOOLEAN,
        ptr : BOOLEAN, armed : BOOLEAN, inuse : BOOLEAN, in_read_action : BOOLEAN,
        timer : BOOLEAN, L : Threads \cup {None}, buf_read_len : Lengths \cup {0},
        blocks : Seq(Seq(Byte)), total : Nat]

Absent ==
    [life |-> "absent", status |-> 0, open |-> FALSE, ptr |-> FALSE, armed |-> FALSE,
     inuse |-> FALSE, in_read_action |-> FALSE, timer |-> FALSE, L |-> None,
     buf_read_len |-> 0, blocks |-> <<>>, total |-> 0]

\* output is what the command writes and taken how much of it was read from the
\* pipe; given is what Lua got, with the line feeds of lines put back; dropped
\* tells that buffered bytes were thrown away by close or by a timeout; pclosed
\* counts pclose calls; erred tells that a resumed coroutine failed.
Hist == [output : Seq(Byte), taken : Nat, given : Seq(Byte), dropped : BOOLEAN,
         pclosed : Nat, erred : BOOLEAN]

New(output) ==
    [output |-> output, taken |-> 0, given |-> <<>>, dropped |-> FALSE, pclosed |-> 0,
     erred |-> FALSE]

TypeOK ==
    /\ hd \in [Pipes -> Cok]
    /\ \A p \in Pipes : \A i \in DOMAIN hd[p].blocks : Len(hd[p].blocks[i]) < BlockSize
                                                     \/ i < Len(hd[p].blocks)
    /\ thr \in [Threads -> Pipes \cup {None}]
    /\ frame \in {None} \cup [t : Threads, p : Pipes]
    /\ hist \in [Pipes -> Hist]

Init ==
    /\ hd = [p \in Pipes |-> Absent]
    /\ thr = [t \in Threads |-> None]
    /\ frame = None
    /\ hist = [p \in Pipes |-> New(<<>>)]

-----------------------------------------------------------------------------
(* Pieces of calls and handlers *)

\* t runs: inside the handler that resumed it, or resumed by something else.
Runs(t) == thr[t] = None

Stays == UNCHANGED <<thr, frame>>

\* t ends its call in lua_yield; a handler that had resumed it goes on.
Parks(t, p) ==
    /\ thr' = [thr EXCEPT ![t] = p]
    /\ frame' = IF frame # None /\ frame.t = t THEN None ELSE frame

\* lua_co_popen_read_ on handle r: whether it returns a string, and the handle
\* and history then.
Closed(r) == r.status = 0
Wanted(r) == BeCopy(r.blocks, r.total, r.buf_read_len, Closed(r))
HasText(r) == r.total >= 1 /\ Served(r.blocks, r.total, r.buf_read_len, Closed(r))
NothingLeft(r) == r.total < 1 /\ Closed(r)
TextTaken(r) == [r EXCEPT !.blocks = Remaining(@, Wanted(r)), !.total = @ - Wanted(r)]
TextGiven(h, r) ==
    [h EXCEPT !.given = @ \o Text(r.blocks, Wanted(r), r.buf_read_len)
                          \o (IF r.buf_read_len = Line THEN <<LF>> ELSE <<>>)]

\* se_delete, pclose, fd = -1, status = 0.
Shut(r) == [r EXCEPT !.status = 0, !.open = FALSE, !.ptr = FALSE, !.armed = FALSE]
Pclosed(h) == [h EXCEPT !.pclosed = @ + 1]

\* The buffer is freed; total_buf_len keeps its value.
Drop(r) == [r EXCEPT !.blocks = <<>>]
Dropped(h) == [h EXCEPT !.dropped = TRUE]

Set(p, r, h) ==
    /\ hd' = [hd EXCEPT ![p] = r]
    /\ hist' = [hist EXCEPT ![p] = h]

-----------------------------------------------------------------------------
(* Calls *)

\* lua_co_popen; a popen that fails changes nothing.
Open(t, p) ==
    /\ Runs(t)
    /\ hd[p].life = "absent"
    /\ \E output \in BoundedSeq(Byte, MaxBytes) :
          Set(p, [Absent EXCEPT !.life = "live", !.status = 2, !.open = TRUE, !.ptr = TRUE,
                                !.L = t],
                 New(output))
    /\ Stays

\* The first conditions of lua_co_popen_read, and the request it then stores.
MayRead(p) ==
    /\ hd[p].life = "live"
    /\ (hd[p].status = 2 /\ hd[p].open /\ hd[p].ptr) \/ hd[p].total >= 1
    /\ ~hd[p].inuse
Asking(t, p, len) == [hd[p] EXCEPT !.L = t, !.buf_read_len = len]

\* read returns what is buffered.
ReadBuffered(t, p, len) ==
    /\ Runs(t) /\ MayRead(p)
    /\ LET r == Asking(t, p, len)
       IN  HasText(r) /\ Set(p, TextTaken(r), TextGiven(hist[p], r))
    /\ Stays

\* read finds too little in a handle that is closed.
ReadClosed(t, p, len) ==
    /\ Runs(t) /\ MayRead(p)
    /\ LET r == Asking(t, p, len)
       IN  ~HasText(r) /\ ~r.open /\ Set(p, r, hist[p])
    /\ Stays

\* read waits: se_be_read, add_timeout, lua_yield.
ReadWaits(t, p, len) ==
    /\ Runs(t) /\ MayRead(p)
    /\ LET r == Asking(t, p, len)
       IN  /\ ~HasText(r) /\ r.open
           /\ Set(p, [r EXCEPT !.in_read_action = TRUE, !.armed = TRUE,
                               !.timer = TRUE, !.inuse = TRUE], hist[p])
    /\ Parks(t, p)

\* se_be_read fails: the file is closed, but neither ptr nor status is reset.
ReadArmFails(t, p, len) ==
    /\ Runs(t) /\ MayRead(p)
    /\ LET r == Asking(t, p, len)
       IN  /\ ~HasText(r) /\ r.open /\ ~r.in_read_action
           /\ Set(p, [r EXCEPT !.in_read_action = TRUE, !.open = FALSE, !.armed = FALSE],
                     Pclosed(hist[p]))
    /\ Stays

\* Mutant: close looks only at the file, not at whether a coroutine is parked.
Bug_ClosesInUse(p) ==
    /\ hd[p].life = "live" /\ hd[p].status = 2
    /\ Set(p, Drop([Shut(hd[p]) EXCEPT !.timer = FALSE]),
              Dropped(IF hd[p].open THEN Pclosed(hist[p]) ELSE hist[p]))

\* lua_co_popen_close and lua_co_popen_gc when they do something.  After a failed
\* se_be_read the file is closed already and ptr is left as it is.
ClosesHandle(p) ==
    /\ hd[p].life = "live" /\ hd[p].status = 2 /\ ~hd[p].inuse
    /\ LET r == IF hd[p].open THEN Shut(hd[p]) ELSE [hd[p] EXCEPT !.status = 0]
       IN  Set(p, Drop([r EXCEPT !.timer = FALSE]),
                  Dropped(IF hd[p].open THEN Pclosed(hist[p]) ELSE hist[p]))

Close(t, p) == Runs(t) /\ ClosesHandle(p) /\ Stays

\* The collector finds the handle on no Lua stack: nobody is parked on it and no
\* handler is working for it.
Unreachable(p) == (\A t \in Threads : thr[t] # p) /\ (frame # None => frame.p # p)

Collect(p) ==
    /\ Unreachable(p)
    /\ hd[p].life = "live"
    /\ LET closes == hd[p].status = 2 /\ ~hd[p].inuse /\ hd[p].open
       IN  Set(p, [Absent EXCEPT !.life = "collected", !.open = hd[p].open /\ ~closes],
                  Dropped(IF closes THEN Pclosed(hist[p]) ELSE hist[p]))
    /\ Stays

-----------------------------------------------------------------------------
(* Handlers *)

\* The first part of cosocket_be_popen_read: k more bytes of the output.
Readable(p, k) ==
    /\ frame = None
    /\ hd[p].armed
    /\ hist[p].taken + k <= Len(hist[p].output)
Fed(p, k) ==
    LET h == hist[p]
    IN  [hd[p] EXCEPT !.blocks = Filled(@, SubSeq(h.output, h.taken + 1, h.taken + k)),
                      !.total = @ + k]
Took(p, k) == [hist[p] EXCEPT !.taken = @ + k]

\* Resumes the coroutine of the handle.
Resumes(p) ==
    /\ thr' = [thr EXCEPT ![hd[p].L] = None]
    /\ frame' = [t |-> hd[p].L, p |-> p]

\* cosocket_be_popen_read when more may come.
DataArrives(p, k) ==
    /\ Readable(p, k) /\ k > 0
    /\ LET r == Fed(p, k)
       IN  IF r.in_read_action /\ HasText(r)
           THEN /\ Set(p, [TextTaken(r) EXCEPT !.in_read_action = FALSE, !.timer = FALSE,
                                               !.inuse = FALSE],
                          TextGiven(Took(p, k), r))
                /\ Resumes(p)
           ELSE Set(p, r, Took(p, k)) /\ Stays

\* cosocket_be_popen_read when read reports the end or an error, possibly after
\* more bytes.  A reader gets the text it asked for, or nil; but after an error
\* that leaves text too short for the request it gets nothing.
StreamEnds(p, k, how) ==
    /\ Readable(p, k)
    /\ LET r == [Shut(Fed(p, k)) EXCEPT !.timer = FALSE]
           done == [r EXCEPT !.in_read_action = FALSE, !.inuse = FALSE]
           h == Pclosed(Took(p, k))
       IN  /\ CASE how = "eof" -> h.taken = Len(h.output)
                [] how = "error" -> r.total = 0
                [] OTHER -> r.total > 0
           /\ IF ~r.in_read_action
              THEN Set(p, r, h) /\ Stays
              ELSE IF HasText(r)
              THEN Set(p, TextTaken(done), TextGiven(h, r)) /\ Resumes(p)
              ELSE /\ Set(p, done, h)
                   /\ IF NothingLeft(r) \/ how = "eof" THEN Resumes(p) ELSE Stays

\* The coroutine resumed by the handler suspends elsewhere or returns.
FrameEnds ==
    /\ frame # None
    /\ frame' = None
    /\ UNCHANGED <<hd, thr, hist>>

\* It fails, lua_f_lua_uthread_resume_in_c returns LUA_ERRRUN, and the handler
\* closes the file, without asking whether it was closed before.
FrameFails ==
    /\ frame # None
    /\ frame' = None
    /\ Set(frame.p, Shut(hd[frame.p]), Pclosed([hist[frame.p] EXCEPT !.erred = TRUE]))
    /\ UNCHANGED thr

\* Mutant: the file is not closed.
Bug_NotPclosed(p) ==
    /\ frame = None
    /\ hd[p].timer
    /\ Set(p, Drop([Shut(hd[p]) EXCEPT !.timer = FALSE, !.inuse = FALSE]), Dropped(hist[p]))
    /\ thr' = [thr EXCEPT ![hd[p].L] = None]
    /\ UNCHANGED frame

\* popen_timeout_handle; its resume is not followed by anything.
Timeout(p) ==
    /\ frame = None
    /\ hd[p].timer
    /\ Set(p, Drop([Shut(hd[p]) EXCEPT !.timer = FALSE, !.inuse = FALSE]),
              Dropped(IF hd[p].open THEN Pclosed(hist[p]) ELSE hist[p]))
    /\ thr' = [thr EXCEPT ![hd[p].L] = None]
    /\ UNCHANGED frame

Next ==
    \/ \E t \in Threads, p \in Pipes :
          \/ Open(t, p)
          \/ Close(t, p)
          \/ \E len \in Lengths :
                \/ ReadBuffered(t, p, len)
                \/ ReadClosed(t, p, len)
                \/ ReadWaits(t, p, len)
                \/ ReadArmFails(t, p, len)
    \/ \E p \in Pipes :
          \/ Collect(p)
          \/ Timeout(p)
          \/ \E k \in 0 .. MaxBytes :
                \/ DataArrives(p, k)
                \/ \E how \in Ends : StreamEnds(p, k, how)
    \/ FrameEnds
    \/ FrameFails

Spec == Init /\ [][Next]_vars

\* Lua code runs between two handlers for a finite time only, and the timer
\* library fires every timer that is not deleted.
FairSpec == Spec /\ WF_vars(FrameEnds \/ FrameFails) /\ \A p \in Pipes : WF_vars(Timeout(p))

-----------------------------------------------------------------------------
(* Properties *)

NoCR(s) == SelectSeq(s, LAMBDA b : b # CR)

\* Nothing is lost, repeated or reordered on the way from the command to Lua,
\* however the output is cut into reads and blocks and whatever mixture of lines,
\* lengths and "*a" is asked for: what Lua got, with line feeds put back, and then
\* what is buffered, is what was read from the pipe; and total_buf_len is the
\* length of what is buffered.  Carriage returns, which read may cut, are left out.
\* (The types of the variables are part of it.)
NothingLost ==
    /\ TypeOK
    /\ \A p \in Pipes :
          LET r == hd[p]
              h == hist[p]
          IN  ~h.dropped =>
                /\ NoCR(h.given \o Bytes(r.blocks)) = NoCR(SubSeq(h.output, 1, h.taken))
                /\ r.total = Len(Bytes(r.blocks))

\* pclose is called once for every popen, when the handle stops being open, on
\* every path: end, error, timeout, close, collection, failure to register.  The
\* exception is a coroutine that fails inside the handler's resume; even then no
\* command outlives its handle: once collected, it has been closed.
PclosedOnce ==
    \A p \in Pipes :
        /\ hd[p].life # "absent" /\ ~hist[p].erred
              => hist[p].pclosed = IF hd[p].open THEN 0 ELSE 1
        /\ hd[p].life = "collected" => hist[p].pclosed >= 1

\* Every call of read returns.
EveryReadReturns == \A t \in Threads : thr[t] # None ~> thr[t] = None
=============================================================================
