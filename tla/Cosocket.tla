------------------------------ MODULE Cosocket ------------------------------
(***************************************************************************)
(* TCP cosockets and the pool they share: src/coevent.c with               *)
(* src/connection-pool.c.                                                  *)
(*                                                                         *)
(* A coroutine that calls connect, send or receive is suspended (parked)   *)
(* until a handler of the event loop resumes the lua_State the cosocket    *)
(* remembers.  Handlers run one at a time; between two calls of a          *)
(* coroutine, and while it is parked, any other coroutine and any handler  *)
(* may run.  Each action is one whole call or one whole handler.           *)
(*                                                                         *)
(* The library below (merry: epoll, timers, se_connect), the TLS library   *)
(* and the peer are represented by what they can report.                   *)
(***************************************************************************)
EXTENDS ConnectionPool

CONSTANTS
    Threads,   \* coroutines
    Hosts,     \* peers: address, port and ssl_sign, of which a key is made
    Hash,      \* fnv1a_32 of that, as a function on Hosts
    Secure,    \* the cosockets made with cosocket.tcp(true)
    SizeArgs,  \* pool sizes passed to connect (None: not passed) ...
    KeepArgs,  \* ... and to setkeepalive
    KeyArgs,   \* hashes of explicit pool keys passed to either (None: not passed)
    Requests,  \* receive patterns in use: "line", "len", "all"
    MaxNow,    \* bound on the clock
    Habits     \* what the network, the library and the Lua program may do
               \* beyond the ordinary; see the Habit definitions below

\* The receive or send side of epoll_ctl fails (se_be_read, se_be_write = -1).
ArmFails == "arm fails"
\* SSL_CTX_new or SSL_new fails.
SslInitFails == "ssl init fails"
\* se_connect fails at once (= -1), for instance for want of descriptors.
ConnectFailsAtOnce == "connect fails at once"
\* recv reports an error after data that was already received.
ResetAfterData == "reset after data"
\* A coroutine ends with a Lua error right after receive resumed it.
LuaErrors == "lua errors"
\* The program connects one cosocket to different hosts in turn.
ChangesHost == "changes host"
\* The program passes setkeepalive a key other than the connection's.
ChangesKey == "changes key"
\* The program calls setkeepalive on a cosocket another coroutine is parked on.
KeepsOthers == "keeps others"
\* The program uses a cosocket another coroutine is still connecting over TLS.
UsesHandshaking == "uses handshaking"

Habit == {ArmFails, SslInitFails, ConnectFailsAtOnce, ResetAfterData, LuaErrors,
          ChangesHost, ChangesKey, KeepsOthers, UsesHandshaking}

ASSUME CosocketAssumption ==
    /\ Secure \subseteq Socks
    /\ Hash \in [Hosts -> Keys]
    /\ None \notin Hosts
    /\ SizeArgs \subseteq Nat \cup {None}
    /\ KeepArgs \subseteq Nat
    /\ KeyArgs \subseteq Keys \cup {None}
    /\ Requests \subseteq {"line", "len", "all"}
    /\ MaxNow \in Nat
    /\ Habits \subseteq Habit
    /\ None \notin Threads

VARIABLES
    sk,      \* the cosocket_t objects
    cn,      \* the connections
    thr,     \* the cosocket each coroutine is parked on, or None
    frame,   \* the coroutine running inside cosocket_be_read's resume, or None
    turned   \* the loop has swept the pool since the clock last moved

vars == <<now, pool, ctr, waiting, sk, cn, thr, frame, turned>>

-----------------------------------------------------------------------------
(* State *)

\* status of cosocket_t.
Closed == 0
Connecting == 1
Connected == 2
Waiting == 3

\* What cok->read_buf holds: nothing, bytes without a line feed, or a line.
BufState == {"empty", "text", "line"}

\* host is history: the peer last asked for.  pending counts the se_connect
\* calls that have not called back.  timer is timeout_ptr # NULL.
Cok == [status : 0 .. 3, L : Threads \cup {None}, fd : Conns \cup {None},
        ptr : Conns \cup {None}, inuse : BOOLEAN, in_read_action : BOOLEAN,
        timer : BOOLEAN, pool_wait : BOOLEAN, pool_size : Nat,
        pool_key : Keys \cup {None}, buf : BufState, req : {"line", "len", "all"},
        pending : Nat, host : Hosts \cup {None}]

\* lua_co_tcp: the fields of a cosocket it returns.  The creator, which it keeps
\* in L, is not looked at before connect has put another there.  The loading of a
\* certificate, and its errors, are left out.
NewCok ==
    [status |-> Closed, L |-> None, fd |-> None, ptr |-> None, inuse |-> FALSE,
     in_read_action |-> FALSE, timer |-> FALSE, pool_wait |-> FALSE, pool_size |-> 0,
     pool_key |-> None, buf |-> "empty", req |-> "line", pending |-> 0,
     host |-> None]

\* The handler epoll will call for a connection: se_be_read, se_be_write and
\* se_be_pri replace one another.
Handler == {"none", "cosocket_be_read", "cosocket_be_write",
            "cosocket_be_ssl_connected", "cosocket_be_close"}

\* host and key are history: the peer, and the key whose counter includes the
\* connection.  data is ptr->data when that is a cosocket.
Conn == [open : BOOLEAN, func : Handler, data : Socks \cup {None},
         host : Hosts \cup {None}, key : Keys \cup {None}]

NoConn == [open |-> FALSE, func |-> "none", data |-> None, host |-> None, key |-> None]

TypeOK ==
    /\ PoolTypeOK
    /\ sk \in [Socks -> Cok]
    /\ cn \in [Conns -> Conn]
    /\ thr \in [Threads -> Socks \cup {None}]
    /\ frame \in {None} \cup [t : Threads, s : Socks]
    /\ turned \in BOOLEAN

Init ==
    /\ PoolInit
    /\ sk = [s \in Socks |-> NewCok]
    /\ cn = [c \in Conns |-> NoConn]
    /\ thr = [t \in Threads |-> None]
    /\ frame = None
    /\ turned = TRUE

-----------------------------------------------------------------------------
(* Pieces of handlers *)

Parked(t) == thr[t] # None
Larger(a, b) == IF a > b THEN a ELSE b
FreeConns == {c \in Conns : ~cn[c].open}

\* A call by coroutine t that returns without suspending it.
Call(t) ==
    /\ thr[t] = None
    /\ frame' = IF frame # None /\ frame.t = t THEN frame ELSE None
    /\ UNCHANGED thr

\* A call by t that ends in lua_yield.
Park(t, s) ==
    /\ thr[t] = None
    /\ thr' = [thr EXCEPT ![t] = s]
    /\ frame' = None

\* lua_f_lua_uthread_resume_in_c(cok->L, ...) at the end of a handler of s.
Resume(s) == thr' = [thr EXCEPT ![sk[s].L] = None]

Handled(s) == Resume(s) /\ frame' = None

\* close(c), after se_delete.
Without(C) == [c \in Conns |-> IF c \in C THEN NoConn ELSE cn[c]]

When(cond, outcome) == IF cond THEN {outcome} ELSE {}

\* _be_connect: what becomes of cosocket r on connection c, whose counter is in
\* ct.  "yields" is the return value -2.
BeConnected(r, s, c, ct) ==
    LET up == [r EXCEPT !.fd = c, !.ptr = c, !.status = Connected,
                        !.in_read_action = FALSE]
        down == [r EXCEPT !.fd = None, !.ptr = None, !.status = Closed,
                          !.in_read_action = FALSE]
        conn == [open |-> TRUE, func |-> "none", data |-> s, host |-> r.host,
                 key |-> r.pool_key]
        shaking == [conn EXCEPT !.func = "cosocket_be_ssl_connected"]
        failed(ct2) == [cok |-> down, conn |-> NoConn, ct |-> ct2, ret |-> "returns"]
    IN  {[cok |-> [up EXCEPT !.inuse = FALSE], conn |-> conn, ct |-> ct, ret |-> "returns"]}
        \cup When(s \in Secure, [cok |-> [up EXCEPT !.timer = TRUE], conn |-> shaking,
                                 ct |-> ct, ret |-> "yields"])
        \cup When(s \in Secure /\ SslInitFails \in Habits,
                  failed(Operate(ct, r.pool_key, -1)))
        \cup When(s \in Secure /\ ArmFails \in Habits, failed(ct))

\* What remains in the buffer when a request has been served from it.
Remainder(buf) == IF buf = "line" THEN BufState ELSE {"empty", "text"}

\* lua_co_read_: the number of values pushed and the buffer left behind.  A
\* line needs a line feed; a length is met when that many bytes are there, or
\* with what there is once the socket is closed.
ReadOut(r) ==
    LET short == [rt |-> 0, buf |-> r.buf]
        served(B) == {[rt |-> 1, buf |-> b] : b \in B}
    IN  CASE r.buf = "empty" -> {[rt |-> IF r.status = Closed THEN 2 ELSE 0, buf |-> "empty"]}
          [] r.buf # "empty" /\ r.req = "line" ->
                IF r.buf = "line" THEN served(BufState) ELSE {short}
          [] r.buf # "empty" /\ r.req = "all" -> served({"empty"})
          [] r.buf # "empty" /\ r.req = "len" ->
                served(Remainder(r.buf))
                \cup (IF r.status = Closed THEN {} ELSE {short})

\* The buffer after recv has appended to it.
Received(buf, d) ==
    IF d = "none" THEN buf
    ELSE IF buf = "line" \/ d = "line" THEN "line" ELSE "text"

\* _lua_co_close on cosocket s with fields r and counters ct: the cosocket's
\* fields afterwards, and everything else it changes.
ClosedCok(r) ==
    [r EXCEPT !.timer = FALSE, !.pool_wait = FALSE, !.status = Closed, !.buf = "empty",
              !.fd = None, !.ptr = IF r.fd = None THEN r.ptr ELSE None]

Keeps(r) == r.fd # None /\ r.pool_size > 0 /\ ~PoolFull(r.pool_key, r.pool_size)

CloseRest(s, r, ct) ==
    /\ waiting' = IF r.pool_wait THEN WaitingWithout(s) ELSE waiting
    /\ \/ /\ r.fd = None
          /\ ctr' = ct
          /\ UNCHANGED <<pool, cn>>
       \/ /\ Keeps(r)
          /\ pool' = PoolWith(r.pool_key, r.fd)
          /\ cn' = [cn EXCEPT ![r.fd].func = "cosocket_be_close", ![r.fd].data = None]
          /\ ctr' = ct
       \/ /\ r.fd # None
          /\ Keeps(r) => ArmFails \in Habits   \* cosocket_be_close at once
          /\ cn' = Without({r.fd})
          /\ ctr' = Operate(ct, r.pool_key, -1)
          /\ UNCHANGED pool

-----------------------------------------------------------------------------
(* connect *)

\* Mutant of Asked: the cosocket does not remember who called.
Bug_NoCaller(t, s, h, size, key) ==
    LET r == sk[s]
        pool_size == IF size = None THEN r.pool_size ELSE size
        pool_key == IF key # None /\ pool_size > 0 THEN key
                    ELSE IF r.pool_key = None THEN Hash[h] ELSE r.pool_key
        L == IF r.L = None THEN t ELSE r.L
    IN  [r EXCEPT !.status = Connecting, !.L = L, !.buf = "empty", !.host = h,
                  !.pool_key = pool_key, !.pool_size = Larger(pool_size, ctr[pool_key].size)]

\* The cosocket's fields when lua_co_connect has read its arguments.  A key is
\* made from the host only if the cosocket has none from an earlier connect.
Asked(t, s, h, size, key) ==
    LET r == sk[s]
        pool_size == IF size = None THEN r.pool_size ELSE size
        pool_key == IF key # None /\ pool_size > 0 THEN key
                    ELSE IF r.pool_key = None THEN Hash[h] ELSE r.pool_key
    IN  [r EXCEPT !.status = Connecting, !.L = t, !.buf = "empty", !.host = h,
                  !.pool_key = pool_key, !.pool_size = Larger(pool_size, ctr[pool_key].size)]

MayConnect(t, s) ==
    /\ ~Parked(t)
    /\ sk[s].status = Closed
    /\ ~sk[s].inuse

\* The pool has an idle connection.
Reuse(t, s, a, c) ==
    /\ c # None
    /\ sk' = [sk EXCEPT ![s] = [a EXCEPT !.status = Connected, !.fd = c, !.ptr = c]]
    /\ cn' = [Without(SweptConns) EXCEPT ![c].func = "none", ![c].data = s]
    /\ pool' = PoolWithout(a.pool_key)
    /\ ctr' = SweptCtr
    /\ turned' = TRUE
    /\ Call(t)
    /\ UNCHANGED <<now, waiting>>

ConnectReuses(t, s, a) == a.pool_size > 0 /\ Reuse(t, s, a, Found(a.pool_key))

\* The pool is full: the coroutine waits for a connection to be given back.
ConnectWaits(t, s, a) ==
    /\ a.pool_size > 0 /\ Found(a.pool_key) = None
    /\ MustWait(a.pool_key, a.pool_size, SweptCtr)
    /\ sk' = [sk EXCEPT ![s] = [a EXCEPT !.status = Waiting, !.pool_wait = TRUE,
                                        !.timer = TRUE, !.inuse = TRUE, !.ptr = None]]
    /\ cn' = Without(SweptConns)
    /\ pool' = SweptPool
    /\ ctr' = SweptCtr
    /\ waiting' = WaitingWith(a.pool_key, s)
    /\ turned' = TRUE
    /\ Park(t, s)
    /\ UNCHANGED now

\* Otherwise a new connection is opened.  se_connect either calls be_connect
\* back later, or is done, or fails, before it returns.
Open(t, s, a, ct, conns) ==
    /\ \/ /\ sk' = [sk EXCEPT ![s] = [a EXCEPT !.pending = @ + 1]]
          /\ cn' = conns
          /\ ctr' = Operate(ct, a.pool_key, 1)
          /\ Park(t, s)
       \/ \E c \in FreeConns : \E o \in BeConnected(a, s, c, Operate(ct, a.pool_key, 1)) :
          /\ sk' = [sk EXCEPT ![s] = o.cok]
          /\ cn' = [conns EXCEPT ![c] = o.conn]
          /\ ctr' = o.ct
          /\ IF o.ret = "yields" THEN Park(t, s) ELSE Call(t)
       \/ /\ ConnectFailsAtOnce \in Habits
          /\ sk' = [sk EXCEPT ![s] = a]
          /\ cn' = conns
          /\ ctr' = ct
          /\ Call(t)
    /\ UNCHANGED <<now, waiting>>

ConnectOpens(t, s, a) ==
    \/ /\ a.pool_size > 0 /\ Found(a.pool_key) = None
       /\ ~MustWait(a.pool_key, a.pool_size, SweptCtr)
       /\ pool' = SweptPool
       /\ turned' = TRUE
       /\ Open(t, s, [a EXCEPT !.ptr = None], SweptCtr, Without(SweptConns))
    \/ /\ ~(a.pool_size > 0)
       /\ Open(t, s, a, ctr, cn)
       /\ UNCHANGED <<pool, turned>>

Connect(t, s, h, size, key) ==
    /\ MayConnect(t, s)
    /\ \E a \in {Asked(t, s, h, size, key)} :
          ConnectReuses(t, s, a) \/ ConnectWaits(t, s, a) \/ ConnectOpens(t, s, a)

\* Mutant of ConnectFailed: the status stays that of a connect under way.
Bug_StatusKept(s) ==
    /\ sk[s].pending > 0
    /\ sk' = [sk EXCEPT ![s].pending = @ - 1, ![s].inuse = FALSE]
    /\ ctr' = Operate(ctr, sk[s].pool_key, -1)
    /\ Handled(s)
    /\ UNCHANGED <<now, pool, waiting, cn, turned>>

\* be_connect with fd < 0: no address, refused, or timed out.
ConnectFailed(s) ==
    /\ sk[s].pending > 0
    /\ sk' = [sk EXCEPT ![s].pending = @ - 1, ![s].status = Closed, ![s].inuse = FALSE]
    /\ ctr' = Operate(ctr, sk[s].pool_key, -1)
    /\ Handled(s)
    /\ UNCHANGED <<now, pool, waiting, cn, turned>>

\* be_connect with a connection.
ConnectDone(s) ==
    /\ sk[s].pending > 0
    /\ \E c \in FreeConns :
       \E o \in BeConnected([sk[s] EXCEPT !.pending = @ - 1], s, c, ctr) :
          /\ sk' = [sk EXCEPT ![s] = o.cok]
          /\ cn' = [cn EXCEPT ![c] = o.conn]
          /\ ctr' = o.ct
          /\ IF o.ret = "yields" THEN UNCHANGED thr ELSE Resume(s)
    /\ frame' = None
    /\ UNCHANGED <<now, pool, waiting, turned>>

\* cosocket_be_ssl_connected, when SSL_connect returns anything but 0.
SslConnected(s) ==
    LET c == sk[s].ptr IN
    /\ c # None
    /\ cn[c].func = "cosocket_be_ssl_connected" /\ cn[c].data = s
    /\ sk' = [sk EXCEPT ![s].timer = FALSE, ![s].inuse = FALSE]
    /\ cn' = [cn EXCEPT ![c].func = "none"]
    /\ Handled(s)
    /\ UNCHANGED <<poolVars, turned>>

\* Mutants of Timeout: the descriptor stays open; the cosocket stays in the queue.
Bug_NotClosed(s) ==
    LET r == sk[s] IN
    /\ r.timer
    /\ waiting' = IF r.pool_wait THEN WaitingWithout(s) ELSE waiting
    /\ ctr' = IF r.fd # None THEN Operate(ctr, r.pool_key, -1) ELSE ctr
    /\ sk' = [sk EXCEPT ![s] = [r EXCEPT !.timer = FALSE, !.pool_wait = FALSE, !.ptr = None,
                                        !.fd = None, !.status = Closed, !.buf = "empty",
                                        !.inuse = FALSE]]
    /\ Handled(s)
    /\ UNCHANGED <<now, pool, cn, turned>>
Bug_StaysQueued(s) ==
    LET r == sk[s] IN
    /\ r.timer
    /\ ctr' = IF r.fd # None THEN Operate(ctr, r.pool_key, -1) ELSE ctr
    /\ cn' = Without({r.fd})
    /\ sk' = [sk EXCEPT ![s] = [r EXCEPT !.timer = FALSE, !.pool_wait = FALSE, !.ptr = None,
                                        !.fd = None, !.status = Closed, !.buf = "empty",
                                        !.inuse = FALSE]]
    /\ Handled(s)
    /\ UNCHANGED <<now, pool, waiting, turned>>

\* timeout_handle.
Timeout(s) ==
    LET r == sk[s] IN
    /\ r.timer
    /\ waiting' = IF r.pool_wait THEN WaitingWithout(s) ELSE waiting
    /\ ctr' = IF r.fd # None THEN Operate(ctr, r.pool_key, -1) ELSE ctr
    /\ cn' = Without({r.fd})
    /\ sk' = [sk EXCEPT ![s] = [r EXCEPT !.timer = FALSE, !.pool_wait = FALSE, !.ptr = None,
                                        !.fd = None, !.status = Closed, !.buf = "empty",
                                        !.inuse = FALSE]]
    /\ Handled(s)
    /\ UNCHANGED <<now, pool, turned>>

-----------------------------------------------------------------------------
(* send *)

MaySend(t, s) ==
    /\ ~Parked(t)
    /\ sk[s].status = Connected /\ sk[s].fd # None /\ sk[s].ptr # None
    /\ ~sk[s].inuse

\* The connection fails under a send: closed and counted out.
Broken(r) == [r EXCEPT !.fd = None, !.ptr = None, !.status = Closed,
                       !.in_read_action = FALSE, !.timer = FALSE]

\* lua_co_send of nothing: refused, but cok->L is already the caller.
SendEmpty(t, s) ==
    /\ MaySend(t, s)
    /\ sk' = [sk EXCEPT ![s].L = t]
    /\ Call(t)
    /\ UNCHANGED <<poolVars, cn, turned>>

\* lua_co_send when the kernel takes everything.
SendAll(t, s) ==
    /\ MaySend(t, s)
    /\ sk' = [sk EXCEPT ![s].L = t, ![s].in_read_action = FALSE,
                        ![s].timer = FALSE]
    /\ Call(t)
    /\ UNCHANGED <<poolVars, cn, turned>>

\* lua_co_send when send reports an error.
SendBreaks(t, s) ==
    /\ MaySend(t, s)
    /\ sk' = [sk EXCEPT ![s] = [Broken(sk[s]) EXCEPT !.L = t]]
    /\ cn' = Without({sk[s].fd})
    /\ ctr' = Operate(ctr, sk[s].pool_key, -1)
    /\ Call(t)
    /\ UNCHANGED <<now, pool, waiting, turned>>

\* lua_co_send when the kernel takes a part: the rest is left to
\* cosocket_be_write.  If that cannot be armed the connection is closed; the
\* counter keeps it.
SendPart(t, s) ==
    /\ MaySend(t, s)
    /\ \/ /\ sk' = [sk EXCEPT ![s].L = t, ![s].in_read_action = FALSE,
                              ![s].timer = TRUE, ![s].inuse = TRUE]
          /\ cn' = [cn EXCEPT ![sk[s].ptr].func = "cosocket_be_write"]
          /\ Park(t, s)
       \/ /\ ArmFails \in Habits
          /\ sk' = [sk EXCEPT ![s] = [Broken(sk[s]) EXCEPT !.L = t, !.timer = sk[s].timer]]
          /\ cn' = Without({sk[s].fd})
          /\ Call(t)
    /\ UNCHANGED <<poolVars, turned>>

Send(t, s) == SendEmpty(t, s) \/ SendAll(t, s) \/ SendBreaks(t, s) \/ SendPart(t, s)

\* Mutant of Written: the timer goes on running.
Bug_TimerLeft(s) ==
    LET c == sk[s].ptr IN
    /\ c # None
    /\ cn[c].func = "cosocket_be_write" /\ cn[c].data = s
    /\ sk' = [sk EXCEPT ![s].in_read_action = FALSE, ![s].inuse = FALSE]
    /\ cn' = [cn EXCEPT ![c].func = "none"]
    /\ Handled(s)
    /\ UNCHANGED <<poolVars, turned>>

\* cosocket_be_write, when the rest has been sent or send reports an error.
Written(s) ==
    LET c == sk[s].ptr IN
    /\ c # None
    /\ cn[c].func = "cosocket_be_write" /\ cn[c].data = s
    /\ \/ /\ sk' = [sk EXCEPT ![s].in_read_action = FALSE, ![s].timer = FALSE,
                              ![s].inuse = FALSE]
          /\ cn' = [cn EXCEPT ![c].func = IF sk[s].inuse THEN "none" ELSE @]
          /\ UNCHANGED ctr
       \/ /\ sk' = [sk EXCEPT ![s] = [Broken(sk[s]) EXCEPT !.inuse = FALSE]]
          /\ cn' = Without({sk[s].fd})
          /\ ctr' = Operate(ctr, sk[s].pool_key, -1)
    /\ IF sk[s].inuse THEN Resume(s) ELSE UNCHANGED thr
    /\ frame' = None
    /\ UNCHANGED <<now, pool, waiting, turned>>

-----------------------------------------------------------------------------
(* receive *)

\* lua_co_read.  It is served from the buffer, or finds the socket closed, or
\* arms cosocket_be_read and suspends the caller.  If arming fails only the
\* descriptor is closed.
Read(t, s, r) ==
    /\ \/ r.status = Connected /\ r.fd # None /\ r.ptr # None
       \/ r.buf # "empty"
    /\ \E o \in ReadOut(r) :
       \/ /\ o.rt > 0 \/ r.fd = None
          /\ sk' = [sk EXCEPT ![s] = [r EXCEPT !.buf = o.buf]]
          /\ Call(t)
          /\ UNCHANGED cn
       \/ /\ o.rt = 0 /\ r.fd # None
          /\ sk' = [sk EXCEPT ![s] = [r EXCEPT !.in_read_action = TRUE, !.timer = TRUE,
                                              !.inuse = TRUE]]
          /\ cn' = [cn EXCEPT ![r.ptr].func =
                                IF r.in_read_action THEN @ ELSE "cosocket_be_read"]
          /\ Park(t, s)
       \/ /\ o.rt = 0 /\ r.fd # None /\ ~r.in_read_action
          /\ ArmFails \in Habits
          /\ sk' = [sk EXCEPT ![s] = [r EXCEPT !.in_read_action = TRUE, !.fd = None]]
          /\ cn' = Without({r.fd})
          /\ Call(t)
    /\ UNCHANGED <<poolVars, turned>>

Receive(t, s, req) ==
    /\ ~Parked(t)
    /\ ~sk[s].inuse
    /\ Read(t, s, [sk[s] EXCEPT !.L = t, !.req = req])

MayRead(s) ==
    /\ sk[s].ptr # None
    /\ cn[sk[s].ptr].func = "cosocket_be_read" /\ cn[sk[s].ptr].data = s

\* cosocket_be_read's resume: the handler looks at how the coroutine returns,
\* which matters only if it may return with an error.
ReadReturns(s) ==
    /\ Resume(s)
    /\ frame' = IF LuaErrors \in Habits THEN [t |-> sk[s].L, s |-> s] ELSE None

\* cosocket_be_read with data, and more may follow.
Arrive(s, r) ==
    \/ /\ ~r.in_read_action
       /\ sk' = [sk EXCEPT ![s] = r]
       /\ frame' = None
       /\ UNCHANGED thr
    \/ /\ r.in_read_action
       /\ \E o \in ReadOut(r) :
             IF o.rt > 0
             THEN /\ sk' = [sk EXCEPT ![s] = [r EXCEPT !.buf = o.buf, !.in_read_action = FALSE,
                                                      !.timer = FALSE, !.inuse = FALSE]]
                  /\ ReadReturns(s)
             ELSE /\ sk' = [sk EXCEPT ![s] = r]
                  /\ frame' = None
                  /\ UNCHANGED thr

DataArrives(s, d) ==
    /\ MayRead(s)
    /\ d # "none"
    /\ Arrive(s, [sk[s] EXCEPT !.buf = Received(sk[s].buf, d)])
    /\ UNCHANGED <<poolVars, cn, turned>>

\* Mutant of StreamEnds: the coroutine is resumed only if there is something to
\* return, at the end of the stream too.
Bug_SilentEnd(s, d, how) ==
    LET r == [sk[s] EXCEPT !.buf = Received(sk[s].buf, d), !.timer = FALSE, !.status = Closed,
                           !.fd = None, !.ptr = None]
    IN
    /\ MayRead(s)
    /\ cn' = Without({sk[s].fd})
    /\ ctr' = Operate(ctr, r.pool_key, -1)
    /\ \E o \in ReadOut(r) :
          /\ sk' = [sk EXCEPT ![s] = [r EXCEPT !.buf = o.buf, !.in_read_action = FALSE,
                                              !.inuse = FALSE]]
          /\ IF r.in_read_action /\ o.rt = 1 THEN Resume(s) ELSE UNCHANGED thr
    /\ frame' = None
    /\ UNCHANGED <<now, pool, waiting, turned>>

\* cosocket_be_read that meets the end of the stream (how = "eof") or an error,
\* possibly after some data.  After an error the coroutine is resumed only if
\* lua_co_read_ has something to return.
EndWith(s, r, how) ==
    \/ /\ ~r.in_read_action
       /\ sk' = [sk EXCEPT ![s] = r]
       /\ frame' = None
       /\ UNCHANGED thr
    \/ /\ r.in_read_action
       /\ \E o \in ReadOut(r) :
             /\ sk' = [sk EXCEPT ![s] = [r EXCEPT !.buf = o.buf, !.in_read_action = FALSE,
                                                 !.inuse = FALSE]]
             /\ IF o.rt > 0 \/ how = "eof" THEN ReadReturns(s)
                ELSE frame' = None /\ UNCHANGED thr

StreamEnds(s, d, how) ==
    /\ MayRead(s)
    /\ EndWith(s, [sk[s] EXCEPT !.buf = Received(sk[s].buf, d), !.timer = FALSE, !.status = Closed,
                                !.fd = None, !.ptr = None], how)
    /\ cn' = Without({sk[s].fd})
    /\ ctr' = Operate(ctr, sk[s].pool_key, -1)
    /\ UNCHANGED <<now, pool, waiting, turned>>

\* The end of cosocket_be_read when the coroutine it resumed ends with a Lua
\* error: the connection is closed and counted out, whatever state it is in.
LuaError(t) ==
    /\ LuaErrors \in Habits
    /\ ~Parked(t)
    /\ frame # None /\ frame.t = t
    /\ LET s == frame.s IN
       /\ sk' = [sk EXCEPT ![s].ptr = None, ![s].fd = None, ![s].status = Closed]
       /\ cn' = Without({sk[s].fd})
       /\ ctr' = Operate(ctr, sk[s].pool_key, -1)
    /\ frame' = None
    /\ UNCHANGED <<now, pool, waiting, thr, turned>>

-----------------------------------------------------------------------------
(* close, setkeepalive, and the collector *)

\* lua_co_close.
Close(t, s) ==
    /\ ~Parked(t)
    /\ sk[s].status = Connected /\ ~sk[s].inuse
    /\ sk' = [sk EXCEPT ![s] = ClosedCok(sk[s])]
    /\ CloseRest(s, sk[s], ctr)
    /\ Call(t)
    /\ UNCHANGED <<now, turned>>

\* lua_co_setkeepalive.  The size is recorded under the cosocket's key as it
\* was; the key may then change; nothing is asked about status or inuse.
Keep(t, s, r, ct) ==
    /\ sk' = [sk EXCEPT ![s] = ClosedCok(r)]
    /\ CloseRest(s, r, ct)
    /\ Call(t)
    /\ UNCHANGED <<now, turned>>

Sized(key, size) == IF key = None THEN ctr ELSE [ctr EXCEPT ![key].size = Larger(@, size)]

SetKeepalive(t, s, size, key) ==
    /\ ~Parked(t)
    /\ Keep(t, s, [sk[s] EXCEPT !.pool_size = size, !.pool_key = IF key = None THEN @ ELSE key],
            Sized(sk[s].pool_key, size))

\* lua_co_gc: the cosocket is garbage (a parked coroutine would hold it), and
\* its place is taken by a new one.
Collect(s) ==
    /\ \A t \in Threads : thr[t] # s
    /\ sk' = [sk EXCEPT ![s] = NewCok]
    /\ CloseRest(s, sk[s], ctr)
    /\ frame' = None
    /\ UNCHANGED <<now, thr, turned>>

-----------------------------------------------------------------------------
(* The pool's own events *)

\* Mutant of IdleReadable: the connection is not counted out.
Bug_NotCountedOut(c) ==
    /\ c \in IdleConns
    /\ cn[c].func = "cosocket_be_close"
    /\ pool' = PoolDropping(c)
    /\ cn' = Without({c})
    /\ frame' = None
    /\ UNCHANGED <<now, ctr, waiting, sk, thr, turned>>

\* cosocket_be_close: an idle connection has become readable.
IdleReadable(c) ==
    /\ c \in IdleConns
    /\ cn[c].func = "cosocket_be_close"
    /\ pool' = PoolDropping(c)
    /\ ctr' = Operate(ctr, KeyOfIdle(c), -1)
    /\ cn' = Without({c})
    /\ frame' = None
    /\ UNCHANGED <<now, waiting, sk, thr, turned>>

\* The buckets whose first waiter can be served.
Servable == {b \in BucketSet : waiting[b] # <<>> /\ Found(sk[Head(waiting[b])].pool_key) # None}

\* get_connection_in_pool(_loop_fd, 0, NULL), once per turn of the loop: a sweep,
\* then resume_in_waiting_get_connection, which serves the head of the first
\* bucket it can and no other.
Turn ==
    /\ turned' = TRUE
    /\ ctr' = SweptCtr
    /\ \/ /\ Servable = {}
          /\ pool' = SweptPool
          /\ cn' = Without(SweptConns)
          /\ UNCHANGED <<waiting, sk, thr>>
       \/ \E b \in Servable :
          LET s == Head(waiting[b])
              c == Found(sk[s].pool_key)
          IN
          /\ \A b2 \in Servable : b <= b2
          /\ pool' = PoolWithout(sk[s].pool_key)
          /\ cn' = [Without(SweptConns) EXCEPT ![c].func = "none", ![c].data = s]
          /\ waiting' = [waiting EXCEPT ![b] = Tail(@)]
          /\ sk' = [sk EXCEPT ![s] = [@ EXCEPT !.pool_wait = FALSE, !.status = Connected,
                                              !.inuse = FALSE, !.in_read_action = FALSE,
                                              !.fd = c, !.ptr = c, !.timer = FALSE]]
          /\ Resume(s)
    /\ frame' = None
    /\ UNCHANGED now

\* Time passes.  The loop turns every 10 milliseconds, so at least once in each
\* unit of time.
TimePasses ==
    /\ turned
    /\ now < MaxNow
    /\ now' = now + 1
    /\ turned' = FALSE
    /\ frame' = None
    /\ UNCHANGED <<pool, ctr, waiting, sk, cn, thr>>

-----------------------------------------------------------------------------
(* What the program and the network do *)

\* The program leaves a cosocket alone while another coroutine is in its TLS
\* handshake; connects a cosocket to one host only; gives a connection back under
\* the key it has, and only when nobody is suspended on it.  See Habits.
LeftAlone(s) ==
    \/ UsesHandshaking \in Habits
    \/ \A c \in Conns : sk[s].fd = c => cn[c].func # "cosocket_be_ssl_connected"
SameHost(s, h) == ChangesHost \in Habits \/ sk[s].host \in {None, h}
SameKey(s, key) == ChangesKey \in Habits \/ key \in {None, sk[s].pool_key}
Unused(s) == KeepsOthers \in Habits \/ \A t \in Threads : thr[t] # s

\* recv reports an error before any data that has not been asked for yet.
Prompt(s, d, how) ==
    ResetAfterData \in Habits \/ how = "eof" \/ Received(sk[s].buf, d) = "empty"

Program ==
    \E t \in Threads :
        \/ LuaError(t)
        \/ \E s \in Socks :
            \/ \E h \in Hosts, size \in SizeArgs, key \in KeyArgs :
                  SameHost(s, h) /\ Connect(t, s, h, size, key)
            \/ LeftAlone(s) /\ Send(t, s)
            \/ LeftAlone(s) /\ \E req \in Requests : Receive(t, s, req)
            \/ LeftAlone(s) /\ Close(t, s)
            \/ \E size \in KeepArgs, key \in KeyArgs :
                  SameKey(s, key) /\ Unused(s) /\ SetKeepalive(t, s, size, key)

Events(s) ==
    \/ ConnectFailed(s) \/ ConnectDone(s)
    \/ SslConnected(s)
    \/ Written(s)
    \/ \E d \in {"text", "line"} : DataArrives(s, d)
    \/ \E d \in {"none", "text", "line"}, how \in {"eof", "error"} :
          Prompt(s, d, how) /\ StreamEnds(s, d, how)
    \/ Timeout(s)

Next ==
    \/ Program
    \/ \E s \in Socks : Events(s) \/ Collect(s)
    \/ \E c \in Conns : IdleReadable(c)
    \/ Turn
    \/ TimePasses

Spec == Init /\ [][Next]_vars

-----------------------------------------------------------------------------
(* Properties *)

\* No connection is in two hands: not owned by two cosockets, not owned and in
\* the pool, not in the pool twice.
Places(c) ==
    {<<s>> : s \in {x \in Socks : sk[x].fd = c}}
    \cup {p \in Generations \X BucketSet \X (1 .. Cardinality(Conns)) :
            /\ p[3] <= Len(pool[p[1]][p[2]])
            /\ pool[p[1]][p[2]][p[3]].conn = c}
OneHolder == \A c \in Conns : Cardinality(Places(c)) <= 1

\* A connection is open exactly as long as a cosocket or the pool holds it.
NoneLeaked == \A c \in Conns : cn[c].open <=> Places(c) # {}

\* The counter of a key is the number of connections open or being opened under
\* it.  (The types of the variables are part of it.)
Under(k) ==
    Cardinality({c \in Conns : cn[c].open /\ cn[c].key = k})
    + Cardinality(UNION {{s} \X (1 .. sk[s].pending) : s \in {x \in Socks : sk[x].pool_key = k}})
CountExact == TypeOK /\ \A k \in Keys : ctr[k].count = Under(k)

\* A cosocket waits for the pool exactly as long as it is in the queue of its
\* key's bucket, once, with its timer running.
QueueExact ==
    \A s \in Socks :
        LET places == {p \in BucketSet \X (1 .. Cardinality(Socks)) :
                          p[2] <= Len(waiting[p[1]]) /\ waiting[p[1]][p[2]] = s}
        IN  IF sk[s].status = Waiting
            THEN /\ sk[s].pool_wait /\ sk[s].timer
                 /\ \E i \in 1 .. Cardinality(Socks) : places = {<<Bucket[sk[s].pool_key], i>>}
            ELSE ~sk[s].pool_wait /\ places = {}

\* Something will resume every parked coroutine: a timer or a connect call of
\* the cosocket it is parked on, and that cosocket remembers this coroutine.
NoneForgotten ==
    \A t \in Threads : Parked(t) =>
        LET r == sk[thr[t]] IN r.L = t /\ (r.timer \/ r.pending > 0)

\* What may resume a coroutine finds it parked there.
NoneDisturbed ==
    \A s \in Socks :
        (sk[s].timer \/ sk[s].pending > 0 \/ (MayRead(s) /\ sk[s].in_read_action))
            => sk[s].L # None /\ thr[sk[s].L] = s

\* No cosocket is left in a state in which connect refuses it for good: one whose
\* status is not 0 has a connection, or a coroutine is in the middle of connecting
\* it, across failures, timeouts and the pool (lua_co_connect, be_connect).
NoneStuck ==
    \A s \in Socks :
        sk[s].status # Closed => sk[s].fd # None \/ \E t \in Threads : thr[t] = s

\* A cosocket holds a connection of its own pool key that leads to the host it was
\* last asked to connect to, also when the connection comes from a list in which
\* get_connection_in_pool finds connections of other keys too.
RightPeer ==
    \A s \in Socks : sk[s].fd # None =>
        LET c == cn[sk[s].fd] IN c.key = sk[s].pool_key /\ c.host = sk[s].host

AllEntries == UNION {{pool[g][b][i] : i \in DOMAIN pool[g][b]} : g \in Generations, b \in BucketSet}

\* Once the loop has turned, no connection has been idle for longer than
\* connect_pool_ttl, the 60 seconds of the repository's README.
IdleOnePeriod == turned => \A e \in AllEntries : now - e.since <= TTL

\* An idle connection is kept for at least connect_pool_ttl: get_connection_in_pool
\* closes none earlier, wherever in a period it was put into the pool.
KeptAlive ==
    [][~turned /\ turned' =>
          \A e \in AllEntries : cn'[e.conn].open \/ now - e.since > TTL]_vars

\* Once the loop has turned, no connection has been idle for two periods.
IdleTwoPeriods == turned => \A e \in AllEntries : now - e.since < 2 * TTL

\* A connect that has a pool size opens a connection only if the key's
\* connections, the new one included, then number no more than that size shared
\* out over the processes; one is always allowed.
Admits(s, k) ==
    /\ sk[s].status = Closed /\ sk'[s].status \in {Connecting, Connected}
    /\ sk'[s].pool_size > 0 /\ sk'[s].pool_key = k
    /\ Under(k)' > Under(k)
WithinLimit ==
    [][\A s \in Socks, k \in Keys :
          Admits(s, k) => Under(k)' <= Larger(1, sk'[s].pool_size \div ProcessCount)]_vars

\* The timer library fires every timer that is not deleted, and se_connect calls
\* back in the end, if only to report its own timeout.
FairSpec ==
    /\ Spec
    /\ \A s \in Socks : WF_vars(Timeout(s)) /\ WF_vars(ConnectFailed(s) \/ ConnectDone(s))

\* Every call of connect, send and receive returns.
EveryCallReturns == \A t \in Threads : Parked(t) ~> ~Parked(t)
====
