------------------------------- MODULE Clients -------------------------------
(***************************************************************************)
(* A client of src/redis.lua, memcached.lua, beanstalkd.lua or mysql.lua,  *)
(* the cosocket it calls, the pool its connections come from and go to,    *)
(* and the server at the other end.                                        *)
(*                                                                         *)
(* Each library sends a request and then reads, in one coroutine, what it  *)
(* takes for the reply; nothing on the connection says which request a     *)
(* reply belongs to.  The cosocket is abstracted to what Cosocket shows of *)
(* it: a timeout or an error closes the connection, what has arrived can   *)
(* be read after the peer's end, close gives the connection to the pool if *)
(* connect was given a pool size, and setkeepalive always.  The server     *)
(* answers requests in order, and may close at any time.                   *)
(***************************************************************************)
EXTENDS Replies, FiniteSets

CONSTANTS
    Budgets,    \* bound: requests and connects of a behaviour, for each library
    MaxIn       \* bound: messages are published while fewer parts are unread

ASSUME ClientsAssumption == MaxIn \in Nat

R == INSTANCE Redis

M == INSTANCE Memcached

B == INSTANCE Beanstalkd

Q == INSTANCE Mysql

VARIABLES
    lib,      \* the library: constant
    conn,     \* the connection: [where, in, cut, pend, subs, login, dirty]
    sock,     \* the cosocket: [up, pools, reused]
    self,     \* the fields of the client: [subscribed, reqs, host, state, last]
    call,     \* the call that runs: [pc, name, reads, for, claims, own, whole, heard]
    out,      \* what the last call returned: [how, claims, own, whole]
    left      \* requests and connects left: [requests, connects]

vars == <<lib, conn, sock, self, call, out, left>>

(***************************************************************************)
(* in: what the server sent and nobody has read; cut: and then it closed;  *)
(* pend: requests it has not answered; subs, login: it takes the           *)
(* connection for subscribed, or waits for a login.  dirty is not in the   *)
(* code: the connection was given away with something to come (see         *)
(* RightReply).  One client has one connection, in use or idle.            *)
(***************************************************************************)
Unused ==
    [where |-> "none", in |-> <<>>, cut |-> FALSE, pend |-> <<>>, subs |-> FALSE,
     login |-> FALSE, dirty |-> FALSE]

Idle ==
    [pc |-> "idle", name |-> "", reads |-> <<>>, for |-> <<>>, claims |-> FALSE, own |-> TRUE,
     whole |-> TRUE, heard |-> {}]

Nothing == [how |-> "nothing", claims |-> FALSE, own |-> TRUE, whole |-> TRUE]

NoPipeline == [open |-> FALSE, cmds |-> <<>>]

Init ==
    /\ \E b \in Budgets : lib = b.lib /\ left = [requests |-> b.requests, connects |-> b.connects]
    /\ conn = Unused
    /\ sock = [up |-> FALSE, pools |-> FALSE, reused |-> 0]
    /\ self = [subscribed |-> FALSE, reqs |-> NoPipeline, host |-> FALSE, state |-> "nil", last |-> 0]
    /\ call = Idle
    /\ out = Nothing

-----------------------------------------------------------------------------
(***************************************************************************)
(* The server and the network: external.                                   *)
(***************************************************************************)
Answers(name) ==
    CASE lib = "redis"      -> R!RedisAnswers(name)
      [] lib = "memcached"  -> M!MemcachedAnswers(name)
      [] lib = "beanstalkd" -> B!BeanstalkdAnswers(name)
      [] OTHER              -> Q!MysqlAnswers(name)

(***************************************************************************)
(* The first thing a MySQL server takes from a client is its login; one it *)
(* does not accept ends the connection.                                    *)
(***************************************************************************)
ServeLogin(req) ==
    \E a \in IF req.name = "login" THEN Answers("login") ELSE {<<Q!Packet(Q!Err)>>} :
        conn' = [conn EXCEPT !.in = @ \o For(req.id, a), !.pend = Tail(@), !.login = FALSE,
                             !.cut = a # <<Q!Packet(Q!Ok)>>]

ServeRequest(req) ==
    \E a \in IF conn.subs /\ req.name \notin {"subscribe", "unsubscribe"} THEN {<<Word("-")>>}
             ELSE Answers(req.name) :
        conn' = [conn EXCEPT !.in = @ \o For(req.id, a), !.pend = Tail(@),
                             !.subs = (@ \/ req.name = "subscribe") /\ req.name # "unsubscribe"]

Serve ==
    /\ conn.where # "none" /\ ~conn.cut /\ conn.pend # <<>>
    /\ \/ Head(conn.pend).name = "quit" /\ conn' = [conn EXCEPT !.cut = TRUE, !.pend = <<>>]
       \/ Head(conn.pend).name # "quit" /\ conn.login /\ ServeLogin(Head(conn.pend))
       \/ Head(conn.pend).name # "quit" /\ ~conn.login /\ ServeRequest(Head(conn.pend))
    /\ UNCHANGED <<lib, sock, self, call, out, left>>

Publish ==
    /\ conn.subs /\ ~conn.cut /\ Len(conn.in) < MaxIn
    /\ conn' = [conn EXCEPT !.in = @ \o R!Channels("message")]
    /\ UNCHANGED <<lib, sock, self, call, out, left>>

(***************************************************************************)
(* The connection breaks off, possibly inside a body or a packet.  A line  *)
(* without its end is never read.                                          *)
(***************************************************************************)
BrokenOff(in, k) ==
    {SubSeq(in, 1, k)} \union
        IF k < Len(in) /\ (lib = "mysql" \/ in[k + 1].k = "body")
        THEN {Append(SubSeq(in, 1, k), [in[k + 1] EXCEPT !.part = TRUE])} ELSE {}

BreakOff ==
    /\ conn.where # "none" /\ ~conn.cut
    /\ \E k \in 0 .. Len(conn.in) : \E in \in BrokenOff(conn.in, k) :
          conn' = [conn EXCEPT !.in = in, !.cut = TRUE, !.pend = <<>>]
    /\ UNCHANGED <<lib, sock, self, call, out, left>>

(***************************************************************************)
(* The pool drops an idle connection: it became readable, or is too old.   *)
(***************************************************************************)
IdleGone ==
    /\ conn.where = "pool"
    /\ conn' = Unused
    /\ UNCHANGED <<lib, sock, self, call, out, left>>

-----------------------------------------------------------------------------
(***************************************************************************)
(* The cosocket.  A connection taken from the pool sets reusedtimes, which *)
(* a new one leaves as it is; a pool size, once given, stays.              *)
(***************************************************************************)
Taken == [conn |-> [conn EXCEPT !.where = "sock"], sock |-> [sock EXCEPT !.up = TRUE, !.reused = 1]]

Opened(pools) ==
    [conn |-> [Unused EXCEPT !.where = "sock", !.login = lib = "mysql",
                             !.in = IF lib = "mysql" THEN <<Q!Greeting>> ELSE <<>>],
     sock |-> [sock EXCEPT !.up = TRUE, !.pools = @ \/ pools]]

Refused(pools) == [conn |-> Unused, sock |-> [sock EXCEPT !.up = FALSE, !.pools = @ \/ pools]]

Connects(pools) == IF conn.where = "pool" THEN {Taken} ELSE {Opened(pools), Refused(pools)}

Down == [sock EXCEPT !.up = FALSE]

(***************************************************************************)
(* Something is still to come on a connection.                             *)
(***************************************************************************)
Outstanding(c) == c.in # <<>> \/ c.subs \/ \E i \in DOMAIN c.pend : c.pend[i].name # "quit"

(***************************************************************************)
(* The cosocket gives up its connection.  What it had already buffered is  *)
(* lost, what the kernel holds is not.                                     *)
(***************************************************************************)
GivenUp(kept) ==
    IF conn.where = "pool" THEN {conn} ELSE IF ~kept \/ ~sock.up THEN {Unused}
    ELSE {[conn EXCEPT !.where = "pool", !.in = SubSeq(@, k + 1, Len(@))] : k \in 0 .. Len(conn.in)}

Soiled(c) == [c EXCEPT !.dirty = @ \/ Outstanding(c)]

-----------------------------------------------------------------------------
(***************************************************************************)
(* A call returns: what it hands out, and the client's fields.             *)
(***************************************************************************)
Returns(how, c) ==
    /\ call' = IF how = "lost" THEN [Idle EXCEPT !.pc = "lost"] ELSE Idle
    /\ out' = [how |-> how, claims |-> c.claims /\ ~conn.dirty, own |-> c.own, whole |-> c.whole]

(***************************************************************************)
(* A call sends its requests.  send returns nil when the write fails, and  *)
(* false when there is no connection; only nil makes the memcached client  *)
(* connect and send again.                                                 *)
(***************************************************************************)
Numbered(names) == [i \in DOMAIN names |-> [name |-> names[i], id |-> left.requests - i + 1]]

Ids(reqs) == [i \in DOMAIN reqs |-> reqs[i].id]

Sent(c, reqs) ==
    /\ conn' = [conn EXCEPT !.pend = @ \o reqs]
    /\ UNCHANGED sock
    /\ IF c.reads = <<>> THEN Returns("nothing", c) ELSE call' = c /\ out' = Nothing

SendFails(c) ==
    /\ conn' = Unused
    /\ sock' = Down
    /\ IF lib = "memcached" /\ self.host
       THEN call' = [c EXCEPT !.pc = "connect again"] /\ out' = Nothing
       ELSE Returns("nil", c)

SendRefused(c) == Returns("nil", c) /\ UNCHANGED <<conn, sock>>

Send(c, reqs) ==
    \/ sock.up /\ Sent(c, reqs)
    \/ sock.up /\ SendFails(c)
    \/ ~sock.up /\ SendRefused(c)

Claiming(name, reads, ids, subscribed) ==
    [pc |-> "reading", name |-> name, reads |-> reads, for |-> ids, claims |-> ~subscribed,
     own |-> TRUE, whole |-> TRUE, heard |-> {}]

Start(names, reads, subscribed) ==
    /\ call.pc = "idle"
    /\ Len(names) <= left.requests
    /\ left' = [left EXCEPT !.requests = @ - Len(names)]
    /\ Send(Claiming(names[1], reads, Ids(Numbered(names)), subscribed), Numbered(names))

(***************************************************************************)
(* memcached's _send: connect and send once more.                          *)
(***************************************************************************)
ConnectAgain ==
    /\ call.pc = "connect again"
    /\ \E o \in Connects(FALSE) :
          /\ conn' = o.conn
          /\ sock' = o.sock
          /\ IF o.sock.up THEN call' = [call EXCEPT !.pc = "send again"] /\ UNCHANGED out
             ELSE Returns("nil", call)
    /\ UNCHANGED <<lib, self, left>>

SendAgain ==
    /\ call.pc = "send again"
    /\ \/ Sent([call EXCEPT !.pc = "reading"], <<[name |-> call.name, id |-> call.for[1]]>>)
       \/ conn' = Unused /\ sock' = Down /\ Returns("nil", call)
    /\ UNCHANGED <<lib, self, left>>

-----------------------------------------------------------------------------
(***************************************************************************)
(* What a library does with what it has read.                              *)
(***************************************************************************)
Reads(e, said) ==
    CASE lib = "redis"      -> {R!RedisReads(e, said)}
      [] lib = "memcached"  -> {M!MemcachedReads(e, said)}
      [] lib = "beanstalkd" -> {B!BeanstalkdReads(e, said)}
      [] OTHER              -> {Q!MysqlReads(e, said)} \union
                               IF said.part THEN {Ends("raises")} ELSE {}

(***************************************************************************)
(* The call is none the wiser, one reply further, or done.                 *)
(***************************************************************************)
Heard(said) ==
    [call EXCEPT !.own = @ /\ said.of = Head(call.for), !.whole = @ /\ ~said.part,
                 !.heard = @ \union {said.k}]

Further(c, stack) ==
    IF stack # <<>> THEN [c EXCEPT !.reads[1] = stack]
    ELSE [c EXCEPT !.reads = Tail(@), !.for = Tail(@)]

(***************************************************************************)
(* The fields after a call that got an answer.                             *)
(***************************************************************************)
Unsubscribed(c) == c.name \in {"unsubscribe", "read_reply"} /\ R!check_subscribed(c.heard)

SelfAfter(c, how, said) ==
    CASE lib = "redis" /\ Unsubscribed(c) -> [self EXCEPT !.subscribed = FALSE]
      [] lib = "mysql" /\ c.name = "query" -> [self EXCEPT !.state = Q!StateAfter(how, said)]
      [] lib = "mysql" /\ c.name = "login" /\ how = "answer" /\ Q!typ(said) = "OK" ->
             [self EXCEPT !.state = "connected"]
      [] OTHER -> self

(***************************************************************************)
(* The greeting has been read: connect sends the login.                    *)
(***************************************************************************)
SendLogin(c) == call' = [c EXCEPT !.pc = "send login"] /\ UNCHANGED <<out, self>>

Finish(c, how, said) ==
    /\ Returns(how, c)
    /\ self' = SelfAfter(c, how, said)

GoesOn(c, said) ==
    IF c.reads = <<>> THEN Finish(c, "answer", said)
    ELSE IF c.name = "login" THEN SendLogin(c)
    ELSE call' = c /\ UNCHANGED <<out, self>>

Reacts(r, c, said) ==
    IF r.end # "" THEN Finish(c, r.end, said)
    ELSE GoesOn(Further(c, r.more \o Tail(Head(c.reads))), said)

(***************************************************************************)
(* receive gives the next part.  The peer's end may be noticed with it,    *)
(* before what has arrived is read.  Where the redis client takes itself   *)
(* for unsubscribed while something is still to come, the connection is no *)
(* longer in step.                                                         *)
(***************************************************************************)
Without(in) == [conn EXCEPT !.in = in]

Receive ==
    /\ call.pc = "reading"
    /\ conn.in # <<>>
    /\ Head(Head(call.reads)) # "nothing"
    /\ \E r \in Reads(Head(Head(call.reads)), Head(conn.in)) : Reacts(r, Heard(Head(conn.in)), Head(conn.in))
    /\ conn' = IF self.subscribed /\ ~self'.subscribed THEN Soiled(Without(Tail(conn.in)))
               ELSE Without(Tail(conn.in))
    /\ \E seen \in {FALSE, conn.cut} : sock' = [sock EXCEPT !.up = @ /\ ~seen]
    /\ UNCHANGED <<lib, left>>

(***************************************************************************)
(* receive gives nothing: the timer closes the connection, or the peer has *)
(* ended it.  beanstalkd.lua and mysql.lua append the error, which is nil  *)
(* at the peer's end, to a message; and take a job's body to be there.     *)
(***************************************************************************)
Silence(how) ==
    /\ conn' = Unused
    /\ sock' = Down
    /\ Returns(how, call)
    /\ UNCHANGED <<lib, self, left>>

Timeout ==
    /\ call.pc = "reading" /\ sock.up
    /\ Silence(IF Head(Head(call.reads)) = "body" /\ lib = "beanstalkd" THEN "raises" ELSE "nil")

EndOfStream ==
    /\ call.pc = "reading"
    /\ conn.in = <<>> \/ Head(Head(call.reads)) = "nothing"
    /\ conn.cut \/ ~sock.up
    /\ Silence(IF lib \in {"beanstalkd", "mysql"} /\ (sock.up \/ Head(Head(call.reads)) = "body")
               THEN "raises" ELSE "nil")

-----------------------------------------------------------------------------
(***************************************************************************)
(* The functions of the libraries that connect, close and keep alive.  A   *)
(* connect on a cosocket that is connected is an error and has no effect   *)
(* on it, but the redis client forgets that it was subscribed.             *)
(***************************************************************************)
ConnectFields(reused) ==
    [self EXCEPT !.subscribed = FALSE, !.host = TRUE,
                 !.state = IF lib = "mysql" /\ reused > 0 THEN "connected" ELSE @]

(***************************************************************************)
(* mysql.lua logs in, unless the cosocket says that its connection was     *)
(* used before.                                                            *)
(***************************************************************************)
LogsIn(o) == lib = "mysql" /\ o.sock.up /\ o.sock.reused = 0

Connected(o) ==
    /\ conn' = o.conn
    /\ sock' = o.sock
    /\ self' = IF o.sock.up THEN ConnectFields(o.sock.reused) ELSE ConnectFields(0)
    /\ IF LogsIn(o)
       THEN call' = Claiming("login", Q!handshake.reads, <<0, 0>>, FALSE)
       ELSE call' = Idle
    /\ out' = Nothing

connect ==
    /\ call.pc = "idle"
    /\ left.connects > 0
    /\ left' = [left EXCEPT !.connects = @ - 1]
    /\ \/ ~sock.up /\ \E pools \in {FALSE, lib # "memcached"} : \E o \in Connects(pools) : Connected(o)
       \/ /\ sock.up
          /\ self' = ConnectFields(0)
          /\ conn' = IF self.subscribed THEN Soiled(conn) ELSE conn
          /\ out' = Nothing
          /\ UNCHANGED <<sock, call>>
    /\ UNCHANGED lib

mysql_send_login ==
    /\ call.pc = "send login"
    /\ Send([call EXCEPT !.pc = "reading"], <<[name |-> "login", id |-> 0]>>)
    /\ UNCHANGED <<lib, self, left>>

(***************************************************************************)
(* close refuses a cosocket that is not connected.  mysql.lua forgets its  *)
(* state first, beanstalkd.lua says quit first.                            *)
(***************************************************************************)
ByeSent(c) == IF lib = "beanstalkd" THEN [c EXCEPT !.pend = Append(@, [name |-> "quit", id |-> 0])] ELSE c

close ==
    /\ call.pc = "idle"
    /\ sock.up \/ self.state # "nil"
    /\ IF ~sock.up THEN UNCHANGED conn
       ELSE \E c \in GivenUp(sock.pools) \union IF lib = "beanstalkd" THEN {Unused} ELSE {} :
               conn' = IF c.where = "pool" THEN Soiled(ByeSent(c)) ELSE c
    /\ sock' = Down
    /\ self' = [self EXCEPT !.state = "nil"]
    /\ out' = Nothing
    /\ UNCHANGED <<lib, call, left>>

(***************************************************************************)
(* set_keepalive: the redis client may not be subscribed, the mysql client *)
(* must be between queries.  The mysql client only pools under another     *)
(* runtime: here it forgets its state and keeps the connection.            *)
(***************************************************************************)
Bug_KeepsSubscribed == lib = "mysql" => self.state = "connected"

MayKeep ==
    /\ lib = "redis" => ~self.subscribed
    /\ lib = "mysql" => self.state = "connected"

set_keepalive ==
    /\ call.pc = "idle"
    /\ MayKeep
    /\ self' = [self EXCEPT !.state = "nil"]
    /\ IF lib = "mysql" THEN UNCHANGED <<conn, sock>>
       ELSE /\ conn' \in GivenUp(TRUE)
            /\ sock' = [sock EXCEPT !.up = FALSE, !.pools = TRUE]
    /\ out' = Nothing
    /\ UNCHANGED <<lib, call, left>>

(***************************************************************************)
(* The redis client.  Commands wait in an open pipeline, in which the      *)
(* program is taken to put ordinary commands only.                         *)
(***************************************************************************)
redis_command ==
    /\ lib = "redis" /\ call.pc = "idle"
    /\ \E c \in R!commands :
          \/ /\ ~self.reqs.open
             /\ Start(<<c.name>>, <<c.reads>>, self.subscribed)
             /\ UNCHANGED self
          \/ /\ self.reqs.open /\ Len(self.reqs.cmds) < left.requests
             /\ self' = [self EXCEPT !.reqs.cmds = Append(@, c)]
             /\ UNCHANGED <<conn, sock, call, out, left>>
    /\ UNCHANGED lib

redis_subscribe ==
    /\ lib = "redis" /\ ~self.reqs.open
    /\ self' = [self EXCEPT !.subscribed = TRUE]
    /\ \E c \in R!sub_commands : Start(<<c.name>>, <<c.reads>>, TRUE)
    /\ UNCHANGED lib

redis_unsubscribe ==
    /\ lib = "redis" /\ ~self.reqs.open
    /\ \E c \in R!unsub_commands : Start(<<c.name>>, <<c.reads>>, self.subscribed)
    /\ UNCHANGED <<lib, self>>

read_reply ==
    /\ lib = "redis" /\ call.pc = "idle"
    /\ self.subscribed
    /\ conn.where = "sock"
    /\ call' = Claiming("read_reply", <<<<"reply">>>>, <<0>>, TRUE)
    /\ out' = Nothing
    /\ UNCHANGED <<lib, conn, sock, self, left>>

init_pipeline ==
    /\ lib = "redis" /\ call.pc = "idle"
    /\ self.reqs # [open |-> TRUE, cmds |-> <<>>]
    /\ self' = [self EXCEPT !.reqs = [open |-> TRUE, cmds |-> <<>>]]
    /\ UNCHANGED <<lib, conn, sock, call, out, left>>

cancel_pipeline ==
    /\ lib = "redis" /\ call.pc = "idle"
    /\ self.reqs.open
    /\ self' = [self EXCEPT !.reqs = NoPipeline]
    /\ UNCHANGED <<lib, conn, sock, call, out, left>>

commit_pipeline ==
    /\ lib = "redis" /\ call.pc = "idle"
    /\ self.reqs.open
    /\ self' = [self EXCEPT !.reqs = NoPipeline]
    /\ \/ self.reqs.cmds = <<>> /\ out' = Nothing /\ UNCHANGED <<conn, sock, call, left>>
       \/ /\ self.reqs.cmds # <<>>
          /\ Start([i \in DOMAIN self.reqs.cmds |-> self.reqs.cmds[i].name],
                   [i \in DOMAIN self.reqs.cmds |-> self.reqs.cmds[i].reads], self.subscribed)
    /\ UNCHANGED lib

(***************************************************************************)
(* The other clients.                                                      *)
(***************************************************************************)
memcached_call ==
    /\ lib = "memcached"
    /\ \E c \in M!MemcachedCalls : Start(<<c.name>>, IF c.reads = <<>> THEN <<>> ELSE <<c.reads>>, FALSE)
    /\ UNCHANGED <<lib, self>>

beanstalkd_call ==
    /\ lib = "beanstalkd"
    /\ \E c \in B!BeanstalkdCalls : Start(<<c.name>>, <<c.reads>>, FALSE)
    /\ UNCHANGED <<lib, self>>

(***************************************************************************)
(* query is send_query and, if that succeeds, read_result, which is called *)
(* again while there are more results.                                     *)
(***************************************************************************)
query ==
    /\ lib = "mysql"
    /\ self.state = "connected"
    /\ Start(<<"query">>, <<Q!read_result.reads>>, FALSE)
    /\ self' = IF call'.pc = "reading" THEN [self EXCEPT !.state = "sent", !.last = left.requests] ELSE self
    /\ UNCHANGED lib

read_result ==
    /\ lib = "mysql" /\ call.pc = "idle"
    /\ self.state = "sent"
    /\ conn.where = "sock"
    /\ call' = Claiming("query", <<Q!read_result.reads>>, <<self.last>>, FALSE)
    /\ out' = Nothing
    /\ UNCHANGED <<lib, conn, sock, self, left>>

Next ==
    \/ Serve \/ Publish \/ BreakOff \/ IdleGone
    \/ connect \/ mysql_send_login \/ close \/ set_keepalive
    \/ redis_command \/ redis_subscribe \/ redis_unsubscribe \/ read_reply
    \/ init_pipeline \/ cancel_pipeline \/ commit_pipeline
    \/ memcached_call \/ ConnectAgain \/ SendAgain
    \/ beanstalkd_call
    \/ query \/ read_result
    \/ Receive \/ Timeout \/ EndOfStream

Spec == Init /\ [][Next]_vars

-----------------------------------------------------------------------------
(***************************************************************************)
(* The types.                                                              *)
(***************************************************************************)
TypeOK ==
    /\ lib \in {"redis", "memcached", "beanstalkd", "mysql"}
    /\ conn.where \in {"none", "sock", "pool"}
    /\ sock.up => conn.where = "sock"
    /\ self.state \in {"nil", "connected", "sent"}
    /\ call.pc \in {"idle", "reading", "send login", "connect again", "send again", "lost"}
    /\ Len(call.reads) = Len(call.for) \/ call.reads = <<>>

(***************************************************************************)
(* What a call hands to the program as the server's answer is what the     *)
(* server sent for that call's own requests, each in its place, and the    *)
(* call reads to the end of it, whatever timed out, failed or was cut off  *)
(* before and wherever the connection has been since (_read_reply,         *)
(* memcached's _send, read_result, set_keepalive).  With redis.lua and     *)
(* memcached.lua it is also the whole of it: bodies that broke off are not *)
(* handed out.  Excepted are connections given away with something still   *)
(* to come: by close, which no library guards; by a redis client that was  *)
(* told to connect while subscribed; or that took one answer to two calls  *)
(* of unsubscribe for the end of it.                                       *)
(***************************************************************************)
RightReply ==
    /\ TypeOK
    /\ (out.claims /\ out.how \in {"answer", "lost"}) =>
          /\ out.how = "answer"
          /\ out.own
          /\ lib \in {"redis", "memcached"} => out.whole

=============================================================================
