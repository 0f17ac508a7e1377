-------------------------------- MODULE Redis --------------------------------
(***************************************************************************)
(* Requests and replies of src/redis.lua.  Ordinary commands differ in the *)
(* shape of their replies only.                                            *)
(***************************************************************************)
EXTENDS Replies

hmset == Call("hmset", <<"reply">>)

commands == {Call("get", <<"reply">>), Call("mget", <<"reply">>), hmset}

sub_commands == {Call("subscribe", <<"reply">>)}

unsub_commands == {Call("unsubscribe", <<"reply">>)}

(***************************************************************************)
(* External: what a Redis server answers.  A bulk of length -1 is the null *)
(* reply.  A reply about channels is an array of its own kind.             *)
(***************************************************************************)
Bulk == <<Said("$", 1), Word("body"), Word("crlf")>>

Null == <<Said("$", -1)>>

Channels(what) == <<Said("*", 1), Word(what)>>

RedisAnswers(name) ==
    CASE name = "get"   -> {Bulk, Null, <<Said("$", 0), Word("crlf")>>}
      [] name = "mget"  -> {<<Said("*", 2)>> \o Bulk \o Null, <<Said("*", 2), Word("-"), Word(":")>>,
                            <<Said("*", 0)>>, <<Said("*", -1)>>}
      [] name = "hmset" -> {<<Word("+")>>, <<Word("-")>>}
      [] OTHER          -> {Channels(name)}

(***************************************************************************)
(* _read_reply.  receive(0) is not satisfied by anything: "nothing" waits  *)
(* for the timeout or the end of the connection.                           *)
(***************************************************************************)
ReadBulk(size) ==
    IF size < 0 THEN GoOn(<<>>)
    ELSE IF size = 0 THEN GoOn(<<"nothing">>)
    ELSE GoOn(<<"body", "crlf">>)

ReadMulti(n) == IF n < 0 THEN GoOn(<<>>) ELSE GoOn(Times(n, "reply"))

ReadLine(line) ==
    CASE line.k = "$" -> ReadBulk(line.n)
      [] line.k = "*" -> ReadMulti(line.n)
      [] line.k \in {"body", "crlf"} -> Ends("lost")
      [] OTHER -> GoOn(<<>>)

RedisReads(e, said) ==
    IF e = "reply" THEN ReadLine(said)
    ELSE IF said.k = e THEN GoOn(<<>>) ELSE Ends("lost")

(***************************************************************************)
(* _check_subscribed: the server has no channel left for this connection.  *)
(***************************************************************************)
check_subscribed(heard) == "unsubscribe" \in heard

=============================================================================
