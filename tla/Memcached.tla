------------------------------ MODULE Memcached ------------------------------
(***************************************************************************)
(* Requests and replies of src/memcached.lua.  `set' stands for add,       *)
(* replace, append and prepend as well, `incr' for decr.                   *)
(***************************************************************************)
EXTENDS Replies

get == Call("get", <<"first line">>)

gets == Call("gets", <<"first line">>)

multi_get == Call("multi_get", <<"value line">>)

multi_gets == Call("multi_gets", <<"value line">>)

set == Call("set", <<"line">>)

cas == Call("cas", <<"line">>)

delete == Call("delete", <<"line">>)

flush_all == Call("flush_all", <<"line">>)

incr_decr == Call("incr", <<"line">>)

stats == Call("stats", <<"stat line">>)

version == Call("version", <<"line">>)

verbosity == Call("verbosity", <<"line">>)

touch == Call("touch", <<"line">>)

(***************************************************************************)
(* quit reads nothing.                                                     *)
(***************************************************************************)
quit == Call("quit", <<>>)

MemcachedCalls ==
    {get, gets, multi_get, multi_gets, set, cas, delete, flush_all, incr_decr, stats, version,
     verbosity, touch, quit}

(***************************************************************************)
(* External: what a memcached server answers.                              *)
(***************************************************************************)
Value == <<Said("VALUE", 1), Word("body"), Word("crlf")>>

MemcachedAnswers(name) ==
    CASE name \in {"get", "gets"}             -> {Value \o <<Word("END")>>, <<Word("END")>>,
                                                  <<Word("ERROR")>>}
      [] name \in {"multi_get", "multi_gets"} -> {Value \o Value \o <<Word("END")>>,
                                                  <<Word("END")>>, <<Word("ERROR")>>}
      [] name = "stats"                       -> {<<Word("STAT"), Word("STAT"), Word("END")>>,
                                                  <<Word("ERROR")>>}
      [] OTHER                                -> {<<Word("OK")>>, <<Word("ERROR")>>}

(***************************************************************************)
(* get and gets: the body, its line end and the line END follow a VALUE;   *)
(* any other line is the answer.                                           *)
(***************************************************************************)
GetLine(line) ==
    IF line.k = "VALUE" THEN GoOn(<<"body", "crlf", "line">>) ELSE Ends("answer")

(***************************************************************************)
(* _multi_get and _multi_gets: a line that is neither VALUE nor END is     *)
(* passed over, an error of the server too.                                *)
(***************************************************************************)
MultiLine(line) ==
    CASE line.k = "END"   -> Ends("answer")
      [] line.k = "VALUE" -> GoOn(<<"body", "crlf", "value line">>)
      [] OTHER            -> GoOn(<<"value line">>)

StatLine(line) ==
    IF line.k \in {"END", "ERROR"} THEN Ends("answer") ELSE GoOn(<<"stat line">>)

IsLine(said) == said.k \notin {"body", "crlf"}

MemcachedReads(e, said) ==
    CASE e \in {"body", "crlf"} -> IF said.k = e THEN GoOn(<<>>) ELSE Ends("lost")
      [] ~IsLine(said)          -> Ends("lost")
      [] e = "first line"       -> GetLine(said)
      [] e = "value line"       -> MultiLine(said)
      [] e = "stat line"        -> StatLine(said)
      [] OTHER                  -> GoOn(<<>>)

=============================================================================
