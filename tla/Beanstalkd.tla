----------------------------- MODULE Beanstalkd ------------------------------
(***************************************************************************)
(* Requests and replies of src/beanstalkd.lua.                             *)
(***************************************************************************)
EXTENDS Replies

use == Call("use", <<"line">>)

watch == Call("watch", <<"line">>)

put == Call("put", <<"line">>)

delete == Call("delete", <<"line">>)

release == Call("release", <<"line">>)

bury == Call("bury", <<"line">>)

kick == Call("kick", <<"line">>)

reserve == Call("reserve", <<"job line">>)

peek == Call("peek", <<"job line">>)

BeanstalkdCalls == {use, watch, put, delete, release, bury, kick, reserve, peek}

(***************************************************************************)
(* External: what a beanstalkd server answers.                             *)
(***************************************************************************)
BeanstalkdAnswers(name) ==
    IF name \in {"reserve", "peek"} THEN {<<Word("JOB"), Word("body")>>, <<Word("NONE")>>}
    ELSE {<<Word("OK")>>}

(***************************************************************************)
(* reserve and peek read the job and its line end in one.                  *)
(***************************************************************************)
JobLine(line) == IF line.k = "JOB" THEN GoOn(<<"body">>) ELSE Ends("answer")

BeanstalkdReads(e, said) ==
    CASE e = "body"       -> IF said.k = "body" THEN GoOn(<<>>) ELSE Ends("lost")
      [] said.k = "body"  -> Ends("lost")
      [] e = "job line"   -> JobLine(said)
      [] OTHER            -> GoOn(<<>>)

=============================================================================
