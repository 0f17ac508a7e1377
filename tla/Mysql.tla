-------------------------------- MODULE Mysql --------------------------------
(***************************************************************************)
(* Packets of src/mysql.lua: the handshake of connect and the results of   *)
(* read_result.  Of a packet the model keeps its first byte, by which      *)
(* _recv_packet tells the type, and whether an OK or EOF has the status    *)
(* SERVER_MORE_RESULTS_EXISTS.                                             *)
(***************************************************************************)
EXTENDS Replies

handshake == Call("login", <<<<"greeting">>, <<"login result">>>>)

read_result == Call("query", <<"result">>)

(***************************************************************************)
(* External: what a MySQL server sends.  The greeting's first byte is its  *)
(* protocol's version, a field's the length of its catalog's name, and a   *)
(* row's the length of its first value: 0 if it is empty, 251 if it is     *)
(* NULL.  An error may end a result set between rows.                      *)
(***************************************************************************)
Packet(first) == Said("packet", first)

More(first) == Said("more", first)

Greeting == Packet(10)

Ok == 0

Err == 255

Eof == 254

Rows(first, end) == <<Packet(1), Packet(3), Packet(Eof), Packet(first), end>>

MysqlAnswers(name) ==
    IF name = "login" THEN {<<Packet(Ok)>>, <<Packet(Err)>>, <<Packet(Eof)>>}
    ELSE {<<Packet(Ok)>>, <<Packet(Err)>>, <<More(Ok), Packet(Ok)>>}
         \union {Rows(first, Packet(Eof)) : first \in {0, 1, 251}}
         \union {Rows(1, Packet(Err)), Rows(1, More(Eof)) \o <<Packet(Ok)>>}

(***************************************************************************)
(* _recv_packet: the type of a packet.                                     *)
(***************************************************************************)
typ(packet) ==
    CASE packet.n = 0    -> "OK"
      [] packet.n = 255  -> "ERR"
      [] packet.n = 254  -> "EOF"
      [] packet.n <= 250 -> "DATA"
      [] OTHER           -> "nil"

(***************************************************************************)
(* connect: any packet but an error is taken for a greeting, and only OK   *)
(* for success.                                                            *)
(***************************************************************************)
ReadGreeting(packet) == IF typ(packet) = "ERR" THEN Ends("answer") ELSE GoOn(<<>>)

ReadLogin(packet) == IF typ(packet) = "OK" THEN GoOn(<<>>) ELSE Ends("answer")

(***************************************************************************)
(* read_result, packet by packet.                                          *)
(***************************************************************************)
ReadHeader(packet) ==
    IF typ(packet) = "DATA" THEN GoOn(Times(packet.n, "field") \o <<"end of fields", "row">>)
    ELSE Ends("answer")

recv_field_packet(packet) == IF typ(packet) = "DATA" THEN GoOn(<<>>) ELSE Ends("nil")

ReadFieldsEnd(packet) == IF typ(packet) = "EOF" THEN GoOn(<<>>) ELSE Ends("nil")

(***************************************************************************)
(* Whatever is not an end is a row, an error too.                          *)
(***************************************************************************)
ReadRow(packet) == IF typ(packet) = "EOF" THEN Ends("answer") ELSE GoOn(<<"row">>)

MysqlReads(e, packet) ==
    CASE e = "greeting"      -> ReadGreeting(packet)
      [] e = "login result"  -> ReadLogin(packet)
      [] e = "result"        -> ReadHeader(packet)
      [] e = "field"         -> recv_field_packet(packet)
      [] e = "end of fields" -> ReadFieldsEnd(packet)
      [] OTHER               -> ReadRow(packet)

(***************************************************************************)
(* The client's state after read_result ended with this packet: only an    *)
(* answer without more results to come leaves it ready for a query.        *)
(***************************************************************************)
StateAfter(end, packet) ==
    IF end = "answer" /\ packet.k # "more" THEN "connected" ELSE "sent"

=============================================================================
