------------------------------ MODULE MCClients ------------------------------
(***************************************************************************)
(* Clients for TLC: what a behaviour of each library may do.               *)
(***************************************************************************)
EXTENDS Clients

Few ==
    {[lib |-> "redis", requests |-> 4, connects |-> 2],
     [lib |-> "memcached", requests |-> 3, connects |-> 3],
     [lib |-> "beanstalkd", requests |-> 3, connects |-> 3],
     [lib |-> "mysql", requests |-> 3, connects |-> 3]}

=============================================================================
