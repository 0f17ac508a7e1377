--------------------------- MODULE ConnectionPool ---------------------------
(***************************************************************************)
(* The keep-alive pool: src/connection-pool.c.                             *)
(*                                                                         *)
(* Idle connections are kept in two generations that alternate every       *)
(* connect_pool_ttl seconds.  A generation has one list per hash bucket;   *)
(* connections of different keys share it and are told apart by the key in *)
(* their entry.  A counter per key holds the number of connections open    *)
(* under the key, idle or in use, and the largest size asked for.  A       *)
(* coroutine whose connect finds the pool full is queued, in one queue per *)
(* bucket.                                                                 *)
(*                                                                         *)
(* This module has the pool's state and what its functions compute; the    *)
(* handlers that call them are the actions of Cosocket.  The TLS objects   *)
(* an entry carries along (ssl, ctx, ssl_pw) are left out.                 *)
(***************************************************************************)
EXTENDS Integers, Sequences, FiniteSets

CONSTANTS
    Socks,         \* cosocket objects
    Conns,         \* connections: a descriptor and its se_ptr_t
    Keys,          \* pool keys: what fnv1a_32 returns, 0 excepted
    Bucket,        \* pool_key % 64, as a function on Keys
    ProcessCount,  \* _process_count
    CountMod,      \* 2^w for the counter's w bits
    TTL,           \* connect_pool_ttl
    None           \* NULL, -1, or key 0

ASSUME PoolAssumption ==
    /\ IsFiniteSet(Socks) /\ IsFiniteSet(Conns)
    /\ Bucket \in [Keys -> Nat]
    /\ ProcessCount \in Nat \ {0}
    /\ CountMod \in Nat \ {0}
    /\ TTL \in Nat \ {0}
    /\ None \notin Socks \cup Conns \cup Keys

VARIABLES
    now,      \* the clock, in the unit of connect_pool_ttl
    pool,     \* connect_pool_p: per generation and bucket, the list of idle connections
    ctr,      \* cosocket_connection_pool_counters
    waiting   \* waiting_get_connections: per bucket, the queue of cosockets

poolVars == <<now, pool, ctr, waiting>>

Generations == {0, 1}
BucketSet == {Bucket[k] : k \in Keys}

\* since is history: when the connection was put in the pool.
Entry == [conn : Conns, key : Keys, z : {0, 1}, since : Nat]

PoolTypeOK ==
    /\ now \in Nat
    /\ pool \in [Generations -> [BucketSet -> Seq(Entry)]]
    /\ ctr \in [Keys -> [count : 0 .. CountMod - 1, size : Nat]]
    /\ waiting \in [BucketSet -> Seq(Socks)]

PoolInit ==
    /\ now = 0
    /\ pool = [g \in Generations |-> [b \in BucketSet |-> <<>>]]
    /\ ctr = [k \in Keys |-> [count |-> 0, size |-> 0]]
    /\ waiting = [b \in BucketSet |-> <<>>]

-----------------------------------------------------------------------------
\* connection_pool_counter_operate: the count is unsigned, and key 0 is ignored.
Operate(ct, k, a) ==
    IF k = None THEN ct ELSE [ct EXCEPT ![k].count = (@ + a) % CountMod]

\* The generation in use.
Gen == (now \div TTL) % 2
Old == 1 - Gen

Idle(g, b) == {pool[g][b][i].conn : i \in DOMAIN pool[g][b]}
IdleConns == UNION {Idle(g, b) : g \in Generations, b \in BucketSet}

\* A linked list without its entry i, and without the first of its entries I.
CutAt(q, i) == SubSeq(q, 1, i - 1) \o SubSeq(q, i + 1, Len(q))
First(I) == CHOOSE i \in I : \A j \in I : i <= j
Unlink(q, I) == IF I = {} THEN q ELSE CutAt(q, First(I))

\* Mutant of Having: the key is not compared.
Bug_AnyKey(q, k) == DOMAIN q
\* The entries of a list that have the key.
Having(q, k) == {i \in DOMAIN q : q[i].key = k}

\* The first part of get_connection_in_pool: the lists of the other generation
\* are emptied.  A connection seen for the first time (z = 0) goes to the head
\* of its bucket's list in the present one; one that has been moved before is
\* closed and counted out.
Young(b) == {i \in DOMAIN pool[Old][b] : pool[Old][b][i].z = 0}
\* Mutant of Expired: closed at the first change of generations.
Bug_AtOnce(b) == DOMAIN pool[Old][b]
Expired(b) == {i \in DOMAIN pool[Old][b] : pool[Old][b][i].z = 1}
\* The element of a set of numbers that has j - 1 larger ones in it.
Largest(I, j) == CHOOSE i \in I : Cardinality({x \in I : x >= i}) = j
\* Mutant of Moved: the mark of a first move is forgotten.
Bug_Unmarked(b) ==
    [j \in 1 .. Cardinality(Young(b)) |-> pool[Old][b][Largest(Young(b), j)]]
\* The one moved last comes first.
Moved(b) ==
    [j \in 1 .. Cardinality(Young(b)) |->
        [pool[Old][b][Largest(Young(b), j)] EXCEPT !.z = 1]]

SweptPool ==
    [g \in Generations |->
        [b \in BucketSet |-> IF g = Gen THEN Moved(b) \o pool[g][b] ELSE <<>>]]
SweptCtr ==
    [k \in Keys |->
        [ctr[k] EXCEPT !.count =
            (@ - Cardinality(Expired(Bucket[k]) \cap Having(pool[Old][Bucket[k]], k))) % CountMod]]
SweptConns == UNION {{pool[Old][b][i].conn : i \in Expired(b)} : b \in BucketSet}

\* The second part: the list of the key's bucket is walked to the first entry
\* with the key.  After the sweep only the present generation can hold one, so
\* the retry with the other finds nothing.
Found(k) ==
    LET q == SweptPool[Gen][Bucket[k]]
    IN  IF Having(q, k) = {} THEN None ELSE q[First(Having(q, k))].conn
\* Mutant of PoolWithout: the connection handed out stays in the list.
Bug_Kept(k) == SweptPool
PoolWithout(k) == [SweptPool EXCEPT ![Gen][Bucket[k]] = Unlink(@, Having(@, k))]

\* add_connection_to_pool: the list of the key's bucket is walked to its end,
\* unless the walk meets an entry with this key whose predecessors with this key
\* already number pool_size.
PoolFull(k, pool_size) == Cardinality(Having(pool[Gen][Bucket[k]], k)) > pool_size
PoolWith(k, c) ==
    [pool EXCEPT ![Gen][Bucket[k]] =
        Append(@, [conn |-> c, key |-> k, z |-> 0, since |-> now])]

\* cosocket_be_close: c leaves the list it is in.
PoolDropping(c) ==
    [g \in Generations |->
        [b \in BucketSet |-> Unlink(pool[g][b], {i \in DOMAIN pool[g][b] : pool[g][b][i].conn = c})]]
KeyOfIdle(c) ==
    CHOOSE k \in Keys : \E g \in Generations, b \in BucketSet :
        \E i \in Having(pool[g][b], k) : pool[g][b][i].conn = c

\* add_waiting_get_connection and delete_in_waiting_get_connection.
WaitingWith(k, s) == [waiting EXCEPT ![Bucket[k]] = Append(@, s)]
WaitingWithout(s) ==
    [b \in BucketSet |-> Unlink(waiting[b], {i \in DOMAIN waiting[b] : waiting[b][i] = s})]

\* Mutant of MustWait: one connection more than the size.
Bug_OneMore(k, pool_size, ct) ==
    ct[k].count > 0 /\ ct[k].count > pool_size \div ProcessCount

\* The test in lua_co_connect that makes a coroutine wait.
MustWait(k, pool_size, ct) ==
    ct[k].count > 0 /\ ct[k].count >= pool_size \div ProcessCount
=============================================================================
