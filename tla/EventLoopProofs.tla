--------------------------- MODULE EventLoopProofs ---------------------------
(***************************************************************************)
(* Proofs about EventLoop, for every set of coroutines and every limit on  *)
(* the calls of swop that return at once: the swop list is a sound linked  *)
(* list of the coroutines suspended in swop, and it implements the         *)
(* first-in first-out queue of SwopQueue.                                  *)
(***************************************************************************)
EXTENDS EventLoop, SequenceTheorems, FiniteSetTheorems, TLAPS

\* q is the list as the pointers of coevent.c spell it out: swop_top->next is
\* its first node, swop_lat its last, next leads from each node to the one after
\* it, and its nodes are those of the coroutines suspended in swop.
Spells(q) ==
    /\ top = IF Len(q) = 0 THEN None ELSE q[1]
    /\ lat = IF Len(q) = 0 THEN None ELSE q[Len(q)]
    /\ \A i \in 1 .. Len(q) : next[q[i]] = IF i = Len(q) THEN None ELSE q[i + 1]
    /\ \A i, j \in 1 .. Len(q) : q[i] = q[j] => i = j
    /\ \A t \in Threads : st[t] = "swop" <=> \E i \in 1 .. Len(q) : q[i] = t

\* A coroutine is on the C stack exactly while it runs, once.
StackSound ==
    /\ \A i, j \in 1 .. Len(stack) : stack[i] = stack[j] => i = j
    /\ \A t \in Threads : st[t] = "running" <=> \E i \in 1 .. Len(stack) : stack[i] = t

\* The coroutines a phase of the turn still has to resume wait for the network.
DueSound == \A t \in due : st[t] = "io"

IInv == TypeOK /\ StackSound /\ DueSound /\ \E q \in Seq(Threads) : Spells(q)

\* What a step may do to the list.
Moves(q, r) ==
    \/ r = q
    \/ q # <<>> /\ r = Tail(q)
    \/ \E t \in Threads : (\A i \in 1 .. Len(q) : q[i] # t) /\ r = Append(q, t)

-----------------------------------------------------------------------------
(* Sequences *)

\* Every non-empty set of numbers has a least one.
LEMMA LeastOf ==
    ASSUME NEW T \in SUBSET Nat, T # {}
    PROVE  \E n \in T : \A m \in T : n <= m
  <1> DEFINE R == OpToRel(<, Nat)
  <1>1. IsWellFoundedOn(R, Nat)
    BY NatLessThanWellFounded
  <1>2. \A x, y \in Nat : y < x => <<y, x>> \in R
    BY DEF OpToRel
  <1> HIDE DEF R
  <1>3. PICK x \in T : \A y \in T : <<y, x>> \notin R
    BY <1>1, WFMin
  <1>4. ASSUME NEW y \in T PROVE x <= y
    <2>1. ~ (y < x)
      BY <1>2, <1>3
    <2> QED
      BY <2>1
  <1> QED
    BY <1>4

\* The cardinality of an interval.
LEMMA UpTo ==
    ASSUME NEW n \in Nat
    PROVE  /\ IsFiniteSet(1 .. n) /\ Cardinality(1 .. n) = n
           /\ IsFiniteSet(0 .. n - 1) /\ Cardinality(0 .. n - 1) = n
  <1>1. 0 \in Int /\ 1 \in Int /\ n \in Int /\ n - 1 \in Int
    OBVIOUS
  <1>2. /\ IsFiniteSet(1 .. n)
        /\ Cardinality(1 .. n) = IF 1 > n THEN 0 ELSE n - 1 + 1
    BY <1>1, FS_Interval
  <1>3. /\ IsFiniteSet(0 .. n - 1)
        /\ Cardinality(0 .. n - 1) = IF 0 > n - 1 THEN 0 ELSE n - 1 - 0 + 1
    BY <1>1, FS_Interval
  <1> QED
    BY <1>2, <1>3

\* A sequence without its last element.
LEMMA FrontFacts ==
    ASSUME NEW S, NEW s \in Seq(S), Len(s) # 0
    PROVE  /\ SubSeq(s, 1, Len(s) - 1) \in Seq(S)
           /\ Len(SubSeq(s, 1, Len(s) - 1)) = Len(s) - 1
           /\ \A i \in 1 .. Len(s) - 1 : SubSeq(s, 1, Len(s) - 1)[i] = s[i]
  <1> DEFINE m == Len(s) - 1
  <1>1. 1 \in Int /\ m \in Nat /\ m \in Int /\ \A i \in 1 .. m : s[i] \in S
    OBVIOUS
  <1> HIDE DEF m
  <1>2. /\ SubSeq(s, 1, m) \in Seq(S)
        /\ Len(SubSeq(s, 1, m)) = IF 1 <= m THEN m - 1 + 1 ELSE 0
        /\ \A i \in 1 .. m - 1 + 1 : SubSeq(s, 1, m)[i] = s[1 + i - 1]
    BY <1>1, SubSeqProperties
  <1>3. /\ SubSeq(s, 1, m) \in Seq(S)
        /\ Len(SubSeq(s, 1, m)) = m
        /\ \A i \in 1 .. m : SubSeq(s, 1, m)[i] = s[i]
    BY <1>1, <1>2
  <1> QED
    BY <1>3 DEF m

-----------------------------------------------------------------------------
(* The walk along the pointers *)

\* Following the pointers of a list spells it out.
LEMMA WalkSpells ==
    \A q \in Seq(Threads) : TypeOK /\ Spells(q) => Walk = q
  <1> SUFFICES ASSUME NEW q \in Seq(Threads), TypeOK, Spells(q)
               PROVE  Walk = q
    OBVIOUS
  <1> DEFINE N == Cardinality(Threads)
             n == Len(q)
             f == [i \in 0 .. N |-> IF i < n THEN q[i + 1] ELSE None]
             Def(g) == [i \in 0 .. N |->
                           IF i = 0 THEN top
                           ELSE IF g[i - 1] = None THEN None ELSE next[g[i - 1]]]
  <1>1. N \in Nat /\ n \in Nat /\ None \notin Threads
    BY EventLoopAssumption, FS_CardinalityType
  <1>2. n <= N
    <2>1. q \in [1 .. n -> Threads]
      OBVIOUS
    <2>2. IsFiniteSet(1 .. n) /\ Cardinality(1 .. n) = n
      BY <1>1, UpTo
    <2>3. IsInjective(q)
      BY <2>1 DEF Spells, IsInjective
    <2>4. q \in Injection(1 .. n, Threads)
      BY <2>1, <2>3 DEF Injection
    <2> QED
      BY <2>2, <2>4, EventLoopAssumption, FS_Injection
  <1>3. f = Def(f)
    BY <1>1, <1>2 DEF Spells
  <1>4. ASSUME NEW g, g = Def(g)
        PROVE  g = f
    <2> DEFINE T == {i \in 0 .. N : g[i] # f[i]}
    <2>1. T \in SUBSET Nat
      BY <1>1
    <2>2. ASSUME T # {} PROVE FALSE
      <3>1. PICK i \in T : \A j \in T : i <= j
        <4> HIDE DEF T
        <4> QED
          BY LeastOf, <2>1, <2>2
      <3>2. /\ g[i] = Def(g)[i] /\ f[i] = Def(f)[i]
            /\ i \in 0 .. N /\ g[i] # f[i]
        BY <1>3, <1>4
      <3>3. i # 0
        BY <3>2
      <3>4. i - 1 \in 0 .. N /\ i - 1 \notin T
        BY <1>1, <3>1, <3>2, <3>3
      <3>5. g[i - 1] = f[i - 1]
        BY <3>4
      <3> HIDE DEF f, T
      <3> QED
        BY <3>2, <3>3, <3>5
    <2> QED
      BY <1>4, <2>2
  <1>5. Node = f
    BY <1>3, <1>4 DEF Node
  <1>6. {i \in DOMAIN Node : Node[i] # None} = 0 .. n - 1
    BY <1>1, <1>2, <1>5
  <1>7. Cardinality(0 .. n - 1) = n
    BY <1>1, UpTo
  <1>8. Walk = [i \in 1 .. n |-> f[i - 1]]
    <2> HIDE DEF f, n, N
    <2>1. Cardinality({i \in DOMAIN Node : Node[i] # None}) = n
      BY <1>6, <1>7
    <2> QED
      BY <1>5, <2>1 DEF Walk
  <1>9. \A i \in 1 .. n : f[i - 1] = q[i]
    BY <1>1, <1>2
  <1> QED
    BY <1>8, <1>9

-----------------------------------------------------------------------------
(* Control passes on *)

Status == {"absent", "running"} \cup Suspended \cup Ended

\* lua_resume puts a coroutine that does not run on top of the stack.
LEMMA ResumeFacts ==
    ASSUME TypeOK, StackSound, NEW t \in Threads, st[t] # "running", Resume(t)
    PROVE  /\ stack' \in Seq(Threads)
           /\ st' \in [Threads -> Status]
           /\ StackSound'
           /\ \A u \in Threads \ {t} : st'[u] = st[u]
           /\ st'[t] = "running"
  <1>1. /\ stack \in Seq(Threads) /\ stack' = Append(stack, t)
        /\ st \in [Threads -> Status] /\ st' = [st EXCEPT ![t] = "running"]
    BY DEF TypeOK, Resume, Status
  <1>2. /\ stack' \in Seq(Threads) /\ Len(stack') = Len(stack) + 1
        /\ \A i \in 1 .. Len(stack) : stack'[i] = stack[i]
        /\ stack'[Len(stack) + 1] = t
    BY <1>1
  <1>3. st' \in [Threads -> Status] /\ st'[t] = "running"
        /\ \A u \in Threads \ {t} : st'[u] = st[u]
    BY <1>1 DEF Status
  <1>4. \A i \in 1 .. Len(stack) : stack[i] \in Threads /\ stack[i] # t
    BY <1>1 DEF StackSound
  <1>5. \A i, j \in 1 .. Len(stack') : stack'[i] = stack'[j] => i = j
    BY <1>1, <1>2, <1>4 DEF StackSound
  <1>6. \A u \in Threads : st'[u] = "running" <=> \E i \in 1 .. Len(stack') : stack'[i] = u
    BY <1>1, <1>2, <1>3, <1>4 DEF StackSound
  <1> QED
    BY <1>2, <1>3, <1>5, <1>6 DEF StackSound

\* A coroutine that suspends itself or ends leaves the stack for good.
LEMMA LeaveFacts ==
    ASSUME TypeOK, StackSound, NEW t \in Threads, NEW s \in Suspended \cup Ended, Leave(t, s)
    PROVE  /\ stack' \in Seq(Threads)
           /\ st' \in [Threads -> Status]
           /\ StackSound'
           /\ \A u \in Threads \ {t} : st'[u] = st[u]
           /\ st'[t] = s
           /\ st[t] = "running"
  <1> DEFINE n == Len(stack)
  <1>1. /\ stack \in Seq(Threads) /\ n \in Nat \ {0} /\ stack[n] = t
        /\ stack' = SubSeq(stack, 1, n - 1)
        /\ st \in [Threads -> Status] /\ st' = [st EXCEPT ![t] = s]
    BY DEF TypeOK, Leave, Running, Status, Last, Front
  <1>2. stack' \in Seq(Threads) /\ Len(stack') = n - 1
        /\ \A i \in 1 .. n - 1 : stack'[i] = stack[i]
    BY <1>1, FrontFacts
  <1>3. /\ st' \in [Threads -> Status] /\ st'[t] = s /\ s # "running"
        /\ \A u \in Threads \ {t} : st'[u] = st[u]
    BY <1>1 DEF Status, Suspended, Ended
  <1>4. st[t] = "running"
    BY <1>1 DEF StackSound
  <1>5. \A i \in 1 .. n - 1 : stack[i] # t
    BY <1>1 DEF StackSound
  <1>6. \A i, j \in 1 .. Len(stack') : stack'[i] = stack'[j] => i = j
    BY <1>1, <1>2 DEF StackSound
  <1>7. ASSUME NEW u \in Threads
        PROVE  st'[u] = "running" <=> \E i \in 1 .. Len(stack') : stack'[i] = u
    <2>1. CASE u = t
      BY <1>1, <1>2, <1>3, <1>5, <2>1
    <2>2. CASE u # t
      <3>1. st[u] = "running" <=> \E i \in 1 .. n : stack[i] = u
        BY DEF StackSound
      <3>2. (\E i \in 1 .. n : stack[i] = u) <=> \E i \in 1 .. n - 1 : stack[i] = u
        BY <1>1, <2>2
      <3> QED
        BY <1>1, <1>2, <1>3, <2>2, <3>1, <3>2
    <2> QED
      BY <2>1, <2>2
  <1> QED
    BY <1>2, <1>3, <1>4, <1>6, <1>7 DEF StackSound

\* A step that neither touches the pointers nor takes a coroutine into or out of
\* swop leaves the list as it is.
LEMMA SameList ==
    ASSUME NEW q \in Seq(Threads), Spells(q), UNCHANGED list,
           \A t \in Threads : st'[t] = "swop" <=> st[t] = "swop"
    PROVE  \E r \in Seq(Threads) : Spells(r)' /\ Moves(q, r)
  BY DEF Spells, list, Moves

-----------------------------------------------------------------------------
(* The steps that move the list *)

\* swop that gives way appends the caller.
LEMMA ParkStep ==
    ASSUME TypeOK, StackSound, NEW q \in Seq(Threads), Spells(q),
           NEW t \in Threads, SwopParks(t)
    PROVE  /\ {top', lat'} \subseteq Threads \cup {None}
           /\ next' \in [Threads -> Threads \cup {None}]
           /\ \E r \in Seq(Threads) : Spells(r)' /\ Moves(q, r)
  <1> DEFINE n == Len(q)
             r == Append(q, t)
  <1>1. /\ st[t] = "running" /\ st'[t] = "swop"
        /\ \A u \in Threads \ {t} : st'[u] = st[u]
    BY LeaveFacts DEF SwopParks, Suspended
  <1>2. \A i \in 1 .. n : q[i] \in Threads /\ q[i] # t
    BY <1>1 DEF Spells
  <1>3. /\ n \in Nat /\ r \in Seq(Threads) /\ Len(r) = n + 1 /\ r[n + 1] = t
        /\ \A i \in 1 .. n : r[i] = q[i]
    OBVIOUS
  <1>4. next \in [Threads -> Threads \cup {None}] /\ None \notin Threads
    BY EventLoopAssumption DEF TypeOK
  <1>5. lat # None <=> n # 0
    BY <1>2, <1>3, <1>4 DEF Spells
  <1>6. /\ top' = IF n # 0 THEN top ELSE t
        /\ lat' = t
        /\ next' = IF n # 0 THEN [next EXCEPT ![t] = None, ![lat] = t]
                             ELSE [next EXCEPT ![t] = None]
    BY <1>5 DEF SwopParks
  <1>7. n # 0 => top = q[1] /\ lat = q[n] /\ lat \in Threads /\ lat # t
    BY <1>2, <1>3 DEF Spells
  <1>8. /\ next' \in [Threads -> Threads \cup {None}]
        /\ next'[t] = None
        /\ n # 0 => next'[q[n]] = t
        /\ \A u \in Threads : u # t /\ u # lat => next'[u] = next[u]
    BY <1>4, <1>6, <1>7
  <1>9. \A i \in 1 .. n - 1 : next'[q[i]] = q[i + 1]
    <2> SUFFICES ASSUME NEW i \in 1 .. n - 1 PROVE next'[q[i]] = q[i + 1]
      OBVIOUS
    <2>1. i \in 1 .. n /\ n \in 1 .. n /\ i # n
      BY <1>3
    <2>2. q[i] # q[n] /\ next[q[i]] = q[i + 1]
      BY <2>1 DEF Spells
    <2> QED
      BY <1>2, <1>3, <1>7, <1>8, <2>1, <2>2
  <1> HIDE DEF r
  <1>10. \A i \in 1 .. Len(r) : next'[r[i]] = IF i = Len(r) THEN None ELSE r[i + 1]
    BY <1>3, <1>8, <1>9
  <1>11. \A i, j \in 1 .. Len(r) : r[i] = r[j] => i = j
    BY <1>2, <1>3 DEF Spells
  <1>12. \A u \in Threads : st'[u] = "swop" <=> \E i \in 1 .. Len(r) : r[i] = u
    BY <1>1, <1>2, <1>3 DEF Spells
  <1>13. top' = r[1] /\ lat' = r[Len(r)] /\ Len(r) # 0
    BY <1>3, <1>6, <1>7
  <1>14. Spells(r)'
    BY <1>10, <1>11, <1>12, <1>13 DEF Spells
  <1>15. Moves(q, r)
    BY <1>2 DEF Moves, r
  <1> QED
    BY <1>3, <1>6, <1>7, <1>8, <1>14, <1>15 DEF TypeOK

\* The loop's dequeue removes the first.
LEMMA ServeStep ==
    ASSUME TypeOK, StackSound, NEW q \in Seq(Threads), Spells(q), ResumeSwop
    PROVE  /\ {top', lat'} \subseteq Threads \cup {None}
           /\ next' \in [Threads -> Threads \cup {None}]
           /\ \/ top = None /\ UNCHANGED <<stack, st>>
              \/ top \in Threads /\ st[top] = "swop" /\ Resume(top)
           /\ \E r \in Seq(Threads) : Spells(r)' /\ Moves(q, r)
  <1> DEFINE n == Len(q)
             r == Tail(q)
  <1>1. next \in [Threads -> Threads \cup {None}] /\ None \notin Threads /\ n \in Nat
    BY EventLoopAssumption DEF TypeOK
  <1>2. \A i \in 1 .. n : q[i] \in Threads /\ st[q[i]] = "swop"
    BY DEF Spells
  <1>3. CASE n = 0
    <2>1. top = None
      BY <1>3 DEF Spells
    <2>2. UNCHANGED <<stack, st, list>>
      BY <2>1 DEF ResumeSwop
    <2> QED
      BY <2>1, <2>2, SameList DEF TypeOK, list
  <1>4. CASE n # 0
    <2>0. 1 \in 1 .. n /\ n \in 1 .. n /\ (n # 1 => 2 \in 1 .. n)
      <3> HIDE DEF n
      <3> QED
        BY <1>1, <1>4
    <2>1. top = q[1] /\ top \in Threads /\ st[top] = "swop" /\ top # None
      BY <1>1, <1>2, <1>4 DEF Spells
    <2>2. /\ top' = next[top]
          /\ lat' = IF top' = None THEN None ELSE lat
          /\ next' = [next EXCEPT ![top] = None]
          /\ Resume(top)
      BY <2>1 DEF ResumeSwop, Suspended
    <2>3. q # <<>> /\ r \in Seq(Threads) /\ Len(r) = n - 1
          /\ \A i \in 1 .. n - 1 : r[i] = q[i + 1]
      BY <1>4
    <2>4. st'[top] # "swop" /\ \A u \in Threads \ {top} : st'[u] = st[u]
      BY <2>1, <2>2 DEF Resume, TypeOK
    <2>5. \A i \in 1 .. n - 1 : q[i + 1] # top
      BY <1>1, <1>4, <2>1 DEF Spells
    <2>6. \A i \in 1 .. n - 1 : next'[q[i + 1]] = IF i + 1 = n THEN None ELSE q[i + 2]
      <3> SUFFICES ASSUME NEW i \in 1 .. n - 1
                   PROVE  next'[q[i + 1]] = IF i + 1 = n THEN None ELSE q[i + 2]
        OBVIOUS
      <3>1. i + 1 \in 1 .. n
        BY <1>1
      <3>2. next[q[i + 1]] = IF i + 1 = n THEN None ELSE q[i + 1 + 1]
        BY <3>1 DEF Spells
      <3> QED
        BY <1>1, <1>2, <2>2, <2>5, <3>1, <3>2
    <2>7. top' = IF n = 1 THEN None ELSE q[2]
      <3>1. 1 \in 1 .. n
        BY <1>1, <1>4
      <3>2. next[q[1]] = IF 1 = n THEN None ELSE q[1 + 1]
        BY <3>1 DEF Spells
      <3> QED
        BY <2>1, <2>2, <3>2
    <2>8. lat' = IF n = 1 THEN None ELSE q[n]
      <3>1. lat = q[n]
        BY <1>4 DEF Spells
      <3>2. n # 1 => q[2] \in Threads
        BY <1>2, <2>0
      <3> QED
        BY <1>1, <2>2, <2>7, <3>1, <3>2
    <2> HIDE DEF r
    <2>9. /\ top' = IF Len(r) = 0 THEN None ELSE r[1]
          /\ lat' = IF Len(r) = 0 THEN None ELSE r[Len(r)]
      BY <1>1, <1>4, <2>3, <2>7, <2>8
    <2>10. \A i \in 1 .. Len(r) : next'[r[i]] = IF i = Len(r) THEN None ELSE r[i + 1]
      <3> SUFFICES ASSUME NEW i \in 1 .. Len(r)
                   PROVE  next'[r[i]] = IF i = Len(r) THEN None ELSE r[i + 1]
        OBVIOUS
      <3>1. i \in 1 .. n - 1 /\ r[i] = q[i + 1] /\ (i # Len(r) => r[i + 1] = q[i + 2])
        BY <1>1, <2>3
      <3>2. i = Len(r) <=> i + 1 = n
        BY <1>1, <2>3
      <3> QED
        BY <2>6, <3>1, <3>2
    <2>11. \A i, j \in 1 .. Len(r) : r[i] = r[j] => i = j
      BY <1>1, <2>3 DEF Spells
    <2>12. ASSUME NEW u \in Threads
           PROVE  st'[u] = "swop" <=> \E i \in 1 .. Len(r) : r[i] = u
      <3>1. CASE u = top
        BY <2>3, <2>4, <2>5, <3>1
      <3>2. CASE u # top
        <4>1. st[u] = "swop" <=> \E i \in 1 .. n : q[i] = u
          BY DEF Spells
        <4>2. ASSUME NEW i \in 1 .. n, q[i] = u
              PROVE  i - 1 \in 1 .. Len(r) /\ r[i - 1] = u
          BY <1>1, <2>1, <2>3, <3>2, <4>2
        <4>3. ASSUME NEW i \in 1 .. Len(r), r[i] = u
              PROVE  i + 1 \in 1 .. n /\ q[i + 1] = u
          BY <1>1, <2>3, <4>3
        <4> QED
          BY <2>4, <3>2, <4>1, <4>2, <4>3
      <3> QED
        BY <3>1, <3>2
    <2>13. Spells(r)'
      BY <2>9, <2>10, <2>11, <2>12 DEF Spells
    <2>14. Moves(q, r)
      BY <2>3 DEF Moves, r
    <2>15. {top', lat'} \subseteq Threads \cup {None}
      <3>1. 1 \in 1 .. n /\ n \in 1 .. n /\ (n # 1 => 2 \in 1 .. n)
        BY <2>0
      <3> QED
        BY <1>2, <2>7, <2>8, <3>1
    <2> QED
      BY <1>1, <2>1, <2>2, <2>3, <2>13, <2>14, <2>15
  <1> QED
    BY <1>3, <1>4

-----------------------------------------------------------------------------
(* Every step *)

\* Every step keeps the invariant and does to the list what a first-in first-out
\* queue allows.
LEMMA Step ==
    ASSUME TypeOK, StackSound, DueSound, NEW q \in Seq(Threads), Spells(q), [Next]_vars
    PROVE  /\ TypeOK' /\ StackSound' /\ DueSound'
           /\ \E r \in Seq(Threads) : Spells(r)' /\ Moves(q, r)
  <1> USE DEF Status
  <1>1. ASSUME NEW t \in Threads, Spawn(t)
        PROVE  TypeOK' /\ StackSound' /\ DueSound'
               /\ \E r \in Seq(Threads) : Spells(r)' /\ Moves(q, r)
    <2>1. /\ st[t] = "absent" /\ Resume(t)
          /\ UNCHANGED <<loop, job_L, due, swop_counter, list>>
      BY <1>1 DEF Spawn
    <2>2. /\ stack' \in Seq(Threads) /\ st' \in [Threads -> Status] /\ StackSound'
          /\ st'[t] = "running" /\ \A u \in Threads \ {t} : st'[u] = st[u]
      BY <2>1, ResumeFacts
    <2>3. TypeOK'
      BY <2>1, <2>2 DEF TypeOK, list
    <2>4. DueSound'
      BY <2>1, <2>2 DEF DueSound, TypeOK
    <2> QED
      BY <2>1, <2>2, <2>3, <2>4, SameList
  <1>2. ASSUME NEW t \in Threads, NEW s \in {"io", "sleep"} \cup Ended, Leave(t, s),
               UNCHANGED <<loop, job_L, due, swop_counter, list>>
        PROVE  TypeOK' /\ StackSound' /\ DueSound'
               /\ \E r \in Seq(Threads) : Spells(r)' /\ Moves(q, r)
    <2>1. s \in Suspended \cup Ended /\ s # "swop"
      BY DEF Suspended, Ended
    <2>2. /\ stack' \in Seq(Threads) /\ st' \in [Threads -> Status] /\ StackSound'
          /\ st[t] = "running" /\ st'[t] = s /\ \A u \in Threads \ {t} : st'[u] = st[u]
      BY <1>2, <2>1, LeaveFacts
    <2>3. TypeOK'
      BY <1>2, <2>2 DEF TypeOK, list
    <2>4. DueSound'
      BY <1>2, <2>2 DEF DueSound, TypeOK
    <2> QED
      BY <1>2, <2>1, <2>2, <2>3, <2>4, SameList
  <1>3. ASSUME NEW t \in Threads, SwopReturns(t)
        PROVE  TypeOK' /\ StackSound' /\ DueSound'
               /\ \E r \in Seq(Threads) : Spells(r)' /\ Moves(q, r)
    <2>1. /\ UNCHANGED <<loop, job_L, stack, st, due, list>>
          /\ swop_counter < Limit /\ swop_counter' = swop_counter + 1
      BY <1>3 DEF SwopReturns
    <2>2. swop_counter' \in 0 .. Limit
      BY <2>1, EventLoopAssumption DEF TypeOK
    <2>3. TypeOK' /\ StackSound' /\ DueSound'
      BY <2>1, <2>2 DEF TypeOK, list, StackSound, DueSound
    <2> QED
      BY <2>1, <2>3, SameList
  <1>4. ASSUME NEW t \in Threads, SwopParks(t)
        PROVE  TypeOK' /\ StackSound' /\ DueSound'
               /\ \E r \in Seq(Threads) : Spells(r)' /\ Moves(q, r)
    <2>1. /\ Leave(t, "swop") /\ swop_counter' = 0 /\ UNCHANGED <<loop, job_L, due>>
          /\ "swop" \in Suspended \cup Ended
      BY <1>4 DEF SwopParks, Suspended
    <2>2. /\ stack' \in Seq(Threads) /\ st' \in [Threads -> Status] /\ StackSound'
          /\ st[t] = "running" /\ \A u \in Threads \ {t} : st'[u] = st[u]
      BY <2>1, LeaveFacts
    <2>3. /\ {top', lat'} \subseteq Threads \cup {None}
          /\ next' \in [Threads -> Threads \cup {None}]
          /\ \E r \in Seq(Threads) : Spells(r)' /\ Moves(q, r)
      BY <1>4, ParkStep
    <2>4. 0 \in 0 .. Limit
      BY EventLoopAssumption
    <2>5. TypeOK'
      BY <2>1, <2>2, <2>3, <2>4 DEF TypeOK
    <2>6. DueSound'
      BY <2>1, <2>2 DEF DueSound, TypeOK
    <2> QED
      BY <2>2, <2>3, <2>5, <2>6
  <1>5. ASSUME NEW m \in Mains, StartLoop(m)
        PROVE  TypeOK' /\ StackSound' /\ DueSound'
               /\ \E r \in Seq(Threads) : Spells(r)' /\ Moves(q, r)
    <2>1. /\ m \in Threads /\ st[m] = "absent" /\ Resume(m) /\ loop' = "starting" /\ job_L' = m
          /\ UNCHANGED <<due, swop_counter, list>>
      BY <1>5, EventLoopAssumption DEF StartLoop
    <2>2. /\ stack' \in Seq(Threads) /\ st' \in [Threads -> Status] /\ StackSound'
          /\ st'[m] = "running" /\ \A u \in Threads \ {m} : st'[u] = st[u]
      BY <2>1, ResumeFacts
    <2>3. TypeOK'
      BY <2>1, <2>2 DEF TypeOK, list
    <2>4. DueSound'
      BY <2>1, <2>2 DEF DueSound, TypeOK
    <2> QED
      BY <2>1, <2>2, <2>3, <2>4, SameList
  <1>6. ASSUME NEW t \in Threads, ResumeDue(t)
        PROVE  TypeOK' /\ StackSound' /\ DueSound'
               /\ \E r \in Seq(Threads) : Spells(r)' /\ Moves(q, r)
    <2>1. /\ t \in due /\ st[t] = "io" /\ Resume(t) /\ due' = due \ {t}
          /\ UNCHANGED <<loop, job_L, swop_counter, list>>
      BY <1>6 DEF ResumeDue, DueSound
    <2>2. /\ stack' \in Seq(Threads) /\ st' \in [Threads -> Status] /\ StackSound'
          /\ st'[t] = "running" /\ \A u \in Threads \ {t} : st'[u] = st[u]
      BY <2>1, ResumeFacts
    <2>3. TypeOK'
      BY <2>1, <2>2 DEF TypeOK, list
    <2>4. DueSound'
      BY <2>1, <2>2 DEF DueSound, TypeOK
    <2> QED
      BY <2>1, <2>2, <2>3, <2>4, SameList
  <1>7. ASSUME UNCHANGED <<job_L, stack, st, list>>, swop_counter' \in 0 .. Limit,
               loop' \in {"off", "events", "pool", "sleep"},
               \/ UNCHANGED due
               \/ due' \subseteq Doing("io")
        PROVE  TypeOK' /\ StackSound' /\ DueSound'
               /\ \E r \in Seq(Threads) : Spells(r)' /\ Moves(q, r)
    <2>1. StackSound' /\ DueSound'
      BY <1>7 DEF StackSound, DueSound, Doing
    <2>2. TypeOK'
      BY <1>7 DEF TypeOK, list, Doing
    <2> QED
      BY <1>7, <2>1, <2>2, SameList
  <1>8. swop_counter \in 0 .. Limit /\ swop_counter \div 2 \in 0 .. Limit
    BY EventLoopAssumption DEF TypeOK
  <1>9. CASE EnterLoop \/ TestJob
    BY <1>7, <1>8, <1>9 DEF EnterLoop, TestJob, Polls
  <1>10. CASE DoOtherJobs
    BY <1>7, <1>8, <1>10 DEF DoOtherJobs
  <1>11. CASE CheckSleepers
    BY <1>7, <1>8, <1>11 DEF CheckSleepers
  <1>12. CASE ResumeSwop
    <2>1. /\ {top', lat'} \subseteq Threads \cup {None}
          /\ next' \in [Threads -> Threads \cup {None}]
          /\ \E r \in Seq(Threads) : Spells(r)' /\ Moves(q, r)
      BY <1>12, ServeStep
    <2>2. loop' = "test" /\ UNCHANGED <<job_L, due, swop_counter>>
      BY <1>12 DEF ResumeSwop
    <2>3. CASE top = None /\ UNCHANGED <<stack, st>>
      BY <2>1, <2>2, <2>3 DEF TypeOK, StackSound, DueSound
    <2>4. CASE top \in Threads /\ st[top] = "swop" /\ Resume(top)
      <3>1. /\ stack' \in Seq(Threads) /\ st' \in [Threads -> Status] /\ StackSound'
            /\ \A u \in Threads \ {top} : st'[u] = st[u]
        BY <2>4, ResumeFacts
      <3>2. TypeOK'
        BY <2>1, <2>2, <3>1 DEF TypeOK
      <3>3. DueSound'
        BY <2>2, <2>4, <3>1 DEF DueSound, TypeOK
      <3> QED
        BY <2>1, <3>1, <3>2, <3>3
    <2> QED
      BY <1>12, <2>3, <2>4, ServeStep
  <1>13. CASE UNCHANGED vars
    <2>1. TypeOK' /\ StackSound' /\ DueSound' /\ UNCHANGED list
      BY <1>13 DEF vars, TypeOK, StackSound, DueSound, list
    <2> QED
      BY <1>13, <2>1, SameList DEF vars
  <1>14. ASSUME NEW t \in Threads, (\E s \in {"io", "sleep"} : Suspend(t, s)) \/ \E s \in Ended : End(t, s)
         PROVE  TypeOK' /\ StackSound' /\ DueSound'
                /\ \E r \in Seq(Threads) : Spells(r)' /\ Moves(q, r)
    <2>1. PICK s \in {"io", "sleep"} \cup Ended :
              Leave(t, s) /\ UNCHANGED <<loop, job_L, due, swop_counter, list>>
      <3>1. CASE \E s \in {"io", "sleep"} : Suspend(t, s)
        BY <3>1 DEF Suspend
      <3>2. CASE \E s \in Ended : End(t, s)
        <4>1. PICK s \in Ended : End(t, s)
          BY <3>2
        <4>2. s \in {"io", "sleep"} \cup Ended
          OBVIOUS
        <4> QED
          BY <4>1, <4>2 DEF End
      <3> QED
        BY <1>14, <3>1, <3>2
    <2> QED
      BY <1>2, <2>1
  <1>15. CASE CoroutineStep
    BY <1>1, <1>3, <1>4, <1>14, <1>15 DEF CoroutineStep
  <1>16. ASSUME NEW t \in Threads, WakeSleeper(t)
         PROVE  TypeOK' /\ StackSound' /\ DueSound'
                /\ \E r \in Seq(Threads) : Spells(r)' /\ Moves(q, r)
    <2>1. /\ st[t] = "sleep" /\ Resume(t)
          /\ UNCHANGED <<loop, job_L, due, swop_counter, list>>
      BY <1>16 DEF WakeSleeper
    <2>2. /\ stack' \in Seq(Threads) /\ st' \in [Threads -> Status] /\ StackSound'
          /\ st'[t] = "running" /\ \A u \in Threads \ {t} : st'[u] = st[u]
      BY <2>1, ResumeFacts
    <2>3. TypeOK'
      BY <2>1, <2>2 DEF TypeOK, list
    <2>4. DueSound'
      BY <2>1, <2>2 DEF DueSound, TypeOK
    <2> QED
      BY <2>1, <2>2, <2>3, <2>4, SameList
  <1>17. CASE LoopStep
    BY <1>6, <1>9, <1>10, <1>11, <1>12, <1>16, <1>17 DEF LoopStep
  <1> QED
    BY <1>5, <1>13, <1>15, <1>17 DEF Next

\* The list is empty when the program starts.
LEMMA Start ==
    ASSUME Init
    PROVE  TypeOK /\ StackSound /\ DueSound /\ \E q \in Seq(Threads) : Len(q) = 0 /\ Spells(q)
  <1>1. TypeOK /\ StackSound /\ DueSound
    BY EventLoopAssumption DEF Init, TypeOK, StackSound, DueSound, Suspended, Ended
  <1>2. PICK q \in Seq(Threads) : Len(q) = 0
    <2>1. stack \in Seq(Threads) /\ Len(stack) = 0
      BY <1>1 DEF TypeOK, Init
    <2> QED
      BY <2>1
  <1>3. Spells(q)
    BY <1>2 DEF Init, Spells
  <1> QED
    BY <1>1, <1>2, <1>3

\* The invariant is inductive.
THEOREM Inductive == Spec => []IInv
  <1>1. Init => IInv
    BY Start DEF IInv
  <1>2. IInv /\ [Next]_vars => IInv'
    <2> SUFFICES ASSUME IInv, [Next]_vars PROVE IInv'
      OBVIOUS
    <2>1. PICK q \in Seq(Threads) : Spells(q)
      BY DEF IInv
    <2>2. /\ TypeOK' /\ StackSound' /\ DueSound'
          /\ \E r \in Seq(Threads) : Spells(r)' /\ Moves(q, r)
      BY <2>1, Step DEF IInv
    <2> QED
      BY <2>2 DEF IInv
  <1> QED
    BY <1>1, <1>2, PTL DEF Spec

\* A list the pointers spell out is sound.
LEMMA SpelledIsSound ==
    ASSUME TypeOK, NEW q \in Seq(Threads), Spells(q)
    PROVE  ListSound
  <1>1. Walk = q
    BY WalkSpells
  <1>2. q \in [1 .. Len(q) -> Threads] /\ DOMAIN q = 1 .. Len(q) /\ Len(q) \in Nat
    OBVIOUS
  <1>3. Len(q) <= Cardinality(Threads) /\ IsInjective(q)
    <2>1. IsFiniteSet(1 .. Len(q)) /\ Cardinality(1 .. Len(q)) = Len(q)
      BY <1>2, UpTo
    <2>2. IsInjective(q)
      <3>1. \A i, j \in 1 .. Len(q) : q[i] = q[j] => i = j
        BY DEF Spells
      <3> QED
        BY <1>2, <3>1 DEF IsInjective
    <2>3. q \in Injection(1 .. Len(q), Threads)
      BY <1>2, <2>2 DEF Injection
    <2> QED
      BY <2>1, <2>2, <2>3, EventLoopAssumption, FS_Injection
  <1>4. lat = IF q = <<>> THEN None ELSE Last(q)
    BY DEF Spells, Last
  <1>5. Range(q) = Doing("swop")
    <2>1. \A t \in Threads : st[t] = "swop" <=> \E i \in DOMAIN q : q[i] = t
      BY <1>2 DEF Spells
    <2>2. \A i \in DOMAIN q : q[i] \in Threads
      BY <1>2
    <2> QED
      BY <2>1, <2>2 DEF Range, Doing
  <1> QED
    BY <1>1, <1>3, <1>4, <1>5 DEF ListSound

\* ListSound for every number of coroutines: the linked list that
\* lua_f_coroutine_swop appends to and coevnet_module_do_other_jobs takes from has
\* no cycle, its tail pointer is right, and it holds exactly the coroutines
\* suspended in swop.
THEOREM ListIsSound == Spec => []ListSound
  <1>1. IInv => ListSound
    BY SpelledIsSound DEF IInv
  <1> QED
    BY <1>1, Inductive, PTL

\* The list implements a first-in first-out queue: every step of the program either
\* leaves the walk along the pointers as it is, appends a coroutine that is not on
\* it, or takes its first.
THEOREM ListIsQueue == Spec => FirstComeFirstServed
  <1>1. Init => Queue!Init
    BY Start, WalkSpells DEF Queue!Init
  <1>0. (\A q \in Seq(Threads) : TypeOK /\ Spells(q) => Walk = q)'
    BY WalkSpells, PTL
  <1>2. IInv /\ [Next]_vars => [Queue!Next]_Walk
    <2> SUFFICES ASSUME IInv, [Next]_vars PROVE [Queue!Next]_Walk
      OBVIOUS
    <2>1. PICK q \in Seq(Threads) : Spells(q)
      BY DEF IInv
    <2>2. TypeOK' /\ \E r \in Seq(Threads) : Spells(r)' /\ Moves(q, r)
      BY <2>1, Step DEF IInv
    <2>3. PICK r \in Seq(Threads) : Spells(r)' /\ Moves(q, r)
      BY <2>2
    <2>4. Walk = q
      BY <2>1, WalkSpells DEF IInv
    <2>5. Walk' = r
      BY <1>0, <2>2, <2>3
    <2> QED
      BY <2>3, <2>4, <2>5 DEF Moves, Queue!Next, Queue!Join, Queue!Serve
  <1> QED
    BY <1>1, <1>2, Inductive, PTL DEF Spec, FirstComeFirstServed, Queue!Spec
=============================================================================
