------------------------------ MODULE EventLoop ------------------------------
(***************************************************************************)
(* startloop, a turn of the event loop, and swop: src/coevent.c.           *)
(*                                                                         *)
(* Everything runs on one C stack.  The loop resumes a coroutine, which    *)
(* runs until it suspends itself or ends, and may start others, which then *)
(* run inside it; the loop continues when the stack is empty again.  The   *)
(* calls that suspend a coroutine for the network or the clock, and the    *)
(* handlers that resume it, are Cosocket and SleepWheel; here they are     *)
(* Suspend and the resumptions of one phase of a turn.                     *)
(***************************************************************************)
EXTENDS Integers, Sequences, FiniteSets, SequencesExt

CONSTANTS
    Threads,  \* coroutines
    Mains,    \* those that startloop makes from the functions it is given
    Limit,    \* calls of swop that return at once: 800 in the code
    None

ASSUME EventLoopAssumption ==
    /\ Limit \in Nat
    /\ IsFiniteSet(Threads)
    /\ Mains \subseteq Threads
    /\ None \notin Threads

VARIABLES
    loop,          \* where startloop is in its turn
    job_L,         \* the coroutine made by the last startloop
    stack,         \* the coroutines running now, the innermost last
    st,            \* what each coroutine is doing
    due,           \* the coroutines this phase of the turn still resumes
    swop_counter,
    top,           \* swop_top->next
    lat,           \* swop_lat
    next           \* next of each coroutine's list node

list == <<top, lat, next>>
vars == <<loop, job_L, stack, st, due, swop_counter, top, lat, next>>

\* The coroutine returned, or failed with a Lua error.
Ended == {"returned", "failed"}
Suspended == {"io", "sleep", "swop"}

TypeOK ==
    /\ loop \in {"off", "starting", "events", "pool", "sleep", "swop", "test"}
    /\ job_L \in Mains \cup {None}
    /\ stack \in Seq(Threads)
    /\ st \in [Threads -> {"absent", "running"} \cup Suspended \cup Ended]
    /\ due \subseteq Threads
    /\ swop_counter \in 0 .. Limit
    /\ {top, lat} \subseteq Threads \cup {None}
    /\ next \in [Threads -> Threads \cup {None}]

Init ==
    /\ loop = "off"
    /\ job_L = None
    /\ stack = <<>>
    /\ st = [t \in Threads |-> "absent"]
    /\ due = {}
    /\ swop_counter = 0
    /\ top = None
    /\ lat = None
    /\ next = [t \in Threads |-> None]

-----------------------------------------------------------------------------
(* What a running coroutine does *)

Running(t) == stack # <<>> /\ Last(stack) = t
Doing(s) == {t \in Threads : st[t] = s}

\* lua_resume: t runs until it leaves the stack.
Resume(t) ==
    /\ stack' = Append(stack, t)
    /\ st' = [st EXCEPT ![t] = "running"]

\* t suspends itself or ends; control is back where it was resumed.
Leave(t, s) ==
    /\ Running(t)
    /\ stack' = Front(stack)
    /\ st' = [st EXCEPT ![t] = s]

\* newthread: the child runs at once, inside its parent.
Spawn(t) ==
    /\ stack # <<>>
    /\ t \notin Mains
    /\ st[t] = "absent"
    /\ Resume(t)
    /\ UNCHANGED <<loop, job_L, due, swop_counter, list>>

\* A call that waits for the network or for the clock.
Suspend(t, s) ==
    /\ Leave(t, s)
    /\ UNCHANGED <<loop, job_L, due, swop_counter, list>>

End(t, s) ==
    /\ Leave(t, s)
    /\ UNCHANGED <<loop, job_L, due, swop_counter, list>>

\* Mutant: the counter starts again before the limit.
Bug_WrapsAround(t) ==
    /\ Running(t)
    /\ swop_counter < Limit
    /\ swop_counter' = (swop_counter + 1) % Limit
    /\ UNCHANGED <<loop, job_L, stack, st, due, list>>

\* swop returns false at once, and the caller keeps running.
SwopReturns(t) ==
    /\ Running(t)
    /\ swop_counter < Limit
    /\ swop_counter' = swop_counter + 1
    /\ UNCHANGED <<loop, job_L, stack, st, due, list>>

\* swop gives way: its node goes to the end of the list.
SwopParks(t) ==
    /\ swop_counter >= Limit
    /\ Leave(t, "swop")
    /\ swop_counter' = 0
    /\ next' = IF lat # None THEN [next EXCEPT ![t] = None, ![lat] = t]
                             ELSE [next EXCEPT ![t] = None]
    /\ top' = IF lat # None THEN top ELSE t
    /\ lat' = t
    /\ UNCHANGED <<loop, job_L, due>>

CoroutineStep ==
    \E t \in Threads :
        \/ Spawn(t)
        \/ \E s \in {"io", "sleep"} : Suspend(t, s)
        \/ \E s \in Ended : End(t, s)
        \/ SwopReturns(t)
        \/ SwopParks(t)

-----------------------------------------------------------------------------
(* startloop and a turn of the loop *)

At(phase) == loop = phase /\ stack = <<>>

\* The program calls startloop, for the first time or after an earlier loop
\* ended; the function runs before the loop starts.
StartLoop(m) ==
    /\ At("off")
    /\ m \in Mains
    /\ st[m] = "absent"
    /\ loop' = "starting"
    /\ job_L' = m
    /\ Resume(m)
    /\ UNCHANGED <<due, swop_counter, list>>

\* One poll of epoll: any of the coroutines that wait for it.
Polls ==
    /\ loop' = "events"
    /\ due' \in SUBSET Doing("io")

\* The first resume is over: a failure with a message is an error of startloop
\* and there is no loop; otherwise se_loop starts.
EnterLoop ==
    /\ At("starting")
    /\ \/ Polls
       \/ st[job_L] = "failed" /\ loop' = "off" /\ UNCHANGED due
    /\ UNCHANGED <<job_L, stack, st, swop_counter, list>>

\* A handler of se_loop, or the pool's service of one waiting connect, resumes one
\* of the coroutines that were found ready.
ResumeDue(t) ==
    /\ stack = <<>>
    /\ t \in due
    /\ due' = due \ {t}
    /\ Resume(t)
    /\ UNCHANGED <<loop, job_L, swop_counter, list>>

\* coevnet_module_do_other_jobs: the counter is halved, then the pool may serve
\* one coroutine that waits for a connection.
DoOtherJobs ==
    /\ At("events")
    /\ due = {}
    /\ loop' = "pool"
    /\ swop_counter' = swop_counter \div 2
    /\ due' \in {{}} \cup {{t} : t \in Doing("io")}
    /\ UNCHANGED <<job_L, stack, st, list>>

\* check_lua_sleep_timeouts starts.
CheckSleepers ==
    /\ At("pool")
    /\ due = {}
    /\ loop' = "sleep"
    /\ UNCHANGED <<job_L, stack, st, due, swop_counter, list>>

\* The check wakes a sleeper.  It reads the clock again after each, so that one
\* that began to sleep during the check may be woken by it too, and nothing bounds
\* how many it wakes.
WakeSleeper(t) ==
    /\ At("sleep")
    /\ st[t] = "sleep"
    /\ Resume(t)
    /\ UNCHANGED <<loop, job_L, due, swop_counter, list>>

\* Mutants of ResumeSwop: the tail pointer is cleared always, or never; the
\* node is taken and its coroutine not resumed.
Bug_TailCleared ==
    /\ At("sleep")
    /\ due = {}
    /\ loop' = "test"
    /\ IF top = None
       THEN UNCHANGED <<stack, st, list>>
       ELSE Resume(top) /\ top' = next[top] /\ lat' = None /\ UNCHANGED next
    /\ UNCHANGED <<job_L, due, swop_counter>>

Bug_TailKept ==
    /\ At("sleep")
    /\ due = {}
    /\ loop' = "test"
    /\ IF top = None
       THEN UNCHANGED <<stack, st, list>>
       ELSE Resume(top) /\ top' = next[top] /\ UNCHANGED <<lat, next>>
    /\ UNCHANGED <<job_L, due, swop_counter>>

Bug_TakenOnly ==
    /\ At("sleep")
    /\ due = {}
    /\ loop' = "test"
    /\ IF top = None
       THEN UNCHANGED <<stack, st, list>>
       ELSE /\ top' = next[top]
            /\ lat' = IF top' = None THEN None ELSE lat
            /\ UNCHANGED <<stack, st, next>>
    /\ UNCHANGED <<job_L, due, swop_counter>>

\* The check is over, and do_other_jobs resumes the first of the swop list.
\* Its node is freed; None stands for what the freed memory holds.
ResumeSwop ==
    /\ At("sleep")
    /\ due = {}
    /\ loop' = "test"
    /\ IF top = None
       THEN UNCHANGED <<stack, st, list>>
       ELSE /\ top' = next[top]
            /\ lat' = IF top' = None THEN None ELSE lat
            /\ next' = [next EXCEPT ![top] = None]
            /\ IF st[top] \in Suspended THEN Resume(top) ELSE UNCHANGED <<stack, st>>
    /\ UNCHANGED <<job_L, due, swop_counter>>

\* Mutant: the loop runs for as long as any coroutine is suspended.
Bug_AnySuspended ==
    /\ At("test")
    /\ IF \E t \in Threads : st[t] \in Suspended THEN Polls ELSE loop' = "off" /\ UNCHANGED due
    /\ UNCHANGED <<job_L, stack, st, swop_counter, list>>

\* _do_other_jobs tells se_loop to go on while job_L is suspended.
TestJob ==
    /\ At("test")
    /\ IF st[job_L] \in Suspended THEN Polls ELSE loop' = "off" /\ UNCHANGED due
    /\ UNCHANGED <<job_L, stack, st, swop_counter, list>>

LoopStep ==
    \/ EnterLoop
    \/ \E t \in Threads : ResumeDue(t) \/ WakeSleeper(t)
    \/ DoOtherJobs
    \/ CheckSleepers
    \/ ResumeSwop
    \/ TestJob

Next == CoroutineStep \/ LoopStep \/ \E m \in Mains : StartLoop(m)

Spec == Init /\ [][Next]_vars

\* The loop takes its turns for as long as it runs, and no coroutine computes
\* forever without a call that suspends it, that ends it or that is swop.
FairSpec == Spec /\ WF_vars(LoopStep) /\ WF_vars(CoroutineStep)

-----------------------------------------------------------------------------
(* Properties *)

\* The list from swop_top->next on: the node after i others, None past the end.
Node == LET nd[i \in 0 .. Cardinality(Threads)] ==
                IF i = 0 THEN top
                ELSE IF nd[i - 1] = None THEN None ELSE next[nd[i - 1]]
        IN  nd

Walk == LET n == Cardinality({i \in DOMAIN Node : Node[i] # None})
        IN  [i \in 1 .. n |-> Node[i - 1]]

\* The list is sound: it has no cycle, the tail pointer is its last node or NULL
\* when it is empty, and the coroutines on it are exactly those suspended in swop,
\* across every mix of lua_f_coroutine_swop and coevnet_module_do_other_jobs.  (The
\* types of the variables are part of it.)
ListSound ==
    /\ TypeOK
    /\ Len(Walk) <= Cardinality(Threads)
    /\ lat = IF Walk = <<>> THEN None ELSE Last(Walk)
    /\ Range(Walk) = Doing("swop")
    /\ IsInjective(Walk)

Queue == INSTANCE SwopQueue WITH queue <- Walk

\* The linked list behaves as a first-in first-out queue of coroutines: swop and
\* the loop's dequeue implement Join and Serve of SwopQueue.
FirstComeFirstServed == Queue!Spec

\* The loop gets control back: coroutines that call swop, however often and
\* however deeply nested, cannot keep it from the others, although most calls
\* return at once.
LoopRegainsControl == (stack # <<>>) ~> (stack = <<>>)

\* Every check of the sleepers comes to an end.  check_lua_sleep_timeouts does not
\* see to it: it goes on while there are ticks it has not looked at, and coroutines
\* that always compute for longer than they then sleep keep it from catching up.
ChecksEnd == (loop = "sleep") ~> (loop # "sleep")

\* A coroutine that gave way in swop runs again, unless the loop ends first: the
\* loop resumes one of the list in a turn (coevnet_module_do_other_jobs), however
\* many join it, provided that the checks of the sleepers end.
SwopResumes ==
    ChecksEnd => \A t \in Threads : st[t] = "swop" ~> (st[t] # "swop" \/ loop = "off")

\* Once startloop's coroutine has ended the loop ends too (_do_other_jobs), also
\* while others wait for the network, the clock or in swop, provided that the
\* checks of the sleepers end.
LoopEndsWithMain ==
    ChecksEnd => \A m \in Mains : (job_L = m /\ st[m] \in Ended) ~> (loop = "off")
=============================================================================
