------------------------------ MODULE Uthread -------------------------------
(***************************************************************************)
(* Light threads: src/lua-uthread.c.  spawn, create, resume and wait, and  *)
(* the two C functions that run a coroutine and, when it ends, resume the  *)
(* coroutines waiting for it.                                              *)
(*                                                                         *)
(* lua_resume nests: a coroutine that ends resumes its waiters one after   *)
(* the other from inside lua_f_lua_uthread_resume_waitings, each of them   *)
(* runs Lua code, may end in turn and resume its own waiters, all before   *)
(* the outer loop goes on to its next waiter.  The variable stack holds    *)
(* these nested calls, innermost last.                                     *)
(***************************************************************************)
EXTENDS Integers, Sequences, FiniteSets, FiniteSetsExt, SequencesExt

CONSTANTS
    Threads,     \* coroutines
    Main,        \* job_L, the function given to startloop
    LIMIT,       \* the 6 of waiting[6]
    WMod,        \* 2^16: w is an uint16_t
    MaxArgs      \* bound on the number of threads passed to one wait

ASSUME UthreadAssumption ==
    /\ Main \in Threads
    /\ LIMIT \in Nat
    /\ WMod \in Nat \ {0}
    /\ MaxArgs \in Nat

VARIABLES
    st,      \* lua_status, and whether the coroutine exists and has started
    why,     \* what a suspended coroutine is suspended in
    tree,    \* the rb_key_t of each coroutine: waiting[], w and wd
    stack,   \* the nested calls
    res,     \* the coroutine has ended and left results on its Lua stack
    asked,   \* history: of the last wait's arguments, those it waits for and the ended ones
    got      \* history: what the last wait of a coroutine returned

vars == <<st, why, tree, stack, res, asked, got>>

Status == {"absent", "new", "running", "yield", "dead"}
Reason == {"none", "io", "user", "wait"}

\* rb_key_t; its n is the length of waiting.
RbKey == [waiting : BoundedSeq(Threads, LIMIT), w : 0 .. WMod - 1, wd : BOOLEAN]
NewKey == [waiting |-> <<>>, w |-> 0, wd |-> FALSE]

\* A coroutine executing Lua code, or the loop over the waiters of a coroutine
\* that has ended, with the index of the next one.
RunFrame == [kind : {"run"}, t : Threads]
EndFrame == [kind : {"end"}, t : Threads, i : Nat]

Run(t) == [kind |-> "run", t |-> t]

TypeOK ==
    /\ st \in [Threads -> Status]
    /\ why \in [Threads -> Reason]
    /\ tree \in [Threads -> RbKey]
    /\ stack \in Seq(RunFrame \cup EndFrame)
    /\ res \in [Threads -> BOOLEAN]
    /\ asked \in [Threads -> SUBSET Threads]
    /\ got \in [Threads -> {"nothing", "results", "boolean", "zero"}]

Init ==
    /\ st = [t \in Threads |-> IF t = Main THEN "running" ELSE "absent"]
    /\ why = [t \in Threads |-> "none"]
    /\ tree = [t \in Threads |-> NewKey]
    /\ stack = <<Run(Main)>>
    /\ res = [t \in Threads |-> FALSE]
    /\ asked = [t \in Threads |-> {}]
    /\ got = [t \in Threads |-> "nothing"]

\* Coroutine t is the one executing Lua code.
Executes(t) == stack # <<>> /\ Last(stack) = Run(t)

\* lua_resume(co): co runs on top of everything else.
Enter(co) ==
    /\ st' = [st EXCEPT ![co] = "running"]
    /\ why' = [why EXCEPT ![co] = "none"]

\* lua_yield(t): back to whoever resumed it.
Leave(t, reason) ==
    /\ st' = [st EXCEPT ![t] = "yield"]
    /\ why' = [why EXCEPT ![t] = reason]
    /\ stack' = Front(stack)

\* The histories of t's last wait are kept until t suspends itself or ends.
Forget(t) ==
    /\ asked' = [asked EXCEPT ![t] = {}]
    /\ got' = [got EXCEPT ![t] = "nothing"]

-----------------------------------------------------------------------------
\* lua_f_lua_uthread_create.
Create(t, co) ==
    /\ Executes(t)
    /\ st[co] = "absent"
    /\ st' = [st EXCEPT ![co] = "new"]
    /\ UNCHANGED <<why, tree, stack, res, asked, got>>

\* lua_f_lua_uthread_spawn: create and run.
Spawn(t, co) ==
    /\ Executes(t)
    /\ st[co] = "absent"
    /\ Enter(co)
    /\ stack' = Append(stack, Run(co))
    /\ UNCHANGED <<tree, res, asked, got>>

\* lua_f_lua_uthread_resume, coroutine.resume, of a coroutine that has not
\* started or that has called coroutine.yield.
ResumeCall(t, co) ==
    /\ Executes(t)
    /\ st[co] = "new" \/ why[co] = "user"
    /\ Enter(co)
    /\ stack' = Append(stack, Run(co))
    /\ UNCHANGED <<tree, res, asked, got>>

\* The event loop resumes a coroutine whose socket, file or sleep is done; it
\* runs as long as the main coroutine is suspended.
LoopResumes(co) ==
    /\ stack = <<>>
    /\ st[Main] = "yield"
    /\ why[co] = "io"
    /\ Enter(co)
    /\ stack' = <<Run(co)>>
    /\ UNCHANGED <<tree, res, asked, got>>

\* The running coroutine suspends itself: coroutine.yield, or a call to a
\* cosocket, sleep, swop or eio.
Yield(t, reason) ==
    /\ Executes(t)
    /\ Leave(t, reason)
    /\ Forget(t)
    /\ UNCHANGED <<tree, res>>

-----------------------------------------------------------------------------
\* The loop of lua_f_lua_uthread_wait over its arguments: L is added to the
\* waiting list of every suspended one that has room.
Registers(key, co) == st[co] = "yield" /\ Len(key[co].waiting) < LIMIT
\* Mutant of Register: w is set, not counted up.
Bug_NotCounted(key, L, co) ==
    [key EXCEPT ![co].waiting = Append(@, L), ![L].w = 1, ![L].wd = FALSE]

Register(key, L, co) ==
    LET listed == [key EXCEPT ![co].waiting = Append(@, L)]
        w == (listed[L].w + 1) % WMod
    IN  [listed EXCEPT ![L].w = w, ![L].wd = @ \/ w > 1]
WaitOn(L, args) ==
    FoldLeft(LAMBDA acc, co :
                IF Registers(acc.tree, co)
                THEN [tree |-> Register(acc.tree, L, co), waited |-> acc.waited + 1]
                ELSE acc,
             [tree |-> tree, waited |-> 0], args)

\* lua_f_lua_uthread_wait.
Wait(t, args) ==
    LET r == WaitOn(t, args) IN
    /\ Executes(t)
    /\ tree' = r.tree
    /\ asked' = [asked EXCEPT ![t] = {co \in Range(args) : st[co] = "dead" \/ t \in Range(r.tree[co].waiting)}]
    /\ UNCHANGED res
    /\ IF r.waited > 0
       THEN Leave(t, "wait") /\ got' = [got EXCEPT ![t] = "nothing"]
       ELSE /\ got' = [got EXCEPT ![t] = "zero"]
            /\ UNCHANGED <<st, why, stack>>

-----------------------------------------------------------------------------
\* The running coroutine returns, with results or without, or ends with an
\* error, whose message is then its result.  lua_f_lua_uthread_resume_waitings
\* begins.
End(t, n) ==
    /\ Executes(t)
    /\ st' = [st EXCEPT ![t] = "dead"]
    /\ res' = [res EXCEPT ![t] = n]
    /\ stack' = Append(Front(stack), [kind |-> "end", t |-> t, i |-> 1])
    /\ Forget(t)
    /\ UNCHANGED <<why, tree>>

\* The innermost call is the loop over the waiters of t.
Ending(t) == stack # <<>> /\ Last(stack).kind = "end" /\ Last(stack).t = t

\* Mutant of EndNext: a suspended waiter is resumed without asking whether it
\* waits for others too.
Bug_FirstEnd(t) ==
    LET i == Last(stack).i
        co == tree[t].waiting[i]
        next == Append(Front(stack), [Last(stack) EXCEPT !.i = i + 1])
    IN
    /\ Ending(t)
    /\ i <= Len(tree[t].waiting)
    /\ UNCHANGED <<res, asked>>
    /\ IF st[co] # "yield"
       THEN stack' = next /\ UNCHANGED <<st, why, tree, got>>
       ELSE /\ stack' = Append(next, Run(co))
            /\ Enter(co)
            /\ tree' = [tree EXCEPT ![co].w = 0, ![co].wd = FALSE]
            /\ got' = [got EXCEPT ![co] = "results"]

\* One turn of that loop.  A waiter that is suspended is counted down, and
\* resumed when nothing is left that it waits for.
EndNext(t) ==
    LET i == Last(stack).i
        co == tree[t].waiting[i]
        w == (tree[co].w - 1) % WMod
        next == Append(Front(stack), [Last(stack) EXCEPT !.i = i + 1])
    IN
    /\ Ending(t)
    /\ i <= Len(tree[t].waiting)
    /\ UNCHANGED <<res, asked>>
    /\ \/ /\ st[co] # "yield"
          /\ stack' = next
          /\ UNCHANGED <<st, why, tree, got>>
       \/ /\ st[co] = "yield" /\ w # 0
          /\ stack' = next
          /\ tree' = [tree EXCEPT ![co].w = w]
          /\ UNCHANGED <<st, why, got>>
       \/ /\ st[co] = "yield" /\ w = 0
          /\ stack' = Append(next, Run(co))
          /\ Enter(co)
          /\ tree' = [tree EXCEPT ![co].w = 0, ![co].wd = FALSE]
          /\ got' = [got EXCEPT ![co] = IF res[t] /\ ~tree[co].wd THEN "results" ELSE "boolean"]

\* The loop is over: the coroutine's node is removed.
EndDone(t) ==
    /\ Ending(t)
    /\ Last(stack).i > Len(tree[t].waiting)
    /\ stack' = Front(stack)
    /\ tree' = [tree EXCEPT ![t] = NewKey]
    /\ UNCHANGED <<st, why, res, asked, got>>

Args == UNION {[1 .. n -> Threads] : n \in 1 .. MaxArgs}

Next ==
    \E t \in Threads :
        \/ \E co \in Threads : Create(t, co) \/ Spawn(t, co) \/ ResumeCall(t, co)
        \/ LoopResumes(t)
        \/ \E reason \in {"io", "user"} : Yield(t, reason)
        \/ \E args \in Args : Wait(t, args)
        \/ \E n \in BOOLEAN : End(t, n)
        \/ EndNext(t)
        \/ EndDone(t)

Spec == Init /\ [][Next]_vars

-----------------------------------------------------------------------------
\* The part of t's waiting list that its end has still to go through.
Unserved(t) ==
    LET done == {f.i - 1 : f \in {g \in Range(stack) : g.kind = "end" /\ g.t = t}}
    IN  SubSeq(tree[t].waiting, 1 + SumSet(done), Len(tree[t].waiting))

\* How many registrations of t are outstanding.
Outstanding(t) ==
    SumFunction([a \in Threads |-> Len(SelectSeq(Unserved(a), LAMBDA x : x = t))])

\* The counter w of lua_f_lua_uthread_wait is exact: it is the number of places
\* a coroutine holds in the waiting lists of coroutines that have not ended,
\* the part of a list an end is still going through included; and it is
\* positive exactly while the coroutine is suspended in wait.  So no waiter is
\* left waiting for the dead, none is resumed twice for one wait, and none
\* carries a registration over into what it does next.  (The types of the
\* variables are part of it.)
RegistrationsExact ==
    /\ TypeOK
    /\ \A t \in Threads : /\ tree[t].w = Outstanding(t)
                          /\ why[t] = "wait" <=> tree[t].w > 0

\* README, wait: "Waits on child "light threads" and returns the results".  When
\* wait has returned, every coroutine on whose list it found room has ended.
WaitOutlasts ==
    \A t \in Threads : why[t] # "wait" => \A a \in asked[t] : st[a] = "dead"

\* The same line: a wait given coroutines that have results returns something of
\* them, not the number 0.
ResultsReach ==
    \A t \in Threads : got[t] = "zero" => \A a \in asked[t] : ~res[a]

\* A coroutine suspended in a socket, file or sleep call is resumed by the event
\* loop and by nothing else: the end of another coroutine never resumes it.
IoResumedByLoop ==
    [][\A t \in Threads : why[t] = "io" /\ why'[t] # "io" => stack = <<>>]_vars
=============================================================================
