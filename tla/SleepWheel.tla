----------------------------- MODULE SleepWheel -----------------------------
(***************************************************************************)
(* The timing wheel behind sleep(msec): src/lua-util.c, _lua_sleep and     *)
(* check_lua_sleep_timeouts.                                               *)
(*                                                                         *)
(* A sleeper is filed under its wake-up tick modulo the number of buckets. *)
(* Every turn of the event loop runs check_lua_sleep_timeouts, which moves *)
(* a hand (now_4sleep) up to the present tick and resumes what is due in   *)
(* each bucket it leaves.  Resuming runs Lua code, which takes time and    *)
(* may put this or another coroutine to sleep while the check is half way  *)
(* through a bucket; the module has one step for each piece of the check   *)
(* between two such points.                                                *)
(***************************************************************************)
EXTENDS Integers, Sequences, SequencesExt

CONSTANTS
    Threads,       \* the coroutines that sleep
    BUCKETS,       \* TIME_BUCKET_SIZE
    TICK,          \* milliseconds per tick: the 10 of longtime() / 10
    LOOKBACK,      \* the 5 of "now_4sleep = l_now - 5"
    Msecs,         \* the arguments sleep is called with
    StartClock,    \* longtime() when the program starts
    StartupTicks,  \* ticks that may pass before the loop's first check
    MaxClock       \* bound on the clock

ASSUME WheelAssumption ==
    /\ BUCKETS \in Nat \ {0}
    /\ TICK \in Nat \ {0}
    /\ LOOKBACK \in Nat
    /\ Msecs \subseteq Nat \ {0}
    /\ StartClock \in Nat
    /\ StartClock \div TICK > LOOKBACK
    /\ StartupTicks \in Nat
    /\ MaxClock \in Nat

VARIABLES
    clock,        \* longtime(), in milliseconds
    now_4sleep,   \* the hand; 0 until the first check
    l_now,        \* the check's copy of the present tick
    wheel,        \* the bucket lists, timeout_links
    pc,           \* where check_lua_sleep_timeouts is
    cur           \* the scan's saved pointer m, as an index; 0 is NULL

vars == <<clock, now_4sleep, l_now, wheel, pc, cur>>

Buckets == 0 .. BUCKETS - 1

\* An entry of sleep_timeout_t.  called is history: when sleep was called and
\* for how long.
Sleeper == [L : Threads, timeout : Nat, called : Nat, msec : Nat]

\* Between checks, scanning a bucket, or inside lua_resume of a woken sleeper.
Outside == "outside"
Scanning == "scanning"
InLua == "lua"

TypeOK ==
    /\ clock \in Nat
    /\ now_4sleep \in Nat
    /\ l_now \in Nat
    /\ wheel \in [Buckets -> Seq(Sleeper)]
    /\ pc \in {Outside, Scanning, InLua}
    /\ cur \in Nat

Present == clock \div TICK
Bucket(tick) == tick % BUCKETS
Asleep(t) == \E k \in Buckets : \E i \in DOMAIN wheel[k] : wheel[k][i].L = t

\* The index of the first entry of bucket k, or NULL.
Head0(k) == IF wheel[k] = <<>> THEN 0 ELSE 1

Init ==
    /\ clock = StartClock
    /\ now_4sleep = 0
    /\ l_now = 0
    /\ wheel = [k \in Buckets |-> <<>>]
    /\ pc = Outside
    /\ cur = 0

-----------------------------------------------------------------------------
\* longtime() moves on, at any point of the program.  Before the first check
\* at most StartupTicks ticks pass.
ClockTick ==
    /\ clock < MaxClock
    /\ now_4sleep = 0 => (clock + 1) \div TICK <= StartClock \div TICK + StartupTicks
    /\ clock' = clock + 1
    /\ UNCHANGED <<now_4sleep, l_now, wheel, pc, cur>>

\* sleep(msec) with msec >= 1, called by Lua code: from an event handler, or
\* from a coroutine that the check has just resumed (or that this one resumes
\* in turn).
Sleep(t, msec) ==
    /\ pc \in {Outside, InLua}
    /\ ~Asleep(t)
    /\ clock + msec <= MaxClock
    /\ LET timeout == (clock + msec) \div TICK
           n == [L |-> t, timeout |-> timeout, called |-> clock, msec |-> msec]
       IN  wheel' = [wheel EXCEPT ![Bucket(timeout)] = Append(@, n)]
    /\ UNCHANGED <<clock, now_4sleep, l_now, pc, cur>>

\* Mutant of CheckStart: the hand starts at the present tick.
Bug_NoLookback ==
    /\ pc = Outside
    /\ pc' = Scanning
    /\ l_now' = Present
    /\ now_4sleep' = IF now_4sleep = 0 THEN Present ELSE now_4sleep
    /\ cur' = Head0(Bucket(now_4sleep'))
    /\ UNCHANGED <<clock, wheel>>
\* check_lua_sleep_timeouts is called: it reads the clock, sets the hand on the
\* first call, and takes the head of the hand's bucket.
CheckStart ==
    /\ pc = Outside
    /\ pc' = Scanning
    /\ l_now' = Present
    /\ now_4sleep' = IF now_4sleep = 0 THEN Present - LOOKBACK ELSE now_4sleep
    /\ cur' = Head0(Bucket(now_4sleep'))
    /\ UNCHANGED <<clock, wheel>>

\* The entry under the scan is not due in this round of the wheel.
ScanSkip ==
    LET list == wheel[Bucket(now_4sleep)] IN
    /\ pc = Scanning /\ cur # 0
    /\ l_now < list[cur].timeout
    /\ cur' = IF cur < Len(list) THEN cur + 1 ELSE 0
    /\ UNCHANGED <<clock, now_4sleep, l_now, wheel, pc>>

\* Mutant of ScanWake: whatever is in the hand's bucket is woken, in whichever
\* round of the wheel it is due.
Bug_AnyRound ==
    LET k == Bucket(now_4sleep)
        list == wheel[k]
    IN
    /\ pc = Scanning /\ cur # 0
    /\ wheel' = [wheel EXCEPT ![k] = RemoveAt(list, cur)]
    /\ cur' = IF cur < Len(list) THEN cur ELSE 0
    /\ pc' = InLua
    /\ UNCHANGED <<clock, now_4sleep, l_now>>

\* The entry under the scan is due: it is unlinked and its coroutine resumed.
\* The pointer to the next entry was saved before; entries appended from now on
\* are reached only through it.
ScanWake ==
    LET k == Bucket(now_4sleep)
        list == wheel[k]
    IN
    /\ pc = Scanning /\ cur # 0
    /\ l_now >= list[cur].timeout
    /\ wheel' = [wheel EXCEPT ![k] = RemoveAt(list, cur)]
    /\ cur' = IF cur < Len(list) THEN cur ELSE 0
    /\ pc' = InLua
    /\ UNCHANGED <<clock, now_4sleep, l_now>>

\* The resumed coroutine has yielded or ended, and the check reads the clock
\* again.
ResumeReturns ==
    /\ pc = InLua
    /\ pc' = Scanning
    /\ l_now' = Present
    /\ UNCHANGED <<clock, now_4sleep, wheel, cur>>

\* Mutant of ScanEnd: the hand jumps to the present tick.
Bug_Jump ==
    /\ pc = Scanning /\ cur = 0
    /\ now_4sleep' = l_now
    /\ pc' = Outside
    /\ UNCHANGED <<clock, l_now, wheel, cur>>

\* The bucket's list is exhausted: the hand advances and the next bucket is
\* scanned if the hand is still behind; otherwise the check returns.
ScanEnd ==
    /\ pc = Scanning /\ cur = 0
    /\ now_4sleep' = IF now_4sleep < l_now THEN now_4sleep + 1 ELSE now_4sleep
    /\ IF now_4sleep' < l_now
       THEN /\ cur' = Head0(Bucket(now_4sleep'))
            /\ UNCHANGED pc
       ELSE /\ pc' = Outside
            /\ UNCHANGED cur
    /\ UNCHANGED <<clock, l_now, wheel>>

Check == CheckStart \/ ScanSkip \/ ScanWake \/ ResumeReturns \/ ScanEnd

Next ==
    \/ ClockTick
    \/ \E t \in Threads, msec \in Msecs : Sleep(t, msec)
    \/ Check

Spec == Init /\ [][Next]_vars

\* The loop keeps turning and time passes; no coroutine has to sleep.
FairSpec == Spec /\ WF_vars(Check) /\ WF_vars(ClockTick)

-----------------------------------------------------------------------------
(* Properties *)

\* What the absence of overlooked sleepers rests on: no sleep is shorter than a
\* tick, and the first check comes at most one tick after the look-back.
Punctual ==
    /\ \A msec \in Msecs : msec >= TICK
    /\ StartupTicks <= LOOKBACK + 1

\* No sleeper is behind the hand.  The scan only ever visits the hand's bucket,
\* so a sleeper whose tick the hand has passed would be found a whole turn of
\* the wheel later: a minute, in the program.
NoneOverlooked ==
    now_4sleep # 0 =>
        \A k \in Buckets : \A i \in DOMAIN wheel[k] : wheel[k][i].timeout >= now_4sleep

\* The parts of an inductive invariant for the two properties around it.  Every
\* sleeper is in the bucket of its tick, and its tick is the one it asked for.
Filed ==
    \A k \in Buckets : \A i \in DOMAIN wheel[k] :
        LET n == wheel[k][i] IN
        /\ n.timeout % BUCKETS = k
        /\ n.timeout = (n.called + n.msec) \div TICK

\* The hand and the check's copy of the clock are never ahead of the clock, and
\* the hand is not ahead of the copy while a check runs.
InStep ==
    /\ StartClock <= clock
    /\ now_4sleep <= Present
    /\ l_now <= Present
    /\ pc # Outside => 0 < now_4sleep /\ now_4sleep <= l_now

\* Before the first check no sleeper is due before the next tick.
Startup ==
    now_4sleep = 0 =>
        /\ Present <= StartClock \div TICK + StartupTicks
        /\ \A k \in Buckets : \A i \in DOMAIN wheel[k] :
              wheel[k][i].timeout > StartClock \div TICK

\* The scan's saved pointer is in the hand's bucket.
InList == pc # Outside => cur <= Len(wheel[Bucket(now_4sleep)])

\* In the hand's bucket, nothing the scan has gone past is due at the hand's
\* tick: what it skipped, and what was appended after it came to the end.
Swept ==
    pc # Outside =>
        \A i \in DOMAIN wheel[Bucket(now_4sleep)] :
            cur = 0 \/ i < cur => wheel[Bucket(now_4sleep)][i].timeout > now_4sleep

\* The inductive invariant: what holds at every point between two pieces of the
\* check, so that no interleaving with the clock and with sleep loses a sleeper.
\* Sound is inductive by itself; OnTime needs Punctual.
Sound == TypeOK /\ Filed /\ InStep /\ InList
OnTime == Startup /\ Swept /\ NoneOverlooked
IInv == Sound /\ OnTime

\* A sleeper that leaves the wheel has slept for what it asked, less at most the
\* part of a tick that longtime() / 10 cuts off.
SleepsLongEnough ==
    [][\A k \in Buckets : \A n \in ToSet(wheel[k]) :
          n \notin ToSet(wheel'[k]) => clock + TICK > n.called + n.msec]_vars

\* Every sleeper is resumed in the end, whichever round of the wheel it is due
\* in and whatever else is filed in its bucket meanwhile.
SleepersWake == \A t \in Threads : Asleep(t) ~> ~Asleep(t)
=============================================================================
