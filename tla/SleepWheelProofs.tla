-------------------------- MODULE SleepWheelProofs --------------------------
(***************************************************************************)
(* Proofs about SleepWheel, for every number of buckets, length of tick,   *)
(* look-back, set of coroutines and set of sleeping times.                 *)
(***************************************************************************)
EXTENDS SleepWheel, SequenceTheorems, TLAPS

\* Integer division, as in longtime() / 10, is monotonic, and a whole divisor
\* more gives at least one more.
LEMMA DivFacts ==
    ASSUME NEW T \in Nat \ {0}, NEW a \in Nat, NEW b \in Nat, a <= b
    PROVE  /\ a \div T \in Nat
           /\ a \div T <= b \div T
           /\ a + T <= b => a \div T + 1 <= b \div T
  OBVIOUS

\* If one quotient is not the smaller, its dividend is less than a divisor short.
LEMMA DivBack ==
    ASSUME NEW T \in Nat \ {0}, NEW a \in Nat, NEW b \in Nat, a \div T >= b \div T
    PROVE  a + T > b
  OBVIOUS

\* A tick's bucket is a bucket.
LEMMA ModFacts ==
    ASSUME NEW a \in Nat, NEW B \in Nat \ {0}
    PROVE  a % B \in 0 .. B - 1
  OBVIOUS

\* Unlinking an entry closes the gap and changes nothing else.
LEMMA RemoveFacts ==
    ASSUME NEW S, NEW s \in Seq(S), NEW i \in 1 .. Len(s)
    PROVE  /\ RemoveAt(s, i) \in Seq(S)
           /\ Len(RemoveAt(s, i)) = Len(s) - 1
           /\ \A j \in 1 .. Len(s) - 1 :
                 RemoveAt(s, i)[j] = IF j < i THEN s[j] ELSE s[j + 1]
  <1> DEFINE u == SubSeq(s, 1, i - 1)
             v == SubSeq(s, i + 1, Len(s))
  <1>1. u \in Seq(S) /\ Len(u) = i - 1 /\ \A j \in 1 .. i - 1 : u[j] = s[j]
    BY SubSeqProperties
  <1>2. /\ v \in Seq(S)
        /\ Len(v) = Len(s) - i
        /\ \A j \in 1 .. Len(s) - i : v[j] = s[i + j]
    BY SubSeqProperties
  <1>3. RemoveAt(s, i) = u \o v
    BY DEF RemoveAt
  <1> HIDE DEF u, v
  <1>4. /\ u \o v \in Seq(S)
        /\ Len(u \o v) = Len(u) + Len(v)
        /\ \A j \in 1 .. Len(u) + Len(v) :
              (u \o v)[j] = IF j <= Len(u) THEN u[j] ELSE v[j - Len(u)]
    BY <1>1, <1>2, ConcatProperties
  <1> QED
    BY <1>1, <1>2, <1>3, <1>4

\* The fields of an entry of the wheel.
LEMMA EntryFacts ==
    ASSUME TypeOK, NEW k \in Buckets, NEW i \in DOMAIN wheel[k]
    PROVE  /\ wheel[k] \in Seq(Sleeper)
           /\ wheel[k][i] \in Sleeper
           /\ wheel[k][i].timeout \in Nat
           /\ wheel[k][i].called \in Nat
           /\ wheel[k][i].msec \in Nat
  <1>1. wheel[k] \in Seq(Sleeper)
    BY DEF TypeOK
  <1>2. wheel[k][i] \in Sleeper
    BY <1>1
  <1> QED
    BY <1>1, <1>2 DEF Sleeper

-----------------------------------------------------------------------------
\* Initially the wheel is empty and no check has run.
LEMMA InitIInv == Init => IInv
  <1> SUFFICES ASSUME Init PROVE IInv
    OBVIOUS
  <1>1. TypeOK
    BY WheelAssumption DEF Init, TypeOK
  <1>2. Filed /\ InList /\ Swept /\ NoneOverlooked
    BY DEF Init, Filed, InList, Swept, NoneOverlooked
  <1>3. InStep
    BY WheelAssumption, DivFacts DEF Init, InStep, Present
  <1>4. Startup
    BY WheelAssumption, DivFacts DEF Init, Startup, Present
  <1> QED
    BY <1>1, <1>2, <1>3, <1>4 DEF IInv, Sound, OnTime

\* The clock only widens the distance to the hand.
LEMMA ClockTickPreserves ==
    ASSUME Sound, ClockTick
    PROVE  Sound' /\ (OnTime => OnTime')
  <1> USE WheelAssumption DEF Sound, OnTime, ClockTick
  <1>1. TypeOK'
    BY DEF TypeOK
  <1>2. Present <= Present' /\ Present' \in Nat /\ Present \in Nat
    BY DivFacts DEF TypeOK, Present
  <1>3. InStep'
    BY <1>2 DEF TypeOK, InStep
  <1>4. Filed' /\ InList'
    BY DEF Filed, InList, Bucket
  <1>5. OnTime => OnTime'
    BY DEF Startup, Present, Swept, NoneOverlooked, Bucket
  <1> QED
    BY <1>1, <1>3, <1>4, <1>5

\* A new sleeper is due after the present tick, so in front of the hand, also
\* when it is appended to the bucket under the scan.
LEMMA SleepPreserves ==
    ASSUME Sound, NEW t \in Threads, NEW msec \in Msecs, Sleep(t, msec)
    PROVE  Sound' /\ (Punctual /\ OnTime => OnTime')
  <1> DEFINE timeout == (clock + msec) \div TICK
             n == [L |-> t, timeout |-> timeout, called |-> clock, msec |-> msec]
             b == Bucket(timeout)
  <1> USE WheelAssumption DEF Sound, OnTime
  <1>1. /\ clock \in Nat /\ msec \in Nat /\ TICK \in Nat \ {0} /\ BUCKETS \in Nat \ {0}
        /\ clock + msec \in Nat
    BY DEF TypeOK
  <1>2. timeout \in Nat /\ Present \in Nat /\ (Punctual => timeout > Present)
    BY <1>1, DivFacts DEF Present, Punctual
  <1>3. b \in Buckets
    BY <1>1, <1>2, ModFacts DEF Bucket, Buckets
  <1>4. /\ wheel' = [wheel EXCEPT ![b] = Append(@, n)]
        /\ UNCHANGED <<clock, now_4sleep, l_now, pc, cur>>
    BY DEF Sleep
  <1>5. n \in Sleeper /\ n.timeout = timeout /\ n.called = clock /\ n.msec = msec
    BY <1>1, <1>2 DEF Sleeper
  <1>6. n.timeout % BUCKETS = b
    BY <1>5 DEF Bucket
  <1>7. n.timeout = (n.called + n.msec) \div TICK
    BY <1>5
  <1> HIDE DEF n, timeout, b
  <1>8. /\ wheel'[b] \in Seq(Sleeper)
        /\ Len(wheel'[b]) = Len(wheel[b]) + 1
        /\ \A i \in 1 .. Len(wheel[b]) : wheel'[b][i] = wheel[b][i]
        /\ wheel'[b][Len(wheel[b]) + 1] = n
    BY <1>3, <1>4, <1>5, AppendProperties DEF TypeOK
  <1>9. \A k \in Buckets : k # b => wheel'[k] = wheel[k]
    BY <1>4 DEF TypeOK
  <1>10. TypeOK'
    BY <1>3, <1>4, <1>8 DEF TypeOK
  <1>11. \A k \in Buckets : \A i \in DOMAIN wheel'[k] :
            \/ i \in DOMAIN wheel[k] /\ wheel'[k][i] = wheel[k][i]
            \/ k = b /\ i = Len(wheel[b]) + 1 /\ wheel'[k][i] = n
    BY <1>3, <1>8, <1>9 DEF TypeOK
  <1>12. Filed'
    BY <1>6, <1>7, <1>11 DEF Filed
  <1>13. InStep' /\ Present' = Present
    BY <1>4 DEF InStep, Present
  <1>14. StartClock \div TICK <= Present /\ StartClock \div TICK \in Nat
    BY <1>1, DivFacts DEF InStep, Present
  <1>15. pc # Outside => Bucket(now_4sleep) \in Buckets
    BY <1>1, ModFacts DEF TypeOK, Bucket, Buckets
  <1>16. Bucket(now_4sleep)' = Bucket(now_4sleep)
    BY <1>4 DEF Bucket
  <1>17. InList'
    BY <1>3, <1>4, <1>8, <1>9, <1>15, <1>16 DEF InList, TypeOK
  <1>18. ASSUME Punctual, OnTime PROVE OnTime'
    <2> USE <1>18
    <2>1. Startup'
      BY <1>2, <1>4, <1>5, <1>11, <1>13, <1>14, SMTT(30) DEF Startup
    <2>2. NoneOverlooked'
      BY <1>2, <1>4, <1>5, <1>11 DEF NoneOverlooked, InStep, TypeOK
    <2>3. ASSUME pc # Outside, NEW i \in DOMAIN wheel'[Bucket(now_4sleep)], cur = 0 \/ i < cur
          PROVE  wheel'[Bucket(now_4sleep)][i].timeout > now_4sleep
      BY <2>3, <1>2, <1>5, <1>11, <1>15, SMTT(30) DEF Swept, InStep, TypeOK
    <2>4. Swept'
      BY <1>4, <1>16, <2>3 DEF Swept
    <2> QED
      BY <2>1, <2>2, <2>4
  <1> QED
    BY <1>10, <1>12, <1>13, <1>17, <1>18

\* The first check puts the hand no further than the tick after the start, and
\* every sleeper there is was filed for that tick or later.
LEMMA CheckStartPreserves ==
    ASSUME Sound, CheckStart
    PROVE  Sound' /\ (Punctual /\ OnTime => OnTime')
  <1> USE WheelAssumption DEF Sound, OnTime
  <1>1. /\ UNCHANGED <<clock, wheel>> /\ pc' = Scanning /\ l_now' = Present
        /\ now_4sleep' = IF now_4sleep = 0 THEN Present - LOOKBACK ELSE now_4sleep
        /\ cur' = Head0(Bucket(now_4sleep'))
    BY DEF CheckStart
  <1>2. /\ Present \in Nat /\ Present' = Present
        /\ StartClock \div TICK <= Present /\ StartClock \div TICK \in Nat
    BY <1>1, DivFacts DEF InStep, TypeOK, Present
  <1>3. now_4sleep' \in Nat /\ 0 < now_4sleep' /\ now_4sleep' <= Present
    BY <1>1, <1>2 DEF InStep, TypeOK
  <1>4. Bucket(now_4sleep') \in Buckets
    BY <1>3, ModFacts DEF Bucket, Buckets
  <1>5. /\ cur' \in Nat /\ cur' <= Len(wheel[Bucket(now_4sleep')]) /\ cur' <= 1
        /\ cur' = 0 => Len(wheel[Bucket(now_4sleep')]) = 0
    BY <1>1, <1>4 DEF Head0, TypeOK
  <1>6. TypeOK'
    BY <1>1, <1>2, <1>3, <1>5 DEF TypeOK
  <1>7. InStep'
    BY <1>1, <1>2, <1>3 DEF InStep
  <1>8. Filed'
    BY <1>1 DEF Filed
  <1>9. Bucket(now_4sleep)' = Bucket(now_4sleep') /\ wheel[Bucket(now_4sleep')] \in Seq(Sleeper)
    BY <1>4 DEF Bucket, TypeOK
  <1>10. InList'
    BY <1>1, <1>5, <1>9 DEF InList
  <1>11. Startup'
    BY <1>3 DEF Startup
  <1>12. Swept'
    BY <1>1, <1>5, <1>9 DEF Swept
  <1>13. ASSUME Punctual, OnTime PROVE NoneOverlooked'
    <2> USE <1>13
    <2>1. CASE now_4sleep # 0
      BY <2>1, <1>1 DEF NoneOverlooked
    <2>2. CASE now_4sleep = 0
      <3>1. now_4sleep' <= StartClock \div TICK + 1
        BY <2>2, <1>1, <1>2 DEF Startup, Punctual
      <3>2. ASSUME NEW k \in Buckets, NEW i \in DOMAIN wheel[k]
            PROVE  wheel[k][i].timeout >= now_4sleep'
        <4>1. wheel[k][i].timeout > StartClock \div TICK
          BY <2>2 DEF Startup
        <4>2. wheel[k][i].timeout \in Nat
          BY EntryFacts
        <4> QED
          BY <3>1, <4>1, <4>2, <1>2, <1>3
      <3> QED
        BY <3>2, <1>1 DEF NoneOverlooked
    <2> QED
      BY <2>1, <2>2
  <1> QED
    BY <1>6, <1>7, <1>8, <1>10, <1>11, <1>12, <1>13

\* What the scan skips is due after the check's copy of the clock, so after the
\* hand.
LEMMA ScanSkipPreserves ==
    ASSUME Sound, ScanSkip
    PROVE  Sound' /\ (OnTime => OnTime')
  <1> DEFINE list == wheel[Bucket(now_4sleep)]
  <1> USE WheelAssumption DEF Sound, OnTime
  <1>1. /\ UNCHANGED <<clock, now_4sleep, l_now, wheel, pc>>
        /\ pc = Scanning /\ cur # 0 /\ l_now < list[cur].timeout
        /\ cur' = IF cur < Len(list) THEN cur + 1 ELSE 0
    BY DEF ScanSkip
  <1>2. list \in Seq(Sleeper)
    BY ModFacts DEF TypeOK, Bucket, Buckets
  <1>3. pc # Outside
    BY <1>1 DEF Scanning, Outside
  <1>4. TypeOK'
    BY <1>1, <1>2 DEF TypeOK
  <1>5. Filed' /\ InStep'
    BY <1>1 DEF Filed, InStep, Present
  <1>6. Bucket(now_4sleep)' = Bucket(now_4sleep) /\ list' = list
    BY <1>1 DEF Bucket
  <1>7. InList'
    BY <1>1, <1>2, <1>6 DEF InList, TypeOK
  <1>8. ASSUME OnTime PROVE OnTime'
    <2> USE <1>8
    <2>1. Startup' /\ NoneOverlooked'
      BY <1>1 DEF Startup, NoneOverlooked, Present
    <2>2. ASSUME NEW i \in DOMAIN list, cur' = 0 \/ i < cur'
          PROVE  list[i].timeout > now_4sleep
      <3>1. list[i].timeout \in Nat /\ now_4sleep \in Nat /\ l_now \in Nat /\ cur \in Nat
        BY ModFacts, EntryFacts DEF TypeOK, Bucket, Buckets
      <3>2. cur <= Len(list) /\ (i < cur => list[i].timeout > now_4sleep)
        BY <1>3 DEF InList, Swept
      <3>3. now_4sleep <= l_now
        BY <1>3 DEF InStep
      <3>4. i \in Nat /\ i <= Len(list) /\ Len(list) \in Nat
        BY <1>2
      <3>5. i < cur \/ i = cur
        <4> HIDE WheelAssumption DEF list, Sound, OnTime
        <4> QED
          BY <2>2, <3>1, <3>2, <3>4, <1>1
      <3> QED
        BY <3>1, <3>2, <3>3, <3>5, <1>1
    <2>3. Swept'
      BY <1>1, <1>6, <2>2 DEF Swept
    <2> QED
      BY <2>1, <2>3
  <1> QED
    BY <1>4, <1>5, <1>7, <1>8

\* The entries a wake-up leaves in the bucket are the old ones, those in front of
\* the woken one in their places.
LEMMA ScanWakePreserves ==
    ASSUME Sound, ScanWake
    PROVE  Sound' /\ (OnTime => OnTime')
  <1> DEFINE b == Bucket(now_4sleep)
             list == wheel[b]
  <1> USE WheelAssumption DEF Sound, OnTime
  <1>1. /\ UNCHANGED <<clock, now_4sleep, l_now>>
        /\ pc = Scanning /\ cur # 0
        /\ wheel' = [wheel EXCEPT ![b] = RemoveAt(list, cur)]
        /\ cur' = IF cur < Len(list) THEN cur ELSE 0
        /\ pc' = InLua
    BY DEF ScanWake
  <1>2. b \in Buckets
    BY ModFacts DEF TypeOK, Bucket, Buckets
  <1>3. list \in Seq(Sleeper)
    BY <1>2 DEF TypeOK
  <1>4. pc # Outside /\ cur \in 1 .. Len(list)
    BY <1>1, <1>3 DEF Scanning, Outside, InList, TypeOK
  <1>5. b' = b
    BY <1>1 DEF Bucket
  <1> HIDE DEF b
  <1>6. wheel'[b] = RemoveAt(list, cur) /\ \A k \in Buckets : k # b => wheel'[k] = wheel[k]
    BY <1>1, <1>2 DEF TypeOK
  <1>7. /\ wheel'[b] \in Seq(Sleeper)
        /\ Len(wheel'[b]) = Len(list) - 1
        /\ \A j \in 1 .. Len(list) - 1 :
              wheel'[b][j] = IF j < cur THEN list[j] ELSE list[j + 1]
    <2> HIDE DEF list
    <2>1. /\ RemoveAt(list, cur) \in Seq(Sleeper)
          /\ Len(RemoveAt(list, cur)) = Len(list) - 1
          /\ \A j \in 1 .. Len(list) - 1 :
                RemoveAt(list, cur)[j] = IF j < cur THEN list[j] ELSE list[j + 1]
      BY ONLY <1>3, <1>4, RemoveFacts
    <2> QED
      BY ONLY <1>6, <2>1
  <1>8. \A k \in Buckets : \A i \in DOMAIN wheel'[k] :
           \E j \in DOMAIN wheel[k] : wheel'[k][i] = wheel[k][j]
    <2> SUFFICES ASSUME NEW k \in Buckets, NEW i \in DOMAIN wheel'[k]
                 PROVE  \E j \in DOMAIN wheel[k] : wheel'[k][i] = wheel[k][j]
      OBVIOUS
    <2>1. CASE k # b
      BY <2>1, <1>6
    <2>2. CASE k = b
      <3>1. i \in 1 .. Len(list) - 1
        BY <2>2, <1>7
      <3>2. i \in DOMAIN list /\ i + 1 \in DOMAIN list
        BY <3>1, <1>3
      <3> QED
        BY <2>2, <3>1, <3>2, <1>7
    <2> QED
      BY <2>1, <2>2
  <1>9. TypeOK'
    BY <1>1, <1>2, <1>7 DEF TypeOK
  <1>10. Filed'
    BY <1>8 DEF Filed
  <1>11. InStep'
    BY <1>1, <1>4 DEF InStep, Present
  <1>12. now_4sleep' = now_4sleep /\ Bucket(now_4sleep)' = b
    BY <1>1, <1>5 DEF b
  <1>13. InList'
    BY <1>1, <1>3, <1>4, <1>7, <1>12, SMTT(30) DEF InList
  <1>14. ASSUME OnTime PROVE OnTime'
    <2> USE <1>14
    <2>1. Startup' /\ NoneOverlooked'
      BY <1>1, <1>8 DEF Startup, NoneOverlooked, Present
    <2>2. ASSUME NEW i \in DOMAIN wheel'[b], cur' = 0 \/ i < cur'
          PROVE  wheel'[b][i].timeout > now_4sleep
      <3>1. i \in 1 .. Len(list) - 1 /\ i \in DOMAIN list
        BY <1>3, <1>7
      <3>2. i < cur
        BY <2>2, <3>1, <1>1, <1>3, <1>4, SMTT(30)
      <3>3. wheel'[b][i] = list[i]
        BY <3>1, <3>2, <1>7
      <3> QED
        BY <3>1, <3>2, <3>3, <1>4 DEF Swept, b
    <2>3. Swept'
      BY <2>2, <1>12 DEF Swept
    <2> QED
      BY <2>1, <2>3
  <1> QED
    BY <1>9, <1>10, <1>11, <1>13, <1>14

\* The copy of the clock is refreshed after Lua code has run.
LEMMA ResumeReturnsPreserves ==
    ASSUME Sound, ResumeReturns
    PROVE  Sound' /\ (OnTime => OnTime')
  <1> USE WheelAssumption DEF Sound, OnTime
  <1>1. /\ UNCHANGED <<clock, now_4sleep, wheel, cur>>
        /\ pc = InLua /\ pc' = Scanning /\ l_now' = Present
    BY DEF ResumeReturns
  <1>2. pc # Outside
    BY <1>1 DEF InLua, Outside
  <1>3. Present \in Nat /\ Present' = Present
    BY <1>1, DivFacts DEF TypeOK, Present
  <1>4. TypeOK'
    BY <1>1, <1>3 DEF TypeOK
  <1>5. InStep'
    BY <1>1, <1>2, <1>3 DEF InStep
  <1>6. Filed' /\ InList'
    BY <1>1, <1>2 DEF Filed, InList, Bucket
  <1>7. OnTime => OnTime'
    BY <1>1, <1>2 DEF Startup, NoneOverlooked, Present, Swept, Bucket
  <1> QED
    BY <1>4, <1>5, <1>6, <1>7

\* The hand leaves a tick only when nothing due at it is left: what is in another
\* bucket is due at another tick, and the scan has gone past all of this one.
LEMMA ScanEndPreserves ==
    ASSUME Sound, ScanEnd
    PROVE  Sound' /\ (OnTime => OnTime')
  <1> USE WheelAssumption DEF Sound, OnTime
  <1>1. /\ UNCHANGED <<clock, l_now, wheel>>
        /\ pc = Scanning /\ cur = 0
        /\ now_4sleep' = IF now_4sleep < l_now THEN now_4sleep + 1 ELSE now_4sleep
        /\ \/ pc' = pc /\ cur' = Head0(Bucket(now_4sleep')) /\ now_4sleep' < l_now
           \/ pc' = Outside /\ cur' = cur
    BY DEF ScanEnd
  <1>2. pc # Outside
    BY <1>1 DEF Scanning, Outside
  <1>3. /\ now_4sleep \in Nat /\ now_4sleep' \in Nat /\ l_now \in Nat
        /\ 0 < now_4sleep /\ now_4sleep <= now_4sleep' /\ now_4sleep' <= l_now
        /\ Present \in Nat /\ Present' = Present /\ l_now <= Present
    BY <1>1, <1>2, DivFacts DEF TypeOK, InStep, Present
  <1>4. Bucket(now_4sleep) \in Buckets /\ Bucket(now_4sleep') \in Buckets
    BY <1>3, ModFacts DEF Bucket, Buckets
  <1>5. /\ cur' \in Nat /\ cur' <= 1
        /\ pc' # Outside => cur' <= Len(wheel[Bucket(now_4sleep')])
        /\ pc' # Outside /\ cur' = 0 => Len(wheel[Bucket(now_4sleep')]) = 0
    BY <1>1, <1>4 DEF Head0, TypeOK
  <1>6. TypeOK'
    BY <1>1, <1>3, <1>5 DEF TypeOK
  <1>7. InStep'
    BY <1>1, <1>3 DEF InStep
  <1>8. Filed' /\ Startup'
    BY <1>1, <1>3 DEF Filed, Startup
  <1>9. Bucket(now_4sleep)' = Bucket(now_4sleep') /\ wheel[Bucket(now_4sleep')] \in Seq(Sleeper)
    BY <1>4 DEF Bucket, TypeOK
  <1>10. InList'
    <2> SUFFICES ASSUME pc' # Outside PROVE cur' <= Len(wheel'[Bucket(now_4sleep)'])
      BY DEF InList
    <2>1. cur' <= Len(wheel[Bucket(now_4sleep')])
      BY <1>5
    <2>2. wheel'[Bucket(now_4sleep)'] = wheel[Bucket(now_4sleep')]
      BY <1>1, <1>9
    <2> QED
      BY <2>1, <2>2
  <1>11. Swept'
    <2> SUFFICES ASSUME pc' # Outside, NEW i \in DOMAIN wheel[Bucket(now_4sleep')],
                        cur' = 0 \/ i < cur'
                 PROVE  FALSE
      BY <1>1, <1>9 DEF Swept
    <2> QED
      BY <1>5, <1>9
  <1>12. ASSUME OnTime PROVE NoneOverlooked'
    <2> USE <1>12
    <2> SUFFICES ASSUME NEW k \in Buckets, NEW i \in DOMAIN wheel[k]
                 PROVE  wheel[k][i].timeout >= now_4sleep'
      BY <1>1 DEF NoneOverlooked
    <2>1. wheel[k][i].timeout \in Nat
      BY EntryFacts
    <2>2. wheel[k][i].timeout >= now_4sleep
      BY <1>3 DEF NoneOverlooked
    <2>3. wheel[k][i].timeout # now_4sleep
      <3>1. CASE k = Bucket(now_4sleep)
        BY <3>1, <1>1, <1>2, <1>3, <2>1 DEF Swept
      <3>2. CASE k # Bucket(now_4sleep)
        BY <3>2 DEF Filed, Bucket
      <3> QED
        BY <3>1, <3>2
    <2> QED
      BY <1>1, <1>3, <2>1, <2>2, <2>3, SMTT(30)
  <1> QED
    BY <1>6, <1>7, <1>8, <1>10, <1>11, <1>12

-----------------------------------------------------------------------------
\* A step of the program keeps Sound, and OnTime where Punctual holds.
LEMMA StepPreserves ==
    ASSUME Sound, [Next]_vars
    PROVE  Sound' /\ (Punctual /\ OnTime => OnTime')
  <1>1. CASE ClockTick
    BY <1>1, ClockTickPreserves
  <1>2. ASSUME NEW t \in Threads, NEW msec \in Msecs, Sleep(t, msec)
        PROVE  Sound' /\ (Punctual /\ OnTime => OnTime')
    BY <1>2, SleepPreserves
  <1>3. CASE CheckStart
    BY <1>3, CheckStartPreserves
  <1>4. CASE ScanSkip
    BY <1>4, ScanSkipPreserves
  <1>5. CASE ScanWake
    BY <1>5, ScanWakePreserves
  <1>6. CASE ResumeReturns
    BY <1>6, ResumeReturnsPreserves
  <1>7. CASE ScanEnd
    BY <1>7, ScanEndPreserves
  <1>8. CASE UNCHANGED vars
    BY <1>8 DEF vars, Sound, OnTime, TypeOK, Filed, InStep, InList, Startup, Swept,
                NoneOverlooked, Present, Bucket
  <1> QED
    BY <1>1, <1>2, <1>3, <1>4, <1>5, <1>6, <1>7, <1>8, SMTT(30) DEF Next, Check

\* The variables keep their types, the hand and the copy of the clock follow the
\* clock, and sleepers stay in their buckets, whatever sleeps are asked for.
THEOREM SoundHolds == Spec => []Sound
  <1>1. Init => Sound
    BY InitIInv DEF IInv
  <1>2. Sound /\ [Next]_vars => Sound'
    BY StepPreserves
  <1> QED
    BY <1>1, <1>2, PTL DEF Spec

\* Type correctness: in particular the hand, an unsigned long, never wraps below
\* zero when it is set back at the first check.
THEOREM TypeCorrect == Spec => []TypeOK
  BY SoundHolds, PTL DEF Sound

\* The whole invariant of the check holds at every point between two of its pieces,
\* if sleeps last a tick or more and the first check is not late.
THEOREM InvariantHolds == ASSUME Punctual PROVE Spec => []IInv
  <1>1. Init => IInv
    BY InitIInv
  <1>2. IInv /\ [Next]_vars => IInv'
    BY StepPreserves DEF IInv
  <1> QED
    BY <1>1, <1>2, PTL DEF Spec

\* With sleeps of a tick or more and a first check that is not late, no sleeper is
\* ever behind the hand, whatever the wheel's size, the tick and the coroutines.
THEOREM NobodyOverlooked == ASSUME Punctual PROVE Spec => []NoneOverlooked
  <1>1. IInv => NoneOverlooked
    BY DEF IInv, OnTime
  <1> QED
    BY <1>1, InvariantHolds, PTL

\* Nobody is woken early: an entry leaves the wheel only when the check's copy of
\* the clock has reached the entry's tick.  This needs no assumption on the
\* sleeping times.
THEOREM NobodyWokenEarly == Spec => SleepsLongEnough
  <1> DEFINE Early(k, n) == n \notin ToSet(wheel'[k]) => clock + TICK > n.called + n.msec
  <1>1. ASSUME Sound, [Next]_vars, NEW k \in Buckets, NEW n \in ToSet(wheel[k])
        PROVE  Early(k, n)
    <2> SUFFICES ASSUME n \notin ToSet(wheel'[k]) PROVE clock + TICK > n.called + n.msec
      OBVIOUS
    <2> USE <1>1
    <2>1. PICK j \in DOMAIN wheel[k] : n = wheel[k][j]
      BY DEF ToSet
    <2>2. wheel[k] \in Seq(Sleeper) /\ n.timeout \in Nat /\ n.called \in Nat /\ n.msec \in Nat
      BY <2>1, EntryFacts DEF Sound
    <2>3. wheel'[k] # wheel[k]
      OBVIOUS
    <2>4. CASE ScanWake
      <3> DEFINE b == Bucket(now_4sleep)
                 list == wheel[b]
      <3>1. /\ wheel' = [wheel EXCEPT ![b] = RemoveAt(list, cur)]
            /\ cur # 0 /\ pc # Outside /\ l_now >= list[cur].timeout
        BY <2>4 DEF ScanWake, Scanning, Outside
      <3>2. k = b
        BY <2>3, <3>1 DEF Sound, TypeOK
      <3>3. cur \in 1 .. Len(wheel[k])
        BY <2>2, <3>1, <3>2 DEF Sound, InList, TypeOK
      <3>4. wheel'[k] = RemoveAt(wheel[k], cur)
        BY <3>1, <3>2 DEF Sound, TypeOK
      <3>5. j = cur
        <4> SUFFICES ASSUME j # cur PROVE FALSE
          OBVIOUS
        <4> DEFINE i == IF j < cur THEN j ELSE j - 1
        <4>1. i \in 1 .. Len(wheel[k]) - 1 /\ j = IF i < cur THEN i ELSE i + 1
          BY <2>2, <3>3
        <4> HIDE DEF i
        <4>2. /\ Len(RemoveAt(wheel[k], cur)) = Len(wheel[k]) - 1
              /\ RemoveAt(wheel[k], cur) \in Seq(Sleeper)
              /\ RemoveAt(wheel[k], cur)[i] = wheel[k][j]
          BY <2>2, <3>3, <4>1, RemoveFacts
        <4>3. i \in DOMAIN wheel'[k] /\ wheel'[k][i] = n
          BY <2>1, <3>4, <4>1, <4>2
        <4> QED
          BY <4>3 DEF ToSet
      <3>6. l_now >= n.timeout
        BY <2>1, <3>1, <3>2, <3>5
      <3>7. clock \div TICK >= (n.called + n.msec) \div TICK
        <4>1. n.timeout = (n.called + n.msec) \div TICK
          BY <2>1 DEF Sound, Filed
        <4>2. clock \div TICK \in Nat /\ l_now \in Nat /\ l_now <= clock \div TICK
          BY WheelAssumption, DivFacts DEF Sound, InStep, Present, TypeOK
        <4> QED
          BY <2>2, <3>6, <4>1, <4>2, SMTT(30)
      <3>8. clock \in Nat /\ n.called + n.msec \in Nat
        BY <2>2 DEF Sound, TypeOK
      <3> QED
        BY <3>7, <3>8, WheelAssumption, DivBack, SMTT(30)
    <2>5. CASE \E t \in Threads, msec \in Msecs : Sleep(t, msec)
      <3>1. PICK t \in Threads, msec \in Msecs : Sleep(t, msec)
        BY <2>5
      <3> DEFINE e == [L |-> t, timeout |-> (clock + msec) \div TICK,
                       called |-> clock, msec |-> msec]
      <3>2. wheel'[k] = Append(wheel[k], e)
        BY <2>3, <3>1, SMTT(30) DEF Sleep, Sound, TypeOK
      <3>3. e \in Sleeper
        <4>1. clock \in Nat /\ msec \in Nat /\ clock + msec \in Nat /\ TICK \in Nat \ {0}
          BY WheelAssumption DEF Sound, TypeOK
        <4>2. (clock + msec) \div TICK \in Nat
          BY <4>1, DivFacts
        <4> QED
          BY <4>1, <4>2 DEF Sleeper
      <3> HIDE DEF e
      <3>4. j \in DOMAIN wheel'[k] /\ wheel'[k][j] = n
        BY <2>1, <2>2, <3>2, <3>3, AppendProperties, SMTT(30)
      <3> QED
        BY <3>4 DEF ToSet
    <2>6. CASE UNCHANGED wheel
      BY <2>3, <2>6
    <2> QED
      BY <2>4, <2>5, <2>6 DEF Next, Check, ClockTick, CheckStart, ScanSkip, ResumeReturns,
                             ScanEnd, vars
  <1>2. Sound /\ [Next]_vars =>
            [\A k \in Buckets : \A n \in ToSet(wheel[k]) :
               n \notin ToSet(wheel'[k]) => clock + TICK > n.called + n.msec]_vars
    BY <1>1
  <1> QED
    BY <1>2, SoundHolds, PTL DEF Spec, SleepsLongEnough
=============================================================================
