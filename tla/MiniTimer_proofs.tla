-------------------------- MODULE MiniTimer_proofs --------------------------
(***************************************************************************)
(* Proofs about the timer, for every set of threads, every interval and    *)
(* every clock: its invariants, how long the timer thread sleeps, and that *)
(* mxMiniTimer implements TimerService.                                    *)
(***************************************************************************)
EXTENDS MiniTimer, SequenceTheorems, TLAPS

(***************************************************************************)
(* The whole behaviour fits into half the range of s32_t milliseconds (24  *)
(* days), so that getTimeDiff does not wrap.  Without this NeverEarly does *)
(* not hold.                                                               *)
(***************************************************************************)
NoWrap == Horizon \div 1000 + 2 < DiffWrap \div 2

\* The values a struct timeval takes in the code.
IsTime(t) == t \in Time /\ t.usec <= UsPerSec /\ Micros(t) <= Horizon
-----------------------------------------------------------------------------
(* Time arithmetic. *)

LEMMA Units == UsPerMs = 1000 /\ UsPerSec = 1000000
BY SMT DEF UsPerMs, UsPerSec

\* The clock as a struct timeval is normalised and loses nothing.
LEMMA TimeOfClock ==
  ASSUME NEW us \in Nat
  PROVE  /\ TimeOf(us) \in Time
         /\ TimeOf(us).usec < UsPerSec
         /\ Micros(TimeOf(us)) = us
BY SMT DEF TimeOf, Time, Micros, UsPerSec

\* addTimer's expiry is exactly interval ms later, though perhaps with
\* usec = 1000000.
LEMMA ExpiryExact ==
  ASSUME NEW t \in Time, t.usec < UsPerSec, NEW interval \in Nat
  PROVE  /\ ExpiryTime(t, interval) \in Time
         /\ ExpiryTime(t, interval).usec <= UsPerSec
         /\ Micros(ExpiryTime(t, interval)) = Micros(t) + interval * UsPerMs
<1> DEFINE s == t.sec + interval \div 1000
           u == t.usec + (interval % 1000) * UsPerMs
<1>1. s \in Nat /\ u \in Nat /\ u < 2 * UsPerSec
  BY SMT DEF Time, UsPerMs, UsPerSec
<1>2. s * UsPerSec + u = Micros(t) + interval * UsPerMs
  BY SMT DEF Time, Micros, UsPerMs, UsPerSec
<1>3. CASE u > UsPerSec
  <2>1. ExpiryTime(t, interval) = [sec |-> s + 1, usec |-> u - UsPerSec]
    BY SMT, <1>3 DEF ExpiryTime
  <2>2. QED
    BY SMT, <1>1, <1>2, <1>3, <2>1 DEF Time, Micros, UsPerSec
<1>4. CASE ~(u > UsPerSec)
  <2>1. ExpiryTime(t, interval) = [sec |-> s, usec |-> u]
    BY SMT, <1>4 DEF ExpiryTime
  <2>2. QED
    BY SMT, <1>1, <1>2, <1>4, <2>1 DEF Time, Micros, UsPerSec
<1>5. QED
  BY <1>3, <1>4

\* Without wrap-around getTimeDiff is within a millisecond of the real
\* difference, and its sign is right.
LEMMA TimeDiffBounds ==
  ASSUME NoWrap, NEW t1, IsTime(t1), NEW t2, IsTime(t2)
  PROVE  /\ getTimeDiff(t1, t2) =
              (t1.sec - t2.sec) * 1000 + MsOf(t1.usec - t2.usec)
         /\ getTimeDiff(t1, t2) \in Int
         /\ getTimeDiff(t1, t2) <= 0 => Micros(t1) < Micros(t2) + UsPerMs
         /\ getTimeDiff(t1, t2) >= 0 => Micros(t1) > Micros(t2) - UsPerMs
         /\ getTimeDiff(t1, t2) > 0  => Micros(t1) > Micros(t2)
         /\ getTimeDiff(t1, t2) < 0  => Micros(t1) < Micros(t2)
<1> DEFINE w  == t1.usec - t2.usec
           m  == MsOf(w)
           k  == t1.sec - t2.sec
           d  == k * 1000 + m
           us == Micros(t1) - Micros(t2)
<1>1. /\ t1.sec \in Nat /\ t1.usec \in Nat /\ t2.sec \in Nat /\ t2.usec \in Nat
      /\ w \in Int /\ k \in Int
  BY SMT DEF IsTime, Time
<1>2. /\ m \in Int
      /\ w >= 0 => 1000 * m <= w /\ w < 1000 * m + 1000
      /\ w <= 0 => w <= 1000 * m /\ 1000 * m < w + 1000
  <2> HIDE DEF w
  <2> QED BY SMT, <1>1 DEF MsOf, UsPerMs
<1>3. Micros(t1) \in Nat /\ Micros(t2) \in Nat /\ us = k * 1000000 + w
  BY SMT, <1>1 DEF Micros, UsPerSec
<1>4. Micros(t1) <= Horizon /\ Micros(t2) <= Horizon
  BY DEF IsTime
<1>5. Horizon \in Nat /\ DiffWrap \in Nat
  BY TimeAssumption, WidthAssumption
<1>6. d \in Int /\ 1000 * d < us + 1000 /\ us < 1000 * d + 1000
  <2> HIDE DEF m, w, k, us
  <2> QED BY SMT, <1>1, <1>2, <1>3
<1>7. /\ us \in Int /\ us <= Horizon /\ -Horizon <= us
  <2> HIDE DEF k, w
  <2> QED BY SMT, <1>3, <1>4, <1>5
<1>8. /\ d < DiffWrap \div 2 /\ -(DiffWrap \div 2) <= d
  <2>1. d <= Horizon \div 1000 + 1 /\ -(Horizon \div 1000 + 1) <= d
    <3> HIDE DEF d, us
    <3> QED BY SMT, <1>5, <1>6, <1>7
  <2> HIDE DEF d
  <2> QED BY SMT, <2>1, <1>5, <1>6 DEF NoWrap
<1>9. getTimeDiff(t1, t2) = d
  BY SMT, <1>6, <1>8 DEF getTimeDiff, ToS32
<1>10. QED
  <2>1. us = Micros(t1) - Micros(t2)
    OBVIOUS
  <2> HIDE DEF d, us
  <2>2. /\ d <= 0 => Micros(t1) < Micros(t2) + 1000
        /\ d >= 0 => Micros(t1) > Micros(t2) - 1000
        /\ d > 0  => Micros(t1) > Micros(t2)
        /\ d < 0  => Micros(t1) < Micros(t2)
    BY SMT, <2>1, <1>3, <1>6
  <2> QED BY <2>2, <1>6, <1>9, Units DEF d

\* What keeps the list ordered: if t goes in front of a, it may also stand in
\* front of everything a may stand in front of, truncation notwithstanding.
LEMMA TimeDiffTransitive ==
  ASSUME NoWrap, NEW a, IsTime(a), NEW b, IsTime(b), NEW t, IsTime(t),
         getTimeDiff(a, t) > 0, getTimeDiff(a, b) <= 0
  PROVE  getTimeDiff(t, b) <= 0
<1> DEFINE at == a.usec - t.usec
           ab == a.usec - b.usec
           tb == t.usec - b.usec
<1>1. /\ a.sec \in Nat /\ b.sec \in Nat /\ t.sec \in Nat
      /\ a.usec \in Nat /\ a.usec <= 1000000
      /\ b.usec \in Nat /\ b.usec <= 1000000
      /\ t.usec \in Nat /\ t.usec <= 1000000
  BY SMT DEF IsTime, Time, UsPerSec
<1>2. /\ (a.sec - t.sec) * 1000 + MsOf(at) > 0
      /\ (a.sec - b.sec) * 1000 + MsOf(ab) <= 0
  <2>1. getTimeDiff(a, t) = (a.sec - t.sec) * 1000 + MsOf(at)
    BY TimeDiffBounds
  <2>2. getTimeDiff(a, b) = (a.sec - b.sec) * 1000 + MsOf(ab)
    BY TimeDiffBounds
  <2> QED BY <2>1, <2>2
<1>3. (t.sec - b.sec) * 1000 + MsOf(tb) <= 0
  <2> DEFINE p == a.sec - t.sec
             q == a.sec - b.sec
  <2>1. /\ at \in Int /\ ab \in Int /\ tb \in Int /\ tb = ab - at
        /\ p \in Int /\ q \in Int /\ t.sec - b.sec = q - p
        /\ tb <= 1000000 /\ at <= 1000000 /\ -1000000 <= ab
    BY SMT, <1>1
  <2>2. /\ MsOf(at) \in Int /\ MsOf(at) <= 1000
        /\ MsOf(at) >= 1 => at >= 1000
    BY SMT, <2>1 DEF MsOf, UsPerMs
  <2>3. /\ MsOf(ab) \in Int /\ MsOf(ab) >= -1000
        /\ MsOf(ab) <= 0 => ab < 1000
        /\ MsOf(ab) <= -1000 => ab = -1000000
    BY SMT, <2>1 DEF MsOf, UsPerMs
  <2>4. /\ MsOf(tb) \in Int /\ MsOf(tb) <= 1000
        /\ tb <= 0 => MsOf(tb) <= 0
    BY SMT, <2>1 DEF MsOf, UsPerMs
  <2>5. p * 1000 + MsOf(at) > 0 /\ q * 1000 + MsOf(ab) <= 0
    BY <1>2
  <2>6. p >= 0 /\ q <= 1
    <3> HIDE DEF p, q, at, ab
    <3> QED BY SMT, <2>1, <2>2, <2>3, <2>5
  <2>7. CASE q < p
    <3> HIDE DEF p, q, tb
    <3> QED BY SMT, <2>1, <2>4, <2>7
  <2>8. CASE p = 0 /\ q = 0
    <3>1. at >= 1000 /\ ab < 1000
      BY SMT, <2>2, <2>3, <2>5, <2>8
    <3> HIDE DEF p, q, at, ab, tb
    <3> QED BY SMT, <2>1, <2>4, <2>8, <3>1
  <2>9. CASE q = 1
    <3>1. ab = -1000000
      BY SMT, <2>3, <2>5, <2>9
    <3>2. a.usec = 0 /\ b.usec = 1000000 /\ tb <= 0
      BY SMT, <1>1, <3>1
    <3>3. p # 0
      BY SMT, <1>1, <2>2, <2>5, <3>2
    <3> HIDE DEF p, q, at, ab, tb
    <3> QED BY SMT, <2>1, <2>4, <2>6, <2>9, <3>2, <3>3
  <2> HIDE DEF p, q
  <2>10. QED
    BY SMT, <2>1, <2>6, <2>7, <2>8, <2>9
<1>4. getTimeDiff(t, b) = (t.sec - b.sec) * 1000 + MsOf(tb)
  BY TimeDiffBounds
<1>5. QED
  BY <1>3, <1>4
\* The timeout handed to select: what is left until head expires, or one
\* millisecond if that is more.
LEMMA SleepTimeProperties ==
  ASSUME NEW head \in Time, head.usec <= UsPerSec,
         NEW curr \in Time, curr.usec < UsPerSec,
         Micros(curr) < Micros(head)
  PROVE  /\ SleepTime(head, curr) \in Time
         /\ SleepTime(head, curr).usec <= UsPerSec
         /\ Micros(SleepTime(head, curr)) >= UsPerMs
         /\ Micros(SleepTime(head, curr)) <= Micros(head) - Micros(curr) + UsPerMs
<1> DEFINE s == head.sec - curr.sec
           u == head.usec - curr.usec
           t == IF u < 0 THEN [sec |-> s - 1, usec |-> UsPerSec + u]
                         ELSE [sec |-> s, usec |-> u]
<1>1. /\ head.sec \in Nat /\ head.usec \in Nat /\ head.usec <= 1000000
      /\ curr.sec \in Nat /\ curr.usec \in Nat /\ curr.usec < 1000000
  BY SMT DEF Time, UsPerSec
<1>2. s * 1000000 + u > 0 /\ s * 1000000 + u = Micros(head) - Micros(curr)
  BY SMT, <1>1 DEF Micros, UsPerSec
<1>3. /\ t \in Time /\ t.usec <= 1000000
      /\ Micros(t) = s * 1000000 + u
  <2>1. CASE u < 0
    <3>1. t = [sec |-> s - 1, usec |-> UsPerSec + u]
      BY <2>1
    <3>2. s - 1 \in Nat /\ UsPerSec + u \in Nat
      BY SMT, <1>1, <1>2, <2>1 DEF UsPerSec
    <3> QED BY SMT, <1>1, <2>1, <3>1, <3>2 DEF Time, Micros, UsPerSec
  <2>2. CASE ~(u < 0)
    <3>1. t = [sec |-> s, usec |-> u]
      BY <2>2
    <3>2. s \in Nat /\ u \in Nat
      BY SMT, <1>1, <1>2, <2>2
    <3> QED BY SMT, <1>1, <2>2, <3>1, <3>2 DEF Time, Micros, UsPerSec
  <2> QED BY <2>1, <2>2
<1>4. SleepTime(head, curr) =
        IF t.sec = 0 /\ t.usec < UsPerMs THEN [t EXCEPT !.usec = UsPerMs] ELSE t
  BY DEF SleepTime
<1> HIDE DEF t
<1>5. CASE t.sec = 0 /\ t.usec < UsPerMs
  <2>1. SleepTime(head, curr) = [sec |-> 0, usec |-> UsPerMs]
    BY SMT, <1>3, <1>4, <1>5 DEF Time
  <2> QED BY SMT, <1>1, <1>2, <2>1 DEF Time, Micros, UsPerSec, UsPerMs
<1>6. CASE ~(t.sec = 0 /\ t.usec < UsPerMs)
  <2>1. SleepTime(head, curr) = t
    BY <1>4, <1>6
  <2>2. /\ t.sec \in Nat /\ t.usec \in Nat /\ Micros(t) = t.sec * 1000000 + t.usec
    BY SMT, <1>3 DEF Time, Micros, UsPerSec
  <2>3. Micros(t) >= 1000
    BY SMT, <1>6, <2>2 DEF UsPerMs
  <2>4. Micros(t) = Micros(head) - Micros(curr) /\ Micros(t) \in Int
    BY SMT, <1>2, <1>3, <2>2
  <2> QED BY SMT, <1>3, <2>1, <2>3, <2>4 DEF UsPerSec, UsPerMs
<1>7. QED
  BY <1>5, <1>6
-----------------------------------------------------------------------------
(* The list. *)

LEMMA InsertAtProperties ==
  ASSUME NEW S, NEW s \in Seq(S), NEW i \in 1..(Len(s) + 1), NEW e \in S
  PROVE  /\ InsertAt(s, i, e) \in Seq(S)
         /\ Len(InsertAt(s, i, e)) = Len(s) + 1
         /\ \A j \in 1..(Len(s) + 1) :
              InsertAt(s, i, e)[j] =
                IF j < i THEN s[j] ELSE IF j = i THEN e ELSE s[j - 1]
<1> DEFINE front == SubSeq(s, 1, i - 1)
           back  == SubSeq(s, i, Len(s))
<1>1. Len(s) \in Nat /\ \A j \in 1..Len(s) : s[j] \in S
  BY LenProperties, ElementOfSeq
<1>2. /\ front \in Seq(S) /\ Len(front) = i - 1
      /\ \A j \in 1..(i - 1) : front[j] = s[j]
  <2>1. \A j \in 1..(i - 1) : s[j] \in S
    BY <1>1
  <2> QED BY <1>1, <2>1, SubSeqProperties
<1>3. /\ back \in Seq(S) /\ Len(back) = Len(s) - i + 1
      /\ \A j \in 1..(Len(s) - i + 1) : back[j] = s[i + j - 1]
  <2>1. \A j \in i..Len(s) : s[j] \in S
    BY <1>1
  <2> QED BY <1>1, <2>1, SubSeqProperties
<1> HIDE DEF front, back
<1>4. /\ <<e>> \in Seq(S) /\ Len(<<e>>) = 1 /\ <<e>>[1] = e
  OBVIOUS
<1> DEFINE fe == front \o <<e>>
<1>5. /\ fe \in Seq(S) /\ Len(fe) = i
      /\ \A j \in 1..(i - 1) : fe[j] = s[j]
      /\ fe[i] = e
  BY <1>1, <1>2, <1>4, ConcatProperties
<1> HIDE DEF fe
<1>6. InsertAt(s, i, e) = fe \o back
  BY DEF InsertAt, fe, front, back
<1>7. /\ fe \o back \in Seq(S)
      /\ Len(fe \o back) = Len(s) + 1
      /\ \A j \in 1..(Len(s) + 1) :
           (fe \o back)[j] = IF j <= i THEN fe[j] ELSE back[j - i]
  <2>1. Len(fe) + Len(back) = Len(s) + 1
    BY <1>1, <1>3, <1>5
  <2>2. /\ fe \o back \in Seq(S)
        /\ Len(fe \o back) = Len(fe) + Len(back)
        /\ \A j \in 1..(Len(fe) + Len(back)) :
             (fe \o back)[j] = IF j <= Len(fe) THEN fe[j] ELSE back[j - Len(fe)]
    BY <1>3, <1>5, ConcatProperties
  <2> QED BY <2>1, <2>2, <1>5
<1>8. ASSUME NEW j \in 1..(Len(s) + 1)
      PROVE  InsertAt(s, i, e)[j] =
               IF j < i THEN s[j] ELSE IF j = i THEN e ELSE s[j - 1]
  <2>1. CASE j <= i
    BY <1>5, <1>6, <1>7, <2>1
  <2>2. CASE j > i
    <3>1. j - i \in 1..(Len(s) - i + 1)
      BY <1>1, <2>2
    <3>2. back[j - i] = s[i + (j - i) - 1]
      BY <1>3, <3>1
    <3> QED BY <1>1, <1>6, <1>7, <2>2, <3>2
  <2> QED BY <2>1, <2>2
<1>9. QED
  BY <1>6, <1>7, <1>8
-----------------------------------------------------------------------------
(* The steps that touch the clock, the list, the calls or the history; all *)
(* others leave these alone.                                               *)

data_vars == <<now, client_vars, curr_time, fired>>

\* Every step is one of six, or changes none of data_vars.
LEMMA Frame ==
  ASSUME [Next]_vars
  PROVE  \/ Tick
         \/ \E a \in Adders, interval \in Intervals : AddTimerReadClock(a, interval)
         \/ \E a \in Adders : AddTimerInsert(a) \/ AddTimerWake(a)
         \/ ProcessReadClock
         \/ ProcessPop
         \/ UNCHANGED data_vars
<1> USE DEF data_vars, client_vars
<1>1. CASE UNCHANGED vars
  BY <1>1 DEF vars, thread_vars
<1>2. ASSUME NEW c \in Controllers, StartTimer(c) \/ StopTimer(c)
      PROVE  UNCHANGED data_vars
  BY <1>2 DEF StartTimer, StopTimer, StartLock, StartCreate, StartWait,
     StartSpuriousWakeup, StartReturn, StopRequest, StopReadThreadId, StopJoin,
     StopReturn, thread_vars
<1>3. CASE RunSignal \/ RunCheckStatus \/ Select
  BY <1>3 DEF RunSignal, RunCheckStatus, Select, SelectEnter, SelectTimeout,
     SelectReadable, SelectInterrupted, SleepOver, Drain
<1>4. CASE CallbackReturn \/ ProcessEmpty \/ ProcessNotDue
  BY <1>4 DEF CallbackReturn, ProcessEmpty, ProcessNotDue
<1>5. QED
  BY <1>1, <1>2, <1>3, <1>4 DEF Next, AddTimer, Process
-----------------------------------------------------------------------------
(* Type correctness. *)

LEMMA InitTypeOK == Init => TypeOK /\ TimesExact
<1> SUFFICES ASSUME Init PROVE TypeOK /\ TimesExact
  OBVIOUS
<1>1. Boot \in Nat /\ Boot <= Horizon /\ PipeCap \in Nat
  BY TimeAssumption, WidthAssumption
<1>2. TimeOf(Boot) \in Time /\ TimeOf(Boot).usec < UsPerSec
      /\ Micros(TimeOf(Boot)) = Boot
  BY <1>1, TimeOfClock
<1>3. IdleTime \in Time
  BY DEF IdleTime, Time
<1>4. TypeOK
  <2>1. NotCalling \in Call
    BY DEF NotCalling, Call
  <2>2. call \in [Adders -> Call]
    BY <2>1 DEF Init
  <2>3. pipe \in NoPipe..PipeCap
    BY <1>1 DEF Init, NoPipe
  <2>4. /\ ctl \in [Controllers -> {"idle", "create", "created", "waiting",
                         "woken", "stopping", "joining", "joined"}]
        /\ mutex \in Controllers \cup {NoOne}
    BY DEF Init
  <2>5. /\ mTimerList \in Seq(Block) /\ due \in Seq(Nat)
        /\ fired \in Seq([timerId : Nat, at : Nat])
    BY DEF Init
  <2> QED BY <1>1, <1>2, <1>3, <2>2, <2>3, <2>4, <2>5 DEF Init, TypeOK
<1>5. TimesExact
  BY <1>1, <1>2 DEF Init, TimesExact, NotCalling
<1>6. QED
  BY <1>4, <1>5

\* The first block of the list is a time like any other.
LEMMA HeadIsTime ==
  ASSUME TypeOK, TimesExact, mTimerList # <<>>
  PROVE  /\ Head(mTimerList) = mTimerList[1] /\ 1 \in 1..Len(mTimerList)
         /\ IsTime(Head(mTimerList).time) /\ IsTime(curr_time)
<1>1. mTimerList \in Seq(Block) /\ Len(mTimerList) \in Nat \ {0}
  BY EmptySeq DEF TypeOK
<1>2. Head(mTimerList) = mTimerList[1] /\ 1 \in 1..Len(mTimerList)
  BY <1>1
<1>3. mTimerList[1] \in Block
  BY <1>1, <1>2, ElementOfSeq
<1>4. IsTime(mTimerList[1].time)
  <2>1. mTimerList[1].time \in Time
    BY <1>3 DEF Block
  <2> QED BY <1>2, <2>1 DEF TimesExact, TimeIs, IsTime
<1>5. IsTime(curr_time)
  <2>1. curr_time \in Time /\ curr_time.usec < UsPerSec /\ now \in Nat
        /\ Micros(curr_time) <= now /\ now <= Horizon
    BY DEF TypeOK, TimesExact
  <2>2. curr_time.usec \in Nat /\ UsPerSec \in Nat /\ Horizon \in Nat
    BY SMT, <2>1, TimeAssumption DEF Time, UsPerSec
  <2>3. Micros(curr_time) \in Nat
    BY SMT, <2>1 DEF Time, Micros, UsPerSec
  <2> HIDE DEF UsPerSec, Micros
  <2> QED BY SMT, <2>1, <2>2, <2>3 DEF IsTime
<1>6. QED
  BY <1>2, <1>4, <1>5

LEMMA ReadClockPreserves ==
  ASSUME TypeOK, TimesExact, NEW a \in Adders, NEW interval \in Intervals,
         AddTimerReadClock(a, interval)
  PROVE  TypeOK' /\ TimesExact'
<1> DEFINE time == ExpiryTime(TimeOf(now), interval)
           at   == now + interval * UsPerMs
           new  == [pc |-> "lock", time |-> time, due |-> at]
<1>1. now \in Nat /\ interval \in Nat
  BY TimeAssumption DEF TypeOK
<1>2. /\ time \in Time /\ time.usec <= UsPerSec /\ Micros(time) = at
      /\ at \in Nat /\ at <= Horizon
  <2>1. /\ TimeOf(now) \in Time /\ TimeOf(now).usec < UsPerSec
        /\ Micros(TimeOf(now)) = now
    BY <1>1, TimeOfClock
  <2>2. at \in Nat
    BY SMT, <1>1 DEF UsPerMs
  <2> QED BY <1>1, <2>1, <2>2, ExpiryExact DEF AddTimerReadClock
<1> HIDE DEF time, at
<1>3. new \in Call /\ TimeIs(new.time, new.due)
  BY <1>2 DEF Call, TimeIs
<1>4. call' = [call EXCEPT ![a] = new] /\ call \in [Adders -> Call]
  BY DEF AddTimerReadClock, TypeOK, time, at
<1> HIDE DEF new
<1>5. call' \in [Adders -> Call]
  BY <1>3, <1>4
<1>6. /\ UNCHANGED <<now, mTimerList, mActiveTimerCount, due, control_vars,
                     thread_vars, pipe>>
  BY DEF AddTimerReadClock
<1>7. TypeOK'
  BY <1>5, <1>6 DEF TypeOK, control_vars, thread_vars
<1>8. \A b \in Adders : call'[b].pc = "lock" => TimeIs(call'[b].time, call'[b].due)
  BY <1>3, <1>4 DEF TimesExact
<1>9. TimesExact'
  BY <1>6, <1>8 DEF TimesExact, TimeIs, thread_vars
<1>10. QED
  BY <1>7, <1>9

LEMMA InsertIntoList ==
  ASSUME mTimerList \in Seq(Block), NEW b \in Block,
         NEW pos \in 1..(Len(mTimerList) + 1)
  PROVE  /\ InsertAt(mTimerList, pos, b) \in Seq(Block)
         /\ Len(InsertAt(mTimerList, pos, b)) = Len(mTimerList) + 1
         /\ \A j \in 1..(Len(mTimerList) + 1) :
              InsertAt(mTimerList, pos, b)[j] =
                IF j < pos THEN mTimerList[j]
                ELSE IF j = pos THEN b ELSE mTimerList[j - 1]
<1> DEFINE S == Block
<1>1. mTimerList \in Seq(S) /\ b \in S
  OBVIOUS
<1> HIDE DEF S
<1>2. /\ InsertAt(mTimerList, pos, b) \in Seq(S)
      /\ Len(InsertAt(mTimerList, pos, b)) = Len(mTimerList) + 1
      /\ \A j \in 1..(Len(mTimerList) + 1) :
           InsertAt(mTimerList, pos, b)[j] =
             IF j < pos THEN mTimerList[j]
             ELSE IF j = pos THEN b ELSE mTimerList[j - 1]
  BY ONLY <1>1, pos \in 1..(Len(mTimerList) + 1), InsertAtProperties
<1>3. QED
  BY <1>2 DEF S

LEMMA InsertPreserves ==
  ASSUME TypeOK, TimesExact, NEW a \in Adders, AddTimerInsert(a)
  PROVE  TypeOK' /\ TimesExact'
<1> DEFINE n == mActiveTimerCount + 1
           b == [timerId |-> n, time |-> call[a].time]
<1>1. /\ mTimerList \in Seq(Block) /\ mActiveTimerCount \in Nat /\ n \in Nat
      /\ due \in Seq(Nat) /\ Len(due) = mActiveTimerCount
  BY DEF TypeOK, TimesExact
<1>2. /\ call[a].time \in Time /\ call[a].due \in Nat
      /\ TimeIs(call[a].time, call[a].due)
  BY DEF AddTimerInsert, TypeOK, TimesExact, Call
<1>3. b \in Block
  BY <1>1, <1>2 DEF Block
<1>4. PICK pos \in 1..(Len(mTimerList) + 1) :
        mTimerList' = InsertAt(mTimerList, pos, b)
  BY DEF AddTimerInsert
<1>5. /\ call' = [call EXCEPT ![a] = [pc |-> "wake"]]
         \/ call' = [call EXCEPT ![a] = NotCalling]
      /\ mActiveTimerCount' = n
      /\ due' = Append(due, call[a].due)
      /\ UNCHANGED <<now, control_vars, thread_vars, pipe>>
  BY DEF AddTimerInsert
<1>6. /\ mTimerList' \in Seq(Block) /\ Len(mTimerList') = Len(mTimerList) + 1
      /\ \A j \in 1..(Len(mTimerList) + 1) :
           mTimerList'[j] = IF j < pos THEN mTimerList[j]
                            ELSE IF j = pos THEN b ELSE mTimerList[j - 1]
  <2> HIDE DEF b
  <2> QED BY <1>1, <1>3, <1>4, InsertIntoList
<1>7. /\ due' \in Seq(Nat) /\ Len(due') = n /\ due'[n] = call[a].due
      /\ \A id \in 1..Len(due) : due'[id] = due[id]
  BY <1>1, <1>2, <1>5, AppendProperties
<1>8. call' \in [Adders -> Call]
  <2>1. [pc |-> "wake"] \in Call /\ NotCalling \in Call
    BY DEF Call, NotCalling
  <2>2. call \in [Adders -> Call]
    BY DEF TypeOK
  <2> QED BY <1>5, <2>1, <2>2
<1>9. TypeOK'
  BY <1>1, <1>5, <1>6, <1>7, <1>8 DEF TypeOK, control_vars, thread_vars
<1>10. ASSUME NEW c \in Adders, call'[c].pc = "lock"
       PROVE  TimeIs(call'[c].time, call'[c].due)
  <2>1. call \in [Adders -> Call]
    BY DEF TypeOK
  <2>2. PICK r : call' = [call EXCEPT ![a] = r] /\ r.pc # "lock"
    <3>1. [pc |-> "wake"].pc # "lock" /\ NotCalling.pc # "lock"
      BY DEF NotCalling
    <3> QED BY <1>5, <3>1
  <2>3. c # a /\ call'[c] = call[c]
    BY <1>10, <2>1, <2>2
  <2> QED BY <1>10, <2>3 DEF TimesExact
<1>11. ASSUME NEW j \in 1..Len(mTimerList')
       PROVE  /\ mTimerList'[j].timerId \in 1..Len(due')
              /\ TimeIs(mTimerList'[j].time, due'[mTimerList'[j].timerId])
  <2>1. CASE j = pos
    <3>1. mTimerList'[j] = b
      BY <1>1, <1>6, <2>1
    <3> QED BY <1>1, <1>2, <1>7, <3>1
  <2>2. CASE j # pos
    <3>1. PICK i \in 1..Len(mTimerList) : mTimerList'[j] = mTimerList[i]
      <4>1. CASE j < pos
        BY <1>1, <1>6, <4>1
      <4>2. CASE j > pos
        <5>1. j - 1 \in 1..Len(mTimerList) /\ mTimerList'[j] = mTimerList[j - 1]
          BY <1>1, <1>6, <4>2
        <5> QED BY <5>1
      <4> QED BY <1>1, <1>6, <2>2, <4>1, <4>2
    <3>2. /\ mTimerList[i].timerId \in 1..Len(due)
          /\ TimeIs(mTimerList[i].time, due[mTimerList[i].timerId])
      BY DEF TimesExact
    <3> QED BY <1>1, <1>7, <3>1, <3>2
  <2> QED BY <2>1, <2>2
<1>12. TimesExact'
  BY <1>5, <1>7, <1>10, <1>11 DEF TimesExact, TimeIs, thread_vars
<1>13. QED
  BY <1>9, <1>12

LEMMA TailProperties ==
  ASSUME NEW S, NEW s \in Seq(S), s # <<>>
  PROVE  /\ Tail(s) \in Seq(S) /\ Len(Tail(s)) = Len(s) - 1
         /\ Len(s) \in Nat \ {0}
         /\ \A i \in 1..(Len(s) - 1) : Tail(s)[i] = s[i + 1]
         /\ Head(s) = s[1] /\ s[1] \in S
<1>1. Len(s) \in Nat \ {0}
  BY EmptySeq
<1>2. QED
  BY <1>1, HeadTailProperties

LEMMA PopPreserves ==
  ASSUME TypeOK, TimesExact, ProcessPop
  PROVE  TypeOK' /\ TimesExact'
<1>1. /\ mTimerList \in Seq(Block) /\ mTimerList # <<>>
      /\ mTimerList' = Tail(mTimerList)
      /\ fired' = Append(fired, [timerId |-> Head(mTimerList).timerId, at |-> now])
      /\ tpc' = "callback"
      /\ UNCHANGED <<now, mActiveTimerCount, call, due, control_vars, curr_time,
                     next_time, wakeAt, pipe>>
  BY DEF ProcessPop, HeadIsDue, TypeOK
<1>2. /\ mTimerList' \in Seq(Block) /\ Len(mTimerList') = Len(mTimerList) - 1
      /\ \A i \in 1..Len(mTimerList') : mTimerList'[i] = mTimerList[i + 1]
      /\ Len(mTimerList) \in Nat \ {0}
      /\ Head(mTimerList) \in Block
  BY <1>1, TailProperties
<1>3. fired' \in Seq([timerId : Nat, at : Nat])
  <2>1. [timerId |-> Head(mTimerList).timerId, at |-> now] \in [timerId : Nat, at : Nat]
    BY <1>2 DEF Block, TypeOK
  <2> QED BY <1>1, <2>1, AppendProperties DEF TypeOK
<1>4. TypeOK'
  BY <1>1, <1>2, <1>3 DEF TypeOK, control_vars
<1>5. \A i \in 1..Len(mTimerList') : i + 1 \in 1..Len(mTimerList)
  BY <1>2
<1>6. TimesExact'
  BY <1>1, <1>2, <1>5 DEF TimesExact, TimeIs
<1>7. QED
  BY <1>4, <1>6

LEMMA ClockPreserves ==
  ASSUME TypeOK, TimesExact, Tick \/ ProcessReadClock \/ (\E a \in Adders : AddTimerWake(a))
  PROVE  TypeOK' /\ TimesExact'
<1>1. CASE Tick
  <2>1. /\ now' \in Nat /\ now' > now /\ now' <= Horizon
        /\ UNCHANGED <<client_vars, control_vars, thread_vars, pipe>>
    BY <1>1, TimeAssumption DEF Tick
  <2>2. Micros(curr_time) \in Nat /\ Micros(curr_time) <= now /\ now \in Nat
    BY SMT DEF TypeOK, TimesExact, Time, Micros, UsPerSec
  <2>3. Micros(curr_time) <= now'
    BY <2>1, <2>2
  <2>4. TypeOK'
    BY <2>1 DEF TypeOK, client_vars, control_vars, thread_vars
  <2>5. TimesExact'
    BY <2>1, <2>3 DEF TimesExact, TimeIs, client_vars, thread_vars
  <2> QED BY <2>4, <2>5
<1>2. CASE ProcessReadClock
  <2>1. /\ curr_time' = TimeOf(now) /\ tpc' = "scan"
        /\ UNCHANGED <<now, client_vars, control_vars, next_time, wakeAt, fired, pipe>>
    BY <1>2 DEF ProcessReadClock
  <2>2. now \in Nat
    BY DEF TypeOK
  <2>3. curr_time' \in Time /\ curr_time'.usec < UsPerSec /\ Micros(curr_time') <= now
    BY <2>1, <2>2, TimeOfClock
  <2>4. TypeOK'
    BY <2>1, <2>3 DEF TypeOK, client_vars, control_vars
  <2>5. TimesExact'
    BY <2>1, <2>3 DEF TimesExact, TimeIs, client_vars
  <2> QED BY <2>4, <2>5
<1>3. ASSUME NEW a \in Adders, AddTimerWake(a)
      PROVE  TypeOK' /\ TimesExact'
  <2>1. /\ call' = [call EXCEPT ![a] = NotCalling]
        /\ pipe' \in NoPipe..PipeCap
        /\ UNCHANGED <<now, mTimerList, mActiveTimerCount, due, control_vars, thread_vars>>
    BY <1>3, WidthAssumption DEF AddTimerWake, TypeOK, NoPipe
  <2>2. NotCalling \in Call
    BY DEF NotCalling, Call
  <2>3. call' \in [Adders -> Call]
    BY <2>1, <2>2 DEF TypeOK
  <2>4. TypeOK'
    BY <2>1, <2>3 DEF TypeOK, control_vars, thread_vars
  <2>5. TimesExact'
    BY <2>1 DEF TypeOK, TimesExact, TimeIs, NotCalling, thread_vars
  <2> QED BY <2>4, <2>5
<1>4. QED
  BY <1>1, <1>2, <1>3

CtlStates == {"idle", "create", "created", "waiting", "woken", "stopping",
              "joining", "joined"}

\* The variables startTimer, stopTimer and the thread's control steps leave
\* alone.
LEMMA ControllerPreserves ==
  ASSUME TypeOK, NEW c \in Controllers, StartTimer(c) \/ StopTimer(c)
  PROVE  TypeOK'
<1>1. /\ ctl \in [Controllers -> CtlStates]
      /\ \A x \in CtlStates : [ctl EXCEPT ![c] = x] \in [Controllers -> CtlStates]
  BY DEF TypeOK, CtlStates
<1>2. /\ \E x \in CtlStates : ctl' = [ctl EXCEPT ![c] = x]
      /\ mStatus' \in BOOLEAN /\ mThreadId' \in BOOLEAN
      /\ mutex' \in {mutex, c, NoOne}
      /\ pipe' = pipe \/ pipe' = 0
      /\ starts' = starts \/ starts' = starts + 1
      /\ tpc' = tpc \/ tpc' = "signal" \/ tpc' = "off"
      /\ UNCHANGED <<now, client_vars, curr_time, next_time, wakeAt, fired>>
  <2>1. CASE StartLock(c)
    BY <2>1 DEF StartLock, TypeOK, CtlStates, thread_vars
  <2>2. CASE StartCreate(c)
    BY <2>2 DEF StartCreate, TypeOK, CtlStates
  <2>3. CASE StartWait(c) \/ StartSpuriousWakeup(c) \/ StartReturn(c)
    BY <2>3 DEF StartWait, StartSpuriousWakeup, StartReturn, TypeOK, CtlStates,
       thread_vars
  <2>4. CASE StopRequest(c) \/ StopReadThreadId(c) \/ StopReturn(c)
    BY <2>4 DEF StopRequest, StopReadThreadId, StopReturn, TypeOK, CtlStates,
       thread_vars
  <2>5. CASE StopJoin(c)
    BY <2>5 DEF StopJoin, TypeOK, CtlStates
  <2> QED BY <2>1, <2>2, <2>3, <2>4, <2>5 DEF StartTimer, StopTimer
<1>3. ctl' \in [Controllers -> CtlStates]
  BY <1>1, <1>2
<1>4. pipe' \in NoPipe..PipeCap
  BY <1>2, WidthAssumption DEF TypeOK, NoPipe
<1>5. QED
  BY <1>2, <1>3, <1>4 DEF TypeOK, client_vars, CtlStates

LEMMA ThreadPreserves ==
  ASSUME TypeOK, RunSignal \/ RunCheckStatus \/ CallbackReturn \/ ProcessEmpty \/ Select
  PROVE  TypeOK'
<1>1. CASE RunSignal
  <2>1. \/ UNCHANGED ctl
        \/ \E c \in Controllers : ctl' = [ctl EXCEPT ![c] = "woken"]
    BY <1>1 DEF RunSignal
  <2>2. ctl' \in [Controllers -> CtlStates]
    BY <2>1 DEF TypeOK, CtlStates
  <2> QED BY <1>1, <2>2 DEF RunSignal, TypeOK, client_vars, CtlStates
<1>2. CASE RunCheckStatus \/ CallbackReturn \/ SleepOver
  BY <1>2 DEF RunCheckStatus, CallbackReturn, SleepOver, TypeOK, client_vars,
     control_vars
<1>3. CASE ProcessEmpty
  <2>1. IdleTime \in Time
    BY DEF IdleTime, Time
  <2> QED BY <1>3, <2>1 DEF ProcessEmpty, TypeOK, client_vars, control_vars
<1>4. CASE SelectEnter
  <2>1. wakeAt' \in Nat
    BY SMT, <1>4 DEF SelectEnter, TypeOK, Time, Micros, UsPerSec
  <2> QED BY <1>4, <2>1 DEF SelectEnter, TypeOK, client_vars, control_vars
<1>5. CASE SelectTimeout \/ SelectReadable \/ SelectInterrupted
  BY <1>5 DEF SelectTimeout, SelectReadable, SelectInterrupted, TypeOK,
     client_vars, control_vars
<1>6. CASE Drain
  <2>1. pipe' \in NoPipe..PipeCap
    BY <1>6, WidthAssumption DEF Drain, NoPipe
  <2> QED BY <1>6, <2>1 DEF Drain, TypeOK, client_vars, control_vars
<1>7. QED
  BY <1>1, <1>2, <1>3, <1>4, <1>5, <1>6 DEF Select

\* The timeout is computed only when the head is later than curr_time.
LEMMA NotDueSleep ==
  ASSUME NoWrap, TypeOK, TimesExact, ProcessNotDue
  PROVE  /\ next_time' \in Time /\ next_time'.usec <= UsPerSec
         /\ Micros(next_time') >= UsPerMs
         /\ Micros(next_time') <=
              Micros(Head(mTimerList).time) - Micros(curr_time) + UsPerMs
<1>1. /\ IsTime(Head(mTimerList).time) /\ IsTime(curr_time)
      /\ next_time' = SleepTime(Head(mTimerList).time, curr_time)
      /\ ~(getTimeDiff(curr_time, Head(mTimerList).time) >= 0)
  BY HeadIsTime DEF ProcessNotDue, HeadIsDue
<1>2. getTimeDiff(curr_time, Head(mTimerList).time) < 0
  <2>1. getTimeDiff(curr_time, Head(mTimerList).time) \in Int
    BY <1>1, TimeDiffBounds
  <2> HIDE DEF getTimeDiff
  <2> QED BY <1>1, <2>1
<1>3. Micros(curr_time) < Micros(Head(mTimerList).time)
  BY <1>1, <1>2, TimeDiffBounds
<1>4. curr_time \in Time /\ curr_time.usec < UsPerSec
  BY DEF TypeOK, TimesExact
<1>5. Head(mTimerList).time \in Time /\ Head(mTimerList).time.usec <= UsPerSec
  BY <1>1 DEF IsTime
<1>6. QED
  BY <1>1, <1>3, <1>4, <1>5, SleepTimeProperties

LEMMA NotDuePreserves ==
  ASSUME NoWrap, TypeOK, TimesExact, ProcessNotDue
  PROVE  TypeOK'
BY NotDueSleep DEF ProcessNotDue, TypeOK, client_vars, control_vars

\* One case per step of the service.
LEMMA NextPreservesTypes ==
  ASSUME NoWrap, TypeOK, TimesExact, [Next]_vars
  PROVE  TypeOK' /\ TimesExact'
<1>1. ASSUME UNCHANGED data_vars PROVE TimesExact'
  BY <1>1 DEF TimesExact, TimeIs, data_vars, client_vars
<1>2. ASSUME NEW a \in Adders, NEW interval \in Intervals,
             AddTimerReadClock(a, interval)
      PROVE  TypeOK' /\ TimesExact'
  BY <1>2, ReadClockPreserves
<1>3. ASSUME NEW a \in Adders, AddTimerInsert(a)
      PROVE  TypeOK' /\ TimesExact'
  BY <1>3, InsertPreserves
<1>4. CASE Tick \/ ProcessReadClock \/ (\E a \in Adders : AddTimerWake(a))
  BY <1>4, ClockPreserves
<1>5. CASE ProcessPop
  BY <1>5, PopPreserves
<1>6. CASE UNCHANGED data_vars
  <2>1. CASE UNCHANGED vars
    BY <2>1 DEF vars, client_vars, control_vars, thread_vars, TypeOK, TimesExact, TimeIs
  <2>2. CASE \E c \in Controllers : StartTimer(c) \/ StopTimer(c)
    BY <1>1, <1>6, <2>2, ControllerPreserves
  <2>3. CASE RunSignal \/ RunCheckStatus \/ CallbackReturn \/ ProcessEmpty \/ Select
    BY <1>1, <1>6, <2>3, ThreadPreserves
  <2>4. CASE ProcessNotDue
    BY <1>1, <1>6, <2>4, NotDuePreserves
  <2> QED BY <1>2, <1>3, <1>4, <1>5, <2>1, <2>2, <2>3, <2>4 DEF Next, AddTimer, Process
<1>7. QED
  BY <1>2, <1>3, <1>4, <1>5, <1>6, Frame

\* Types and times are inductive together only.
LEMMA TypesAndTimes == ASSUME NoWrap PROVE Spec => [](TypeOK /\ TimesExact)
<1>1. Init => TypeOK /\ TimesExact
  BY InitTypeOK
<1>2. (TypeOK /\ TimesExact) /\ [Next]_vars => (TypeOK /\ TimesExact)'
  BY NextPreservesTypes
<1>3. QED
  BY <1>1, <1>2, PTL DEF Spec

\* The variables keep their types: the list, the clock values, the mutex and
\* the counters of the pipe.
THEOREM TypeCorrect == ASSUME NoWrap PROVE Spec => []TypeOK
BY TypesAndTimes, PTL

\* Every expiry in the system is to the microsecond the one its caller asked
\* for (addTimer's conversions), and no clock that was read is ahead.
THEOREM ExpiriesExact == ASSUME NoWrap PROVE Spec => []TimesExact
BY TypesAndTimes, PTL
-----------------------------------------------------------------------------
(* The safety properties: the order of the list, callbacks that are called     *)
(* once and never early, and the start and stop handshakes.                    *)

\* What a step that registers a timer does to the list and the history.
LEMMA InsertStep ==
  ASSUME TypeOK, TimesExact, NEW a \in Adders, AddTimerInsert(a)
  PROVE  /\ IsTime(call[a].time)
         /\ mActiveTimerCount' = mActiveTimerCount + 1
         /\ due' = Append(due, call[a].due) /\ call[a].due \in Nat
         /\ fired' = fired
         /\ \E pos \in 1..(Len(mTimerList) + 1) :
              /\ IsInsertPos(mTimerList, call[a].time, pos)
              /\ Len(mTimerList') = Len(mTimerList) + 1
              /\ \A j \in 1..(Len(mTimerList) + 1) :
                   mTimerList'[j] =
                     IF j < pos THEN mTimerList[j]
                     ELSE IF j = pos
                       THEN [timerId |-> mActiveTimerCount + 1, time |-> call[a].time]
                       ELSE mTimerList[j - 1]
<1> DEFINE b == [timerId |-> mActiveTimerCount + 1, time |-> call[a].time]
<1>1. /\ call[a].time \in Time /\ call[a].due \in Nat
      /\ IsTime(call[a].time)
  BY DEF AddTimerInsert, TypeOK, TimesExact, Call, TimeIs, IsTime
<1>2. mTimerList \in Seq(Block) /\ b \in Block
  BY <1>1 DEF TypeOK, Block
<1>3. PICK pos \in 1..(Len(mTimerList) + 1) :
        /\ IsInsertPos(mTimerList, call[a].time, pos)
        /\ mTimerList' = InsertAt(mTimerList, pos, b)
  BY DEF AddTimerInsert
<1> HIDE DEF b
<1>4. /\ Len(InsertAt(mTimerList, pos, b)) = Len(mTimerList) + 1
      /\ \A j \in 1..(Len(mTimerList) + 1) :
           InsertAt(mTimerList, pos, b)[j] =
             IF j < pos THEN mTimerList[j]
             ELSE IF j = pos THEN b ELSE mTimerList[j - 1]
  BY <1>2, InsertIntoList
<1>5. /\ mActiveTimerCount' = mActiveTimerCount + 1
      /\ due' = Append(due, call[a].due) /\ fired' = fired
  BY DEF AddTimerInsert, thread_vars
<1>6. /\ Len(mTimerList') = Len(mTimerList) + 1
      /\ \A j \in 1..(Len(mTimerList) + 1) :
           mTimerList'[j] = IF j < pos THEN mTimerList[j]
                            ELSE IF j = pos THEN b ELSE mTimerList[j - 1]
  BY <1>3, <1>4
<1>7. QED
  BY <1>1, <1>3, <1>5, <1>6 DEF b

\* Every block of the list is a time, and has an id that was given out.
LEMMA BlocksAreTimes ==
  ASSUME TypeOK, TimesExact, NEW i \in 1..Len(mTimerList)
  PROVE  IsTime(mTimerList[i].time) /\ mTimerList[i].timerId \in 1..Len(due)
<1>1. mTimerList[i] \in Block
  BY ElementOfSeq DEF TypeOK
<1>2. QED
  BY <1>1 DEF TimesExact, TimeIs, IsTime, Block
-----------------------------------------------------------------------------
(* The order of the list. *)

LEMMA TimeDiffReflexive ==
  ASSUME NoWrap, NEW t, IsTime(t)
  PROVE  getTimeDiff(t, t) <= 0
<1>1. t.sec \in Nat /\ t.usec \in Nat
  BY DEF IsTime, Time
<1>2. getTimeDiff(t, t) = (t.sec - t.sec) * 1000 + MsOf(t.usec - t.usec)
  BY TimeDiffBounds
<1>3. MsOf(t.usec - t.usec) = 0
  BY SMT, <1>1 DEF MsOf, UsPerMs
<1>4. QED
  BY SMT, <1>1, <1>2, <1>3

\* The new block is no later than the block it was put in front of, and so, by
\* TimeDiffTransitive, than all that follow.
LEMMA InsertKeepsOrder ==
  ASSUME NoWrap, TypeOK, TimesExact, ListOrdered,
         NEW a \in Adders, AddTimerInsert(a)
  PROVE  ListOrdered'
<1> DEFINE t == call[a].time
           D(x, y) == getTimeDiff(x, y) <= 0
           n == Len(mTimerList)
<1>1. IsTime(t) /\ n \in Nat
  BY InsertStep, LenProperties DEF TypeOK
<1>2. PICK pos \in 1..(n + 1) :
        /\ IsInsertPos(mTimerList, t, pos)
        /\ Len(mTimerList') = n + 1
        /\ \A j \in 1..(n + 1) :
             mTimerList'[j] =
               IF j < pos THEN mTimerList[j]
               ELSE IF j = pos THEN [timerId |-> mActiveTimerCount + 1, time |-> t]
                    ELSE mTimerList[j - 1]
  BY InsertStep
<1>3. /\ \A i \in 1..(pos - 1) : D(mTimerList[i].time, t)
      /\ pos <= n => getTimeDiff(mTimerList[pos].time, t) > 0
  BY <1>2 DEF IsInsertPos
<1>4. \A i, j \in 1..n : i < j => D(mTimerList[i].time, mTimerList[j].time)
  BY DEF ListOrdered
<1>5. ASSUME NEW j \in 1..n, pos <= j
      PROVE  D(t, mTimerList[j].time)
  <2>1. pos \in 1..n
    BY <1>1, <1>5
  <2>2. IsTime(mTimerList[pos].time) /\ IsTime(mTimerList[j].time)
    BY <2>1, BlocksAreTimes
  <2>3. D(mTimerList[pos].time, mTimerList[j].time)
    <3>1. CASE pos = j
      BY <2>2, <3>1, TimeDiffReflexive
    <3>2. CASE pos < j
      BY <1>4, <2>1, <3>2
    <3> QED BY <1>1, <1>5, <2>1, <3>1, <3>2
  <2> QED BY <1>1, <1>3, <2>1, <2>2, <2>3, TimeDiffTransitive
<1> HIDE DEF D, t
<1>6. ASSUME NEW i \in 1..(n + 1), NEW j \in 1..(n + 1), i < j
      PROVE  D(mTimerList'[i].time, mTimerList'[j].time)
  <2>1. CASE j < pos
    <3>1. /\ mTimerList'[i] = mTimerList[i] /\ mTimerList'[j] = mTimerList[j]
          /\ i \in 1..n /\ j \in 1..n
      BY <1>1, <1>2, <1>6, <2>1
    <3> QED BY <1>4, <1>6, <3>1
  <2>2. CASE j = pos
    <3>1. mTimerList'[i] = mTimerList[i] /\ mTimerList'[j].time = t /\ i \in 1..(pos - 1)
      BY <1>1, <1>2, <1>6, <2>2
    <3> QED BY <1>3, <3>1
  <2>3. CASE i < pos /\ pos < j
    <3>1. /\ mTimerList'[i] = mTimerList[i] /\ mTimerList'[j] = mTimerList[j - 1]
          /\ i \in 1..n /\ j - 1 \in 1..n /\ i < j - 1
      BY <1>1, <1>2, <1>6, <2>3
    <3> QED BY <1>4, <3>1
  <2>4. CASE i = pos
    <3>1. /\ mTimerList'[i].time = t /\ mTimerList'[j] = mTimerList[j - 1]
          /\ j - 1 \in 1..n /\ pos <= j - 1
      BY <1>1, <1>2, <1>6, <2>4
    <3> QED BY <1>5, <3>1
  <2>5. CASE pos < i
    <3>1. /\ mTimerList'[i] = mTimerList[i - 1] /\ mTimerList'[j] = mTimerList[j - 1]
          /\ i - 1 \in 1..n /\ j - 1 \in 1..n /\ i - 1 < j - 1
      BY <1>1, <1>2, <1>6, <2>5
    <3> QED BY <1>4, <3>1
  <2> QED BY <1>1, <1>6, <2>1, <2>2, <2>3, <2>4, <2>5
<1>7. QED
  BY <1>2, <1>6 DEF ListOrdered, D

LEMMA PopKeepsOrder ==
  ASSUME TypeOK, ListOrdered, ProcessPop
  PROVE  ListOrdered'
<1>1. mTimerList \in Seq(Block) /\ mTimerList # <<>> /\ mTimerList' = Tail(mTimerList)
  BY DEF TypeOK, ProcessPop, HeadIsDue
<1>2. /\ Len(mTimerList') = Len(mTimerList) - 1 /\ Len(mTimerList) \in Nat \ {0}
      /\ \A i \in 1..(Len(mTimerList) - 1) : mTimerList'[i] = mTimerList[i + 1]
  BY <1>1, TailProperties
<1>3. ASSUME NEW i \in 1..Len(mTimerList'), NEW j \in 1..Len(mTimerList'), i < j
      PROVE  getTimeDiff(mTimerList'[i].time, mTimerList'[j].time) <= 0
  <2>1. /\ i + 1 \in 1..Len(mTimerList) /\ j + 1 \in 1..Len(mTimerList)
        /\ i + 1 < j + 1
        /\ mTimerList'[i] = mTimerList[i + 1] /\ mTimerList'[j] = mTimerList[j + 1]
    BY <1>2, <1>3
  <2> QED BY <2>1 DEF ListOrdered
<1>4. QED
  BY <1>3 DEF ListOrdered

\* addToTimerList keeps the list ordered by expiry.
THEOREM ListStaysOrdered == ASSUME NoWrap PROVE Spec => []ListOrdered
<1>1. Init => ListOrdered
  BY DEF Init, ListOrdered
<1>2. TypeOK /\ TimesExact /\ ListOrdered /\ [Next]_vars => ListOrdered'
  <2> SUFFICES ASSUME TypeOK, TimesExact, ListOrdered, [Next]_vars
               PROVE  ListOrdered'
    OBVIOUS
  <2>1. ASSUME NEW a \in Adders, AddTimerInsert(a) PROVE ListOrdered'
    BY <2>1, InsertKeepsOrder
  <2>2. CASE ProcessPop
    BY <2>2, PopKeepsOrder
  <2>3. CASE UNCHANGED mTimerList
    BY <2>3 DEF ListOrdered
  <2>4. QED
    BY <2>1, <2>2, <2>3, Frame DEF Tick, AddTimerReadClock, AddTimerWake,
       ProcessReadClock, data_vars, client_vars
<1>3. QED
  BY <1>1, <1>2, TypesAndTimes, PTL DEF Spec
-----------------------------------------------------------------------------
(* Every callback once. *)

\* A registered timer takes an id that is neither pending nor fired.
LEMMA InsertKeepsIds ==
  ASSUME TypeOK, TimesExact, FiredExactlyOnce, NEW a \in Adders, AddTimerInsert(a)
  PROVE  /\ FiredExactlyOnce'
         /\ PendingIds' = PendingIds \cup {Len(due) + 1}
<1> DEFINE n == Len(mTimerList)
           new == mActiveTimerCount + 1
<1>1. /\ n \in Nat /\ mActiveTimerCount \in Nat /\ Len(due) = mActiveTimerCount
      /\ mActiveTimerCount' = new /\ fired' = fired
  BY InsertStep, LenProperties DEF TypeOK, TimesExact
<1>2. PICK pos \in 1..(n + 1) :
        /\ Len(mTimerList') = n + 1
        /\ \A j \in 1..(n + 1) :
             mTimerList'[j] =
               IF j < pos THEN mTimerList[j]
               ELSE IF j = pos THEN [timerId |-> new, time |-> call[a].time]
                    ELSE mTimerList[j - 1]
  BY InsertStep
<1> HIDE DEF n, new
<1>3. \A j \in 1..(n + 1) :
        \/ j < pos /\ j \in 1..n /\ mTimerList'[j] = mTimerList[j]
        \/ j = pos /\ mTimerList'[j].timerId = new
        \/ pos < j /\ j - 1 \in 1..n /\ mTimerList'[j] = mTimerList[j - 1]
  BY <1>1, <1>2
<1>4. \A i \in 1..n : \E j \in 1..(n + 1) : mTimerList'[j] = mTimerList[i]
  <2> TAKE i \in 1..n
  <2>1. CASE i < pos
    BY <1>1, <1>2, <2>1
  <2>2. CASE ~(i < pos)
    <3>1. i + 1 \in 1..(n + 1) /\ mTimerList'[i + 1] = mTimerList[i]
      BY <1>1, <1>2, <2>2
    <3> QED BY <3>1
  <2> QED BY <2>1, <2>2
<1>5. PendingIds' = PendingIds \cup {new}
  <2>1. PendingIds = {mTimerList[i].timerId : i \in 1..n}
        /\ PendingIds' = {mTimerList'[i].timerId : i \in 1..(n + 1)}
    BY <1>2 DEF PendingIds, n
  <2>2. ASSUME NEW id \in PendingIds' PROVE id \in PendingIds \cup {new}
    BY <1>3, <2>1, <2>2
  <2>3. ASSUME NEW id \in PendingIds \cup {new} PROVE id \in PendingIds'
    <3>1. mTimerList'[pos].timerId = new
      BY <1>1, <1>2
    <3> QED BY <1>4, <2>1, <2>3, <3>1
  <2> QED BY <2>2, <2>3
<1>6. /\ PendingIds \cup FiredIds = 1..mActiveTimerCount
      /\ PendingIds \cap FiredIds = {}
      /\ \A i, j \in 1..n : mTimerList[i].timerId = mTimerList[j].timerId => i = j
      /\ \A i, j \in 1..Len(fired) : fired[i].timerId = fired[j].timerId => i = j
  BY DEF FiredExactlyOnce, n
<1>7. FiredIds' = FiredIds
  BY <1>1 DEF FiredIds
<1>8. new \notin PendingIds /\ new \notin FiredIds
  BY <1>1, <1>6 DEF new
<1>9. \A i, j \in 1..(n + 1) :
        mTimerList'[i].timerId = mTimerList'[j].timerId => i = j
  <2>1. \A i \in 1..n : mTimerList[i].timerId # new
    BY <1>8 DEF PendingIds, n
  <2> QED BY <1>1, <1>3, <1>6, <2>1
<1>10. 1..new = 1..mActiveTimerCount \cup {new}
  BY <1>1 DEF new
<1>11. FiredExactlyOnce'
  BY <1>1, <1>2, <1>5, <1>6, <1>7, <1>8, <1>9, <1>10 DEF FiredExactlyOnce
<1>12. QED
  BY <1>1, <1>5, <1>11 DEF new

\* processTimeout moves the id of the head from the list to the history.
LEMMA PopKeepsIds ==
  ASSUME TypeOK, FiredExactlyOnce, ProcessPop
  PROVE  /\ FiredExactlyOnce'
         /\ Head(mTimerList).timerId \in PendingIds
         /\ PendingIds' = PendingIds \ {Head(mTimerList).timerId}
<1> DEFINE n  == Len(mTimerList)
           id == Head(mTimerList).timerId
           m  == Len(fired)
           FiredType == [timerId : Nat, at : Nat]
<1>1. /\ mTimerList \in Seq(Block) /\ mTimerList # <<>>
      /\ mTimerList' = Tail(mTimerList)
      /\ fired' = Append(fired, [timerId |-> id, at |-> now])
      /\ mActiveTimerCount' = mActiveTimerCount
  BY DEF ProcessPop, HeadIsDue, TypeOK
<1>2. /\ n \in Nat \ {0} /\ Len(mTimerList') = n - 1
      /\ \A i \in 1..(n - 1) : mTimerList'[i] = mTimerList[i + 1]
      /\ Head(mTimerList) = mTimerList[1] /\ mTimerList[1] \in Block
  BY <1>1, TailProperties
<1>3. [timerId |-> id, at |-> now] \in FiredType /\ fired \in Seq(FiredType)
  BY <1>2 DEF Block, TypeOK
<1> HIDE DEF id, FiredType
<1>4. /\ m \in Nat /\ Len(fired') = m + 1
      /\ \A i \in 1..m : fired'[i] = fired[i]
      /\ fired'[m + 1].timerId = id
  BY <1>1, <1>3, AppendProperties, LenProperties
<1> HIDE DEF n, m
<1>5. /\ PendingIds \cup FiredIds = 1..mActiveTimerCount
      /\ PendingIds \cap FiredIds = {}
      /\ \A i, j \in 1..n : mTimerList[i].timerId = mTimerList[j].timerId => i = j
      /\ \A i, j \in 1..m : fired[i].timerId = fired[j].timerId => i = j
  BY DEF FiredExactlyOnce, n, m
<1>6. id = mTimerList[1].timerId /\ 1 \in 1..n /\ id \in PendingIds
  BY <1>2 DEF PendingIds, n, id
<1>7. PendingIds' = PendingIds \ {id}
  <2>1. PendingIds = {mTimerList[i].timerId : i \in 1..n}
        /\ PendingIds' = {mTimerList'[i].timerId : i \in 1..(n - 1)}
    BY <1>2 DEF PendingIds, n
  <2>2. ASSUME NEW p \in PendingIds' PROVE p \in PendingIds \ {id}
    <3>1. PICK i \in 1..(n - 1) : p = mTimerList[i + 1].timerId
      BY <1>2, <2>1
    <3>2. i + 1 \in 1..n /\ i + 1 # 1
      BY <1>2
    <3> QED BY <1>5, <1>6, <2>1, <3>1, <3>2
  <2>3. ASSUME NEW p \in PendingIds \ {id} PROVE p \in PendingIds'
    <3>1. PICK i \in 1..n : p = mTimerList[i].timerId
      BY <2>1
    <3>2. i # 1
      BY <1>6, <3>1
    <3>3. i - 1 \in 1..(n - 1) /\ mTimerList'[i - 1] = mTimerList[i]
      BY <1>2, <3>2
    <3> QED BY <2>1, <3>1, <3>3
  <2> QED BY <2>2, <2>3
<1>8. FiredIds' = FiredIds \cup {id}
  <2>1. FiredIds = {fired[i].timerId : i \in 1..m}
        /\ FiredIds' = {fired'[i].timerId : i \in 1..(m + 1)}
    BY <1>4 DEF FiredIds, m
  <2>2. \A i \in 1..(m + 1) : i \in 1..m \/ i = m + 1
    BY <1>4
  <2>3. m + 1 \in 1..(m + 1) /\ \A i \in 1..m : i \in 1..(m + 1)
    BY <1>4
  <2> QED BY <1>4, <2>1, <2>2, <2>3
<1>9. \A i, j \in 1..(n - 1) :
        mTimerList'[i].timerId = mTimerList'[j].timerId => i = j
  <2> SUFFICES ASSUME NEW i \in 1..(n - 1), NEW j \in 1..(n - 1),
                      mTimerList'[i].timerId = mTimerList'[j].timerId
               PROVE  i = j
    OBVIOUS
  <2>1. i + 1 \in 1..n /\ j + 1 \in 1..n
    BY <1>2
  <2>2. i + 1 = j + 1
    BY <1>2, <1>5, <2>1
  <2> QED BY <2>2
<1>10. \A i, j \in 1..(m + 1) : fired'[i].timerId = fired'[j].timerId => i = j
  <2>1. \A i \in 1..m : fired[i].timerId # id
    BY <1>5, <1>6 DEF FiredIds, m
  <2>2. \A i \in 1..(m + 1) : i \in 1..m \/ i = m + 1
    BY <1>4
  <2> QED BY <1>4, <1>5, <2>1, <2>2
<1>11. FiredExactlyOnce'
  BY <1>1, <1>2, <1>4, <1>5, <1>6, <1>7, <1>8, <1>9, <1>10 DEF FiredExactlyOnce
<1>12. QED
  BY <1>6, <1>7, <1>11 DEF id

\* The other steps change neither the list nor the history.
LEMMA OthersKeepIds ==
  ASSUME [Next]_vars,
         ~ProcessPop, \A a \in Adders : ~AddTimerInsert(a)
  PROVE  UNCHANGED <<mTimerList, mActiveTimerCount, due, fired>>
BY Frame DEF Tick, AddTimerReadClock, AddTimerWake, ProcessReadClock,
   data_vars, client_vars, thread_vars

\* No timer is lost and no callback is called twice, whatever the clients, the
\* callbacks and the controllers do, over restarts of the service too.
THEOREM EveryCallbackOnce == ASSUME NoWrap PROVE Spec => []FiredExactlyOnce
<1>1. Init => FiredExactlyOnce
  BY DEF Init, FiredExactlyOnce, PendingIds, FiredIds
<1>2. TypeOK /\ TimesExact /\ FiredExactlyOnce /\ [Next]_vars => FiredExactlyOnce'
  <2> SUFFICES ASSUME TypeOK, TimesExact, FiredExactlyOnce, [Next]_vars
               PROVE  FiredExactlyOnce'
    OBVIOUS
  <2>1. ASSUME NEW a \in Adders, AddTimerInsert(a) PROVE FiredExactlyOnce'
    BY <2>1, InsertKeepsIds
  <2>2. CASE ProcessPop
    BY <2>2, PopKeepsIds
  <2>3. CASE UNCHANGED <<mTimerList, mActiveTimerCount, due, fired>>
    <3>1. PendingIds' = PendingIds /\ FiredIds' = FiredIds
      BY <2>3 DEF PendingIds, FiredIds
    <3> QED BY <2>3, <3>1 DEF FiredExactlyOnce
  <2>4. QED
    BY <2>1, <2>2, <2>3, OthersKeepIds
<1>3. QED
  BY <1>1, <1>2, TypesAndTimes, PTL DEF Spec
-----------------------------------------------------------------------------
(* Never early. *)

\* The head that processTimeout takes off is less than a millisecond early.
LEMMA PopIsDue ==
  ASSUME NoWrap, TypeOK, TimesExact, ProcessPop
  PROVE  /\ now \in Nat
         /\ due[Head(mTimerList).timerId] \in Nat
         /\ now > due[Head(mTimerList).timerId] - UsPerMs
<1>1. mTimerList # <<>> /\ getTimeDiff(curr_time, Head(mTimerList).time) >= 0
  BY DEF ProcessPop, HeadIsDue
<1>2. /\ Head(mTimerList) = mTimerList[1] /\ 1 \in 1..Len(mTimerList)
      /\ IsTime(Head(mTimerList).time) /\ IsTime(curr_time)
  BY <1>1, HeadIsTime
<1>3. Micros(curr_time) > Micros(Head(mTimerList).time) - UsPerMs
  BY <1>1, <1>2, TimeDiffBounds
<1>4. /\ Micros(Head(mTimerList).time) = due[Head(mTimerList).timerId]
      /\ Head(mTimerList).timerId \in 1..Len(due)
      /\ Micros(curr_time) <= now
  BY <1>2 DEF TimesExact, TimeIs
<1>5. now \in Nat /\ due[Head(mTimerList).timerId] \in Nat
  BY <1>4, ElementOfSeq DEF TypeOK
<1>6. Micros(curr_time) \in Nat
  BY SMT DEF TypeOK, Time, Micros, UsPerSec
<1>7. now > due[Head(mTimerList).timerId] - 1000
  <2> DEFINE h == Micros(Head(mTimerList).time)
             c == Micros(curr_time)
             d == due[Head(mTimerList).timerId]
  <2>1. c > h - 1000 /\ h = d /\ d \in Nat /\ now \in Nat /\ c \in Nat /\ c <= now
    BY <1>3, <1>4, <1>5, <1>6, Units
  <2> HIDE DEF h, c, d
  <2>2. now > d - 1000
    BY SMT, <2>1
  <2> QED BY <2>2 DEF d
<1>8. QED
  BY <1>5, <1>7, Units

\* No callback is called a millisecond or more before its interval has passed.
THEOREM CallbacksNeverEarly == ASSUME NoWrap PROVE Spec => []NeverEarly
<1>1. Init => NeverEarly
  BY DEF Init, NeverEarly
<1>2. TypeOK /\ TimesExact /\ FiredExactlyOnce /\ NeverEarly /\ [Next]_vars
        => NeverEarly'
  <2> SUFFICES ASSUME TypeOK, TimesExact, FiredExactlyOnce, NeverEarly, [Next]_vars
               PROVE  NeverEarly'
    OBVIOUS
  <2>1. ASSUME NEW a \in Adders, AddTimerInsert(a) PROVE NeverEarly'
    <3>1. /\ due \in Seq(Nat) /\ call[a].due \in Nat /\ fired' = fired
          /\ due' = Append(due, call[a].due)
      BY <2>1, InsertStep DEF TypeOK
    <3>2. \A id \in 1..Len(due) : due'[id] = due[id]
      BY <3>1, AppendProperties
    <3>3. \A i \in 1..Len(fired) : fired[i].timerId \in 1..Len(due)
      BY DEF FiredExactlyOnce, FiredIds, TimesExact
    <3> QED BY <3>1, <3>2, <3>3 DEF NeverEarly
  <2>2. CASE ProcessPop
    <3> DEFINE e == [timerId |-> Head(mTimerList).timerId, at |-> now]
    <3>1. fired' = Append(fired, e) /\ due' = due
      BY <2>2 DEF ProcessPop
    <3>2. e.at > due[e.timerId] - UsPerMs
      BY <2>2, PopIsDue
    <3>3. Head(mTimerList).timerId \in Nat /\ now \in Nat
      <4>1. mTimerList \in Seq(Block) /\ mTimerList # <<>> /\ now \in Nat
        BY <2>2 DEF ProcessPop, HeadIsDue, TypeOK
      <4>2. Head(mTimerList) \in Block
        BY <4>1, TailProperties
      <4> QED BY <4>1, <4>2 DEF Block
    <3>4. e \in [timerId : Nat, at : Nat] /\ fired \in Seq([timerId : Nat, at : Nat])
      BY <3>3 DEF TypeOK
    <3> HIDE DEF e
    <3>5. /\ Len(fired) \in Nat /\ Len(fired') = Len(fired) + 1
          /\ \A i \in 1..Len(fired) : fired'[i] = fired[i]
          /\ fired'[Len(fired) + 1] = e
      BY <3>1, <3>4, AppendProperties, LenProperties
    <3>6. \A i \in 1..(Len(fired) + 1) : i \in 1..Len(fired) \/ i = Len(fired) + 1
      BY <3>5
    <3> QED BY <3>1, <3>2, <3>5, <3>6 DEF NeverEarly
  <2>3. CASE UNCHANGED <<mTimerList, mActiveTimerCount, due, fired>>
    BY <2>3 DEF NeverEarly
  <2>4. QED
    BY <2>1, <2>2, <2>3, OthersKeepIds
<1>3. QED
  BY <1>1, <1>2, TypesAndTimes, EveryCallbackOnce, PTL DEF Spec
-----------------------------------------------------------------------------
(* The handshakes of startTimer and stopTimer. *)

Stopping == {"stopping", "joining", "joined"}

(***************************************************************************)
(* Why startTimer never creates a second thread: it creates one only while *)
(* mThreadId is clear and it holds the mutex, the new thread waits for the *)
(* mutex before its first step, and mThreadId is cleared only by the one   *)
(* stopper there is, after the thread has ended.  And why a wake-up byte   *)
(* is never lost: the thread runs only after its pipe was made.            *)
(***************************************************************************)
ControlInv ==
  /\ ~mThreadId => tpc = "off"
  /\ \A c \in Controllers :
       /\ ctl[c] = "create"  => mutex = c /\ ~mThreadId /\ pipe >= 0
       /\ ctl[c] = "created" => mutex = c /\ tpc = "signal"
       /\ ctl[c] = "joining" => mThreadId
       /\ ctl[c] = "joined"  => mThreadId /\ tpc = "off"
  /\ \A c, d \in Controllers :
       ctl[c] \in Stopping /\ ctl[d] \in Stopping => c = d
  /\ tpc # "off" => pipe >= 0

LEMMA StartKeepsControl ==
  ASSUME TypeOK, ControlInv, NEW c \in Controllers, StartTimer(c)
  PROVE  ControlInv'
<1>1. /\ ctl \in [Controllers -> CtlStates] /\ pipe \in Int /\ NoOne \notin Controllers
  BY ThreadAssumption DEF TypeOK, CtlStates
<1>2. CASE StartLock(c)
  BY <1>1, <1>2 DEF StartLock, ControlInv, Stopping, thread_vars
<1>3. CASE StartCreate(c)
  BY <1>1, <1>3 DEF StartCreate, ControlInv, Stopping
<1>4. CASE StartWait(c)
  BY <1>1, <1>4 DEF StartWait, ControlInv, Stopping, thread_vars
<1>5. CASE StartSpuriousWakeup(c) \/ StartReturn(c)
  BY <1>1, <1>5 DEF StartSpuriousWakeup, StartReturn, ControlInv, Stopping, thread_vars
<1>6. QED
  BY <1>2, <1>3, <1>4, <1>5 DEF StartTimer

LEMMA StopKeepsControl ==
  ASSUME TypeOK, ControlInv, NEW c \in Controllers, StopTimer(c)
  PROVE  ControlInv'
<1>1. /\ ctl \in [Controllers -> CtlStates] /\ pipe \in Int /\ NoOne \notin Controllers
  BY ThreadAssumption DEF TypeOK, CtlStates
<1>2. CASE StopRequest(c)
  BY <1>1, <1>2 DEF StopRequest, ControlInv, Stopping, thread_vars
<1>3. CASE StopReadThreadId(c)
  BY <1>1, <1>3 DEF StopReadThreadId, ControlInv, Stopping, thread_vars
<1>4. CASE StopJoin(c)
  BY <1>1, <1>4 DEF StopJoin, ControlInv, Stopping
<1>5. CASE StopReturn(c)
  BY <1>1, <1>5 DEF StopReturn, ControlInv, Stopping, thread_vars
<1>6. QED
  BY <1>2, <1>3, <1>4, <1>5 DEF StopTimer

LEMMA ThreadKeepsControl ==
  ASSUME TypeOK, ControlInv, RunSignal \/ RunCheckStatus \/ Process \/ Select
  PROVE  ControlInv'
<1>1. /\ ctl \in [Controllers -> CtlStates] /\ pipe \in Int /\ NoOne \notin Controllers
      /\ PipeCap \in Nat
  BY ThreadAssumption, WidthAssumption DEF TypeOK, CtlStates
<1>2. CASE RunSignal
  <2>1. /\ tpc = "signal" /\ mutex = NoOne /\ tpc' = "check"
        /\ UNCHANGED <<mThreadId, mutex, pipe>>
        /\ \/ ctl' = ctl
           \/ \E c \in Controllers : ctl[c] = "waiting" /\ ctl' = [ctl EXCEPT ![c] = "woken"]
    BY <1>2 DEF RunSignal
  <2>2. CASE ctl' = ctl
    BY <1>1, <2>1, <2>2 DEF ControlInv, Stopping
  <2>3. ASSUME NEW c \in Controllers, ctl[c] = "waiting", ctl' = [ctl EXCEPT ![c] = "woken"]
        PROVE  ControlInv'
    BY <1>1, <2>1, <2>3 DEF ControlInv, Stopping
  <2> QED BY <2>1, <2>2, <2>3
<1>3. CASE RunCheckStatus \/ Process \/ Select
  <2>1. /\ tpc \notin {"off", "signal"} /\ tpc' # "off"
        /\ UNCHANGED <<control_vars>>
        /\ pipe' = pipe \/ pipe' = 0
    BY <1>3 DEF RunCheckStatus, Process, ProcessReadClock, ProcessPop,
       CallbackReturn, ProcessEmpty, ProcessNotDue, Select, SelectEnter,
       SelectTimeout, SelectReadable, SelectInterrupted, SleepOver, Drain
  <2> QED BY <1>1, <2>1 DEF ControlInv, Stopping, control_vars
<1>4. QED
  BY <1>2, <1>3

LEMMA ControlStep ==
  ASSUME TypeOK, ControlInv, [Next]_vars
  PROVE  ControlInv'
<1>1. ASSUME NEW a \in Adders, AddTimer(a) PROVE ControlInv'
  <2>1. /\ UNCHANGED <<control_vars, tpc>>
        /\ \/ pipe' = pipe
           \/ pipe >= 0 /\ pipe' = pipe + 1
    BY <1>1 DEF AddTimer, AddTimerReadClock, AddTimerInsert, AddTimerWake,
       thread_vars, TypeOK
  <2>2. pipe \in Int
    BY DEF TypeOK
  <2> QED BY <2>1, <2>2 DEF ControlInv, Stopping, control_vars
<1>2. CASE Tick \/ UNCHANGED vars
  BY <1>2 DEF Tick, vars, ControlInv, Stopping, control_vars, thread_vars
<1>3. QED
  BY <1>1, <1>2, StartKeepsControl, StopKeepsControl, ThreadKeepsControl DEF Next

LEMMA ControlHolds == ASSUME NoWrap PROVE Spec => []ControlInv
<1>1. Init => ControlInv
  BY DEF Init, ControlInv, Stopping
<1>2. TypeOK /\ ControlInv /\ [Next]_vars => ControlInv'
  BY ControlStep
<1>3. QED
  BY <1>1, <1>2, TypesAndTimes, PTL DEF Spec

\* stopTimer clears mThreadId only when the thread is gone, so startTimer never
\* makes a second one, however starts and stops interleave.
THEOREM NeverTwoThreads == ASSUME NoWrap PROVE Spec => []OneTimerThread
<1>1. ControlInv => OneTimerThread
  BY DEF ControlInv, OneTimerThread
<1>2. QED
  BY <1>1, ControlHolds, PTL

\* startTimer is waiting, or still holds the mutex, when its thread signals.
THEOREM SignalNotLost == ASSUME NoWrap PROVE Spec => []SignalAfterWait
<1>1. ControlInv => SignalAfterWait
  BY DEF ControlInv, SignalAfterWait
<1>2. QED
  BY <1>1, ControlHolds, PTL
-----------------------------------------------------------------------------
(* The sleep of the timer thread. *)

LEMMA TimeMembers ==
  ASSUME NEW t \in Time
  PROVE  /\ Micros(t) \in Nat /\ t.sec >= 0
         /\ t.usec <= UsPerSec => t.usec \in 0..UsPerSec
<1>1. t.sec \in Nat /\ t.usec \in Nat
  BY SMT DEF Time
<1>2. Micros(t) \in Nat
  BY SMT, <1>1 DEF Micros, UsPerSec
<1>3. t.usec <= UsPerSec => t.usec \in 0..UsPerSec
  <2>1. UsPerSec \in Nat
    BY SMT DEF UsPerSec
  <2> QED BY SMT, <1>1, <2>1
<1>4. QED
  BY SMT, <1>1, <1>2, <1>3

LEMMA IdleTimeIsSane ==
  IdleTime \in Time /\ IdleTime.usec <= UsPerSec /\ Micros(IdleTime) >= UsPerMs
BY SMT DEF IdleTime, Time, Micros, UsPerSec, UsPerMs

\* processTimeout computes the timeout from the list as it is, so what holds of
\* the thread when it goes to select holds until the list changes.
LEMMA PlanStep ==
  ASSUME NoWrap, TypeOK, TimesExact, [Next]_vars,
         tpc' \in {"select", "asleep"}
  PROVE  \/ ProcessEmpty
         \/ ProcessNotDue
         \/ tpc \in {"select", "asleep"} /\ UNCHANGED <<curr_time, next_time>>
<1>1. ASSUME NEW c \in Controllers, StartTimer(c) \/ StopTimer(c)
      PROVE  UNCHANGED <<tpc, curr_time, next_time>>
  BY <1>1 DEF StartTimer, StopTimer, StartLock, StartCreate, StartWait,
     StartSpuriousWakeup, StartReturn, StopRequest, StopReadThreadId, StopJoin,
     StopReturn, thread_vars
<1>2. ASSUME NEW a \in Adders, AddTimer(a)
      PROVE  UNCHANGED <<tpc, curr_time, next_time>>
  BY <1>2 DEF AddTimer, AddTimerReadClock, AddTimerInsert, AddTimerWake, thread_vars
<1>3. ASSUME RunSignal \/ RunCheckStatus \/ Select
      PROVE  tpc \in {"select", "asleep"} /\ UNCHANGED <<curr_time, next_time>>
  BY <1>3 DEF RunSignal, RunCheckStatus, Select, SelectEnter, SelectTimeout,
     SelectReadable, SelectInterrupted, SleepOver, Drain
<1>4. ASSUME Process PROVE ProcessEmpty \/ ProcessNotDue
  BY <1>4 DEF Process, ProcessReadClock, ProcessPop, CallbackReturn
<1>5. CASE Tick \/ UNCHANGED vars
  BY <1>5 DEF Tick, vars, thread_vars
<1>6. QED
  BY <1>1, <1>2, <1>3, <1>4, <1>5 DEF Next

\* select always gets a timeout that it accepts and that does not make the
\* thread spin.
THEOREM TimeoutsSane == ASSUME NoWrap PROVE Spec => []TimeoutSane
<1>1. Init => TimeoutSane
  BY DEF Init, TimeoutSane
<1>2. TypeOK /\ TimesExact /\ TimeoutSane /\ [Next]_vars => TimeoutSane'
  <2> SUFFICES ASSUME TypeOK, TimesExact, TimeoutSane, [Next]_vars,
                      tpc' \in {"select", "asleep"}
               PROVE  /\ next_time'.sec >= 0
                      /\ next_time'.usec \in 0..UsPerSec
                      /\ Micros(next_time') >= UsPerMs
    BY DEF TimeoutSane
  <2>1. CASE ProcessEmpty
    <3>1. next_time' = IdleTime
      BY <2>1 DEF ProcessEmpty
    <3> QED BY <3>1, IdleTimeIsSane, TimeMembers
  <2>2. CASE ProcessNotDue
    <3>1. /\ next_time' \in Time /\ next_time'.usec <= UsPerSec
          /\ Micros(next_time') >= UsPerMs
      BY <2>2, NotDueSleep
    <3>2. next_time'.sec >= 0 /\ next_time'.usec \in 0..UsPerSec
      BY <3>1, TimeMembers
    <3> QED BY <3>1, <3>2
  <2>3. CASE tpc \in {"select", "asleep"} /\ UNCHANGED <<curr_time, next_time>>
    BY <2>3 DEF TimeoutSane
  <2>4. QED
    BY <2>1, <2>2, <2>3, PlanStep
<1>3. QED
  BY <1>1, <1>2, TypesAndTimes, PTL DEF Spec

\* What the list and the wake-ups look like after a step of the sleeping thread
\* or of anyone else: blocks stay, wake-ups that are coming stay.
LEMMA SleepStep ==
  ASSUME TypeOK, TimesExact, ControlInv, [Next]_vars,
         tpc \in {"select", "asleep"}, tpc' \in {"select", "asleep"},
         ~WakeComing'
  PROVE  /\ ~WakeComing
         /\ \/ mTimerList' = mTimerList
            \/ /\ mTimerList # <<>>
               /\ \A i \in 1..Len(mTimerList) :
                    \E j \in 1..Len(mTimerList') : mTimerList'[j] = mTimerList[i]
<1>0. /\ pipe \in Int /\ pipe >= 0 /\ pipe <= PipeCap /\ call \in [Adders -> Call]
      /\ PipeCap \in Nat \ {0}
  BY WidthAssumption DEF TypeOK, ControlInv
<1>1. ASSUME NEW c \in Controllers, StartTimer(c) \/ StopTimer(c)
      PROVE  UNCHANGED <<pipe, client_vars>>
  <2>1. ~StartLock(c)
    BY DEF StartLock, ControlInv
  <2> QED BY <1>1, <2>1 DEF StartTimer, StopTimer, StartCreate, StartWait,
       StartSpuriousWakeup, StartReturn, StopRequest, StopReadThreadId, StopJoin,
       StopReturn
<1>2. ASSUME RunSignal \/ RunCheckStatus \/ Process \/ Select
      PROVE  UNCHANGED <<pipe, client_vars>>
  BY <1>2 DEF RunSignal, RunCheckStatus, Process, ProcessReadClock, ProcessPop,
     CallbackReturn, ProcessEmpty, ProcessNotDue, Select, SelectEnter,
     SelectTimeout, SelectReadable, SelectInterrupted, SleepOver, Drain
<1>3. ASSUME UNCHANGED <<pipe, client_vars>>
      PROVE  ~WakeComing /\ mTimerList' = mTimerList
  BY <1>3 DEF WakeComing, client_vars
<1>4. CASE Tick \/ UNCHANGED vars
  BY <1>3, <1>4 DEF Tick, vars
<1>5. ASSUME NEW a \in Adders, NEW interval \in Intervals, AddTimerReadClock(a, interval)
      PROVE  ~WakeComing /\ mTimerList' = mTimerList
  <2>1. /\ call[a].pc = "idle" /\ pipe' = pipe /\ mTimerList' = mTimerList
        /\ \A b \in Adders : b # a => call'[b] = call[b]
    BY <1>0, <1>5 DEF AddTimerReadClock
  <2> QED BY <2>1 DEF WakeComing
<1>6. ASSUME NEW a \in Adders, AddTimerWake(a)
      PROVE  FALSE
  BY <1>0, <1>6 DEF AddTimerWake, WakeComing
<1>7. ASSUME NEW a \in Adders, AddTimerInsert(a)
      PROVE  /\ ~WakeComing /\ mTimerList # <<>>
             /\ \A i \in 1..Len(mTimerList) :
                  \E j \in 1..Len(mTimerList') : mTimerList'[j] = mTimerList[i]
  <2>1. /\ call[a].pc = "lock" /\ pipe' = pipe
        /\ \A b \in Adders : b # a => call'[b] = call[b]
    BY <1>0, <1>7 DEF AddTimerInsert
  <2>2. ~WakeComing
    BY <2>1 DEF WakeComing
  <2>3. mTimerList # <<>>
    <3>1. SUFFICES ASSUME mTimerList = <<>> PROVE FALSE
      OBVIOUS
    <3>2. call' = [call EXCEPT ![a] = [pc |-> "wake"]]
      BY <1>7, <3>1 DEF AddTimerInsert, NeedsWake
    <3>3. call'[a].pc = "wake"
      BY <1>0, <3>2
    <3> QED BY <3>3 DEF WakeComing
  <2>4. PICK pos \in 1..(Len(mTimerList) + 1) :
          /\ Len(mTimerList') = Len(mTimerList) + 1
          /\ \A j \in 1..(Len(mTimerList) + 1) :
               mTimerList'[j] =
                 IF j < pos THEN mTimerList[j]
                 ELSE IF j = pos
                   THEN [timerId |-> mActiveTimerCount + 1, time |-> call[a].time]
                   ELSE mTimerList[j - 1]
    BY <1>7, InsertStep
  <2>5. ASSUME NEW i \in 1..Len(mTimerList)
        PROVE  \E j \in 1..Len(mTimerList') : mTimerList'[j] = mTimerList[i]
    <3>0. Len(mTimerList) \in Nat
      BY LenProperties DEF TypeOK
    <3>1. CASE i < pos
      <4>1. i \in 1..Len(mTimerList') /\ mTimerList'[i] = mTimerList[i]
        BY <2>4, <3>0, <3>1
      <4> QED BY <4>1
    <3>2. CASE ~(i < pos)
      <4>1. i + 1 \in 1..Len(mTimerList') /\ mTimerList'[i + 1] = mTimerList[i]
        BY <2>4, <3>0, <3>2
      <4> QED BY <4>1
    <3> QED BY <3>1, <3>2
  <2> QED BY <2>2, <2>3, <2>5
<1>8. QED
  BY <1>1, <1>2, <1>3, <1>4, <1>5, <1>6, <1>7 DEF Next, AddTimer

\* A thread that is going to sleep, and that no one is going to wake, does not
\* sleep beyond the expiry of every pending timer.
THEOREM SleepsForACause == ASSUME NoWrap PROVE Spec => []SleepHasCause
<1>1. Init => SleepHasCause
  BY DEF Init, SleepHasCause
<1>2. TypeOK /\ TimesExact /\ ControlInv /\ SleepHasCause /\ [Next]_vars
        => SleepHasCause'
  <2> SUFFICES ASSUME TypeOK, TimesExact, ControlInv, SleepHasCause, [Next]_vars,
                      tpc' \in {"select", "asleep"}, mTimerList' # <<>>, ~WakeComing'
               PROVE  \E j \in 1..Len(mTimerList') :
                        PlannedWake' <= Micros(mTimerList'[j].time) + UsPerMs
    BY DEF SleepHasCause
  <2>1. CASE ProcessEmpty
    BY <2>1 DEF ProcessEmpty, client_vars
  <2>2. CASE ProcessNotDue
    <3>1. /\ mTimerList' = mTimerList /\ curr_time' = curr_time
          /\ mTimerList # <<>>
      BY <2>2 DEF ProcessNotDue, client_vars
    <3>2. /\ Head(mTimerList) = mTimerList[1] /\ 1 \in 1..Len(mTimerList)
          /\ IsTime(Head(mTimerList).time) /\ IsTime(curr_time)
      BY <3>1, HeadIsTime
    <3>3. /\ next_time' \in Time
          /\ Micros(next_time') <=
               Micros(Head(mTimerList).time) - Micros(curr_time) + UsPerMs
      BY <2>2, NotDueSleep
    <3>4. /\ Micros(next_time') \in Nat /\ Micros(curr_time) \in Nat
          /\ Micros(Head(mTimerList).time) \in Nat
      BY <3>2, <3>3, TimeMembers DEF IsTime
    <3>5. Micros(curr_time) + Micros(next_time')
            <= Micros(Head(mTimerList).time) + UsPerMs
      <4> DEFINE x == Micros(curr_time)
                 y == Micros(next_time')
                 z == Micros(Head(mTimerList).time)
      <4>1. x \in Nat /\ y \in Nat /\ z \in Nat /\ y <= z - x + 1000
        BY <3>3, <3>4, Units
      <4> HIDE DEF x, y, z
      <4>2. x + y <= z + 1000
        BY SMT, <4>1
      <4> QED BY <4>2, Units DEF x, y, z
    <3> QED BY <3>1, <3>2, <3>5 DEF PlannedWake
  <2>3. CASE tpc \in {"select", "asleep"} /\ UNCHANGED <<curr_time, next_time>>
    <3>1. /\ ~WakeComing
          /\ \/ mTimerList' = mTimerList
             \/ /\ mTimerList # <<>>
                /\ \A i \in 1..Len(mTimerList) :
                     \E j \in 1..Len(mTimerList') : mTimerList'[j] = mTimerList[i]
      BY <2>3, SleepStep
    <3>2. PlannedWake' = PlannedWake
      BY <2>3 DEF PlannedWake, Micros
    <3>3. PICK i \in 1..Len(mTimerList) :
            PlannedWake <= Micros(mTimerList[i].time) + UsPerMs
      BY <2>3, <3>1 DEF SleepHasCause
    <3> QED BY <3>1, <3>2, <3>3
  <2>4. QED
    BY <2>1, <2>2, <2>3, PlanStep
<1>3. QED
  BY <1>1, <1>2, TypesAndTimes, ControlHolds, PTL DEF Spec
-----------------------------------------------------------------------------
(* mxMiniTimer is a timer service. *)

LEMMA InitRefines == Init => Service!Init
<1> SUFFICES ASSUME Init PROVE Service!Init
  OBVIOUS
<1>1. PendingIds = {}
  BY DEF Init, PendingIds
<1>2. Asked = [a \in Adders |-> NoRequest]
  BY DEF Init, Asked, NotCalling
<1>3. QED
  BY <1>1, <1>2 DEF Init, Service!Init

\* Only a call that waits for the mutex is a request.
LEMMA AskedOf ==
  ASSUME NEW a \in Adders
  PROVE  /\ Asked[a] = IF call[a].pc = "lock" THEN call[a].due ELSE NoRequest
         /\ Asked'[a] = IF call'[a].pc = "lock" THEN call'[a].due ELSE NoRequest
BY DEF Asked

\* The steps of addTimer: read the clock, register, and a wake-up that the
\* service does not know of.
LEMMA ReadClockRefines ==
  ASSUME TypeOK, NEW a \in Adders, NEW interval \in Intervals,
         AddTimerReadClock(a, interval)
  PROVE  Service!Ask(a)
<1> DEFINE d == interval * UsPerMs
           new == [pc |-> "lock", time |-> ExpiryTime(TimeOf(now), interval),
                   due |-> now + d]
<1>1. /\ call \in [Adders -> Call] /\ call[a].pc = "idle"
      /\ call' = [call EXCEPT ![a] = new]
      /\ UNCHANGED <<now, due, mTimerList>>
  BY DEF TypeOK, AddTimerReadClock
<1>2. new.pc = "lock" /\ new.due = now + d
  OBVIOUS
<1> HIDE DEF new
<1>3. Asked[a] = NoRequest
  BY <1>1, AskedOf
<1>4. Asked' = [Asked EXCEPT ![a] = now + d]
  <2>1. \A b \in Adders : Asked'[b] = IF b = a THEN now + d ELSE Asked[b]
    BY <1>1, <1>2, AskedOf
  <2>2. /\ Asked = [b \in Adders |-> Asked[b]]
        /\ Asked' = [b \in Adders |-> Asked'[b]]
    BY DEF Asked
  <2> HIDE DEF d
  <2> QED BY <2>1, <2>2
<1>5. PendingIds' = PendingIds
  BY <1>1 DEF PendingIds
<1>6. QED
  BY <1>1, <1>3, <1>4, <1>5 DEF Service!Ask

LEMMA InsertRefines ==
  ASSUME TypeOK, TimesExact, FiredExactlyOnce, NEW a \in Adders, AddTimerInsert(a)
  PROVE  Service!Register(a)
<1>1. /\ call \in [Adders -> Call] /\ call[a].pc = "lock" /\ now' = now
      /\ \E new : call' = [call EXCEPT ![a] = new] /\ new.pc # "lock"
  <2>1. [pc |-> "wake"].pc # "lock" /\ NotCalling.pc # "lock"
    BY DEF NotCalling
  <2>2. \/ call' = [call EXCEPT ![a] = [pc |-> "wake"]]
        \/ call' = [call EXCEPT ![a] = NotCalling]
    BY DEF AddTimerInsert
  <2> QED BY <2>1, <2>2 DEF TypeOK, AddTimerInsert
<1>2. due' = Append(due, call[a].due) /\ call[a].due \in Nat
  BY InsertStep
<1>3. PendingIds' = PendingIds \cup {Len(due) + 1}
  BY InsertKeepsIds
<1>4. Asked[a] = call[a].due /\ call[a].due # NoRequest
  BY <1>1, <1>2, AskedOf DEF NoRequest
<1>5. Asked' = [Asked EXCEPT ![a] = NoRequest]
  <2>1. \A b \in Adders : Asked'[b] = IF b = a THEN NoRequest ELSE Asked[b]
    BY <1>1, AskedOf
  <2>2. /\ Asked = [b \in Adders |-> Asked[b]]
        /\ Asked' = [b \in Adders |-> Asked'[b]]
    BY DEF Asked
  <2> QED BY <2>1, <2>2
<1>6. QED
  BY <1>1, <1>2, <1>3, <1>4, <1>5 DEF Service!Register

LEMMA WakeRefines ==
  ASSUME TypeOK, NEW a \in Adders, AddTimerWake(a)
  PROVE  UNCHANGED Service!vars
<1>1. /\ call \in [Adders -> Call] /\ call[a].pc = "wake"
      /\ call' = [call EXCEPT ![a] = NotCalling]
      /\ UNCHANGED <<now, due, mTimerList>>
  BY DEF TypeOK, AddTimerWake
<1>2. \A b \in Adders : Asked'[b] = Asked[b]
  BY <1>1, AskedOf DEF NotCalling
<1>3. Asked' = Asked
  BY <1>2 DEF Asked
<1>4. PendingIds' = PendingIds
  BY <1>1 DEF PendingIds
<1>5. QED
  BY <1>1, <1>3, <1>4 DEF Service!vars

\* The head is due, and none of the others is due a millisecond before it.
LEMMA PopRefines ==
  ASSUME NoWrap, TypeOK, TimesExact, ListOrdered, FiredExactlyOnce, ProcessPop
  PROVE  \E id \in PendingIds : Service!Fire(id)
<1> DEFINE id == Head(mTimerList).timerId
<1>1. /\ id \in PendingIds /\ PendingIds' = PendingIds \ {id}
  BY PopKeepsIds
<1>2. now > due[id] - UsPerMs
  BY PopIsDue
<1>3. /\ UNCHANGED <<now, due, call>> /\ mTimerList # <<>>
  BY DEF ProcessPop, HeadIsDue
<1>4. Asked' = Asked
  BY <1>3 DEF Asked
<1>5. ASSUME NEW p \in PendingIds
      PROVE  due[id] < due[p] + UsPerMs
  <2>1. PICK i \in 1..Len(mTimerList) : p = mTimerList[i].timerId
    BY DEF PendingIds
  <2>2. /\ Head(mTimerList) = mTimerList[1] /\ 1 \in 1..Len(mTimerList)
    BY <1>3, HeadIsTime
  <2>3. IsTime(mTimerList[1].time) /\ IsTime(mTimerList[i].time)
    BY <2>2, BlocksAreTimes
  <2>4. getTimeDiff(mTimerList[1].time, mTimerList[i].time) <= 0
    <3>1. CASE i = 1
      BY <2>3, <3>1, TimeDiffReflexive
    <3>2. CASE i # 1
      BY <2>2, <3>2 DEF ListOrdered
    <3> QED BY <3>1, <3>2
  <2>5. Micros(mTimerList[1].time) < Micros(mTimerList[i].time) + UsPerMs
    BY <2>3, <2>4, TimeDiffBounds
  <2> QED BY <2>1, <2>2, <2>5 DEF TimesExact, TimeIs
<1>6. QED
  BY <1>1, <1>2, <1>3, <1>4, <1>5 DEF Service!Fire

\* Whatever callers, callbacks and controllers do, mxMiniTimer behaves like the
\* timer service: a request is registered for the instant it was made for, and
\* its callback is called once, not early and in its turn.
THEOREM Refinement == ASSUME NoWrap PROVE Spec => ImplementsTimerService
<1>1. Init => Service!Init
  BY InitRefines
<1>2. TypeOK /\ TimesExact /\ ListOrdered /\ FiredExactlyOnce
        /\ TypeOK' /\ [Next]_vars => [Service!Next]_Service!vars
  <2> SUFFICES ASSUME TypeOK, TimesExact, ListOrdered, FiredExactlyOnce, TypeOK',
                      [Next]_vars
               PROVE  Service!Next \/ UNCHANGED Service!vars
    OBVIOUS
  <2>1. CASE Tick
    <3>1. /\ now' \in Nat /\ now' > now /\ UNCHANGED <<due, call, mTimerList>>
      BY <2>1 DEF TypeOK, Tick, client_vars
    <3>2. Asked' = Asked /\ PendingIds' = PendingIds
      BY <3>1 DEF Asked, PendingIds
    <3>3. Service!Advance
      BY <3>1, <3>2 DEF Service!Advance
    <3> QED BY <3>3 DEF Service!Next
  <2>2. ASSUME NEW a \in Adders, NEW interval \in Intervals,
               AddTimerReadClock(a, interval)
        PROVE  Service!Next
    BY <2>2, ReadClockRefines DEF Service!Next
  <2>3. ASSUME NEW a \in Adders, AddTimerInsert(a)
        PROVE  Service!Next
    BY <2>3, InsertRefines DEF Service!Next
  <2>4. ASSUME NEW a \in Adders, AddTimerWake(a)
        PROVE  UNCHANGED Service!vars
    BY <2>4, WakeRefines
  <2>5. CASE ProcessPop
    BY <2>5, PopRefines DEF Service!Next
  <2>6. CASE UNCHANGED <<now, client_vars>>
    <3>1. Asked' = Asked /\ PendingIds' = PendingIds
      BY <2>6 DEF Asked, PendingIds, client_vars
    <3> QED BY <2>6, <3>1 DEF Service!vars, client_vars
  <2>7. QED
    BY <2>1, <2>2, <2>3, <2>4, <2>5, <2>6, Frame DEF ProcessReadClock, data_vars
<1>3. QED
  BY <1>1, <1>2, TypesAndTimes, ListStaysOrdered, EveryCallbackOnce, PTL
     DEF Spec, ImplementsTimerService, Service!Spec
=============================================================================
