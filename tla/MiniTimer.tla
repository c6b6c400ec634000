----------------------------- MODULE MiniTimer -----------------------------
(***************************************************************************)
(* The one-shot timer service mxMiniTimer                                  *)
(* (platform/common/src/mxMiniTimer.cpp, inc/mxMiniTimer.h).               *)
(*                                                                         *)
(* Client threads, and the callbacks themselves, call addTimer; one timer  *)
(* thread keeps a list of blocks ordered by expiry, calls the callbacks of *)
(* the expired ones outside the mutex, and sleeps in select on a pipe that *)
(* addTimer writes to when the thread has to look at the list again.       *)
(* Controller threads call startTimer and stopTimer.                       *)
(*                                                                         *)
(* Time is CLOCK_MONOTONIC in microseconds.  A struct timeval is a record  *)
(* [sec, usec]; the unit conversions are those of the code.                *)
(***************************************************************************)
EXTENDS Integers, Sequences, FiniteSets, SequencesExt

CONSTANTS
  Clients,      \* threads that call addTimer
  TimerThread,  \* the timer thread, which calls addTimer from a callback
  Controllers,  \* threads that call startTimer and stopTimer
  Intervals,    \* the values of timerPara_t.interval, in ms
  Boot,         \* the clock when the process starts
  Instants,     \* the clock values at which something is observed
  Horizon,      \* bound: the last instant; it stands for all later time
  MaxTimers,    \* bound: calls of addTimer
  MaxStarts,    \* bound: successful calls of startTimer
  MayStop,      \* whether a controller calls stopTimer
  MayInterrupt, \* whether select may be interrupted by a signal
  PipeCap,      \* bytes the waker pipe holds
  DiffWrap      \* number of values of s32_t, the result type of getTimeDiff

\* No controller: the mutex is free.
NoOne == "nobody"

ASSUME ThreadAssumption == TimerThread \notin Clients /\ NoOne \notin Controllers
ASSUME TimeAssumption ==
  /\ Boot \in Nat /\ Horizon \in Nat /\ Boot <= Horizon
  /\ Instants \subseteq Nat
  /\ Intervals \subseteq Nat
ASSUME BoundAssumption ==
  /\ MaxTimers \in Nat /\ MaxStarts \in Nat
  /\ MayStop \in BOOLEAN /\ MayInterrupt \in BOOLEAN
ASSUME WidthAssumption ==
  /\ PipeCap \in Nat \ {0}
  /\ DiffWrap \in Nat \ {0}
  /\ DiffWrap % 2 = 0

VARIABLES
  now,                \* CLOCK_MONOTONIC
  mTimerList,         \* pending blocks
  mActiveTimerCount,  \* number of blocks ever added, the last timerId
  mStatus,            \* the timer thread runs while it is TRUE
  mThreadId,          \* TRUE: a thread has been created and not joined
  mutex,              \* the controller that keeps mMutex between steps
  pipe,               \* bytes in the waker pipe, NoPipe before it exists
  call,               \* per adder: where it is in addTimer
  ctl,                \* per controller: where it is in start/stopTimer
  starts,             \* successful starts so far
  tpc,                \* where the timer thread is
  curr_time,          \* the local of processTimeout
  next_time,          \* the timeout handed to select
  wakeAt,             \* the instant at which select times out, 0 outside it
  due,                \* history: per timerId, the instant the caller asked for
  fired               \* history: the callbacks started, in order

client_vars  == <<mTimerList, mActiveTimerCount, call, due>>
control_vars == <<mStatus, mThreadId, mutex, ctl, starts>>
thread_vars  == <<tpc, curr_time, next_time, wakeAt, fired>>
vars == <<now, client_vars, control_vars, thread_vars, pipe>>

Adders == Clients \cup {TimerThread}
NoPipe == -1
-----------------------------------------------------------------------------
(* Time values. *)

UsPerMs  == 1000
UsPerSec == 1000000

Time == [sec : Nat, usec : Nat]

\* CLOCK_MONOTONIC as a struct timeval, and back.
TimeOf(us) == [sec |-> us \div UsPerSec, usec |-> us % UsPerSec]
Micros(t)  == t.sec * UsPerSec + t.usec

\* Division of C: towards zero.
MsOf(us) == IF us >= 0 THEN us \div UsPerMs ELSE -((-us) \div UsPerMs)

\* Conversion of a long to s32_t.
ToS32(n) ==
  LET half == DiffWrap \div 2
  IN  IF -half <= n /\ n < half THEN n ELSE ((n + half) % DiffWrap) - half

\* t1 - t2 in whole milliseconds.
getTimeDiff(t1, t2) ==
  ToS32((t1.sec - t2.sec) * 1000 + MsOf(t1.usec - t2.usec))

\* Seeded bug: the carry into the seconds is lost.
ExpiryTime_NoCarry(t, interval) ==
  [sec  |-> t.sec + interval \div 1000,
   usec |-> (t.usec + (interval % 1000) * UsPerMs) % UsPerSec]

\* The expiry addTimer computes: the code carries only above 1000000 us, so
\* usec may be 1000000.
ExpiryTime(t, interval) ==
  LET s == t.sec + interval \div 1000
      u == t.usec + (interval % 1000) * UsPerMs
  IN  IF u > UsPerSec THEN [sec |-> s + 1, usec |-> u - UsPerSec]
                      ELSE [sec |-> s, usec |-> u]

\* Seeded bug: borrows nothing when the microseconds go negative.
SleepTime_NoBorrow(head, curr) ==
  [sec |-> head.sec - curr.sec, usec |-> head.usec - curr.usec]

\* Seeded bug: the lower bound of a millisecond is dropped.
SleepTime_NoFloor(head, curr) ==
  LET us == Micros(head) - Micros(curr)
  IN  [sec |-> us \div UsPerSec, usec |-> us % UsPerSec]

\* The time left until head expires, at least one millisecond.
SleepTime(head, curr) ==
  LET s == head.sec - curr.sec
      u == head.usec - curr.usec
      t == IF u < 0 THEN [sec |-> s - 1, usec |-> UsPerSec + u]
                    ELSE [sec |-> s, usec |-> u]
  IN  IF t.sec = 0 /\ t.usec < UsPerMs THEN [t EXCEPT !.usec = UsPerMs] ELSE t

IdleTime == [sec |-> 2, usec |-> 0]
-----------------------------------------------------------------------------
(* The list. *)

Block == [timerId : Nat, time : Time]

\* Seeded bug: a block is put in front of those that expire with it or later.
IsInsertPos_Before(list, t, pos) ==
  /\ \A i \in 1..(pos - 1) : getTimeDiff(list[i].time, t) > 0
  /\ pos <= Len(list) => getTimeDiff(list[pos].time, t) <= 0

\* pos is the place of the first block that expires after t, or the end.
IsInsertPos(list, t, pos) ==
  /\ \A i \in 1..(pos - 1) : getTimeDiff(list[i].time, t) <= 0
  /\ pos <= Len(list) => getTimeDiff(list[pos].time, t) > 0

\* Seeded bug: only a block appended to a non-empty list wakes the thread.
NeedsWake_Swapped(list, pos) == list # <<>> /\ pos > Len(list)

\* addToTimerList returns STATUS_WAKE_UP.  The second disjunct is the test
\* "it == mTimerList.begin()": after insert, the iterator still designates
\* the block it was found at, which is now number pos + 1.
NeedsWake(list, pos) ==
  \/ list = <<>>
  \/ pos <= Len(list) /\ pos + 1 = 1
-----------------------------------------------------------------------------
NotCalling == [pc |-> "idle"]

Init ==
  /\ now = Boot
  /\ mTimerList = <<>>
  /\ mActiveTimerCount = 0
  /\ mStatus = FALSE
  /\ mThreadId = FALSE
  /\ mutex = NoOne
  /\ pipe = NoPipe
  /\ call = [a \in Adders |-> NotCalling]
  /\ ctl = [c \in Controllers |-> "idle"]
  /\ starts = 0
  /\ tpc = "off"
  /\ curr_time = TimeOf(Boot)
  /\ next_time = IdleTime
  /\ wakeAt = 0
  /\ due = <<>>
  /\ fired = <<>>

Tick ==
  /\ \E t \in Instants : t > now /\ t <= Horizon /\ now' = t
  /\ UNCHANGED <<client_vars, control_vars, thread_vars, pipe>>
-----------------------------------------------------------------------------
(* addTimer, by a client or by a callback. *)

CallsInFlight == Cardinality({a \in Adders : call[a].pc = "lock"})

\* The clock is read and the expiry computed before the mutex is taken.  The
\* two bounds: MaxTimers calls, all of which expire within the horizon.
AddTimerReadClock(a, interval) ==
  /\ a = TimerThread => tpc = "callback"
  /\ call[a].pc = "idle"
  /\ mActiveTimerCount + CallsInFlight < MaxTimers
  /\ now + interval * UsPerMs <= Horizon
  /\ call' = [call EXCEPT ![a] =
                [pc   |-> "lock",
                 time |-> ExpiryTime(TimeOf(now), interval),
                 due  |-> now + interval * UsPerMs]]
  /\ UNCHANGED <<now, mTimerList, mActiveTimerCount, due, control_vars,
                 thread_vars, pipe>>

\* Seeded bug: the block is inserted although another thread holds the mutex
\* and, with the list non-empty, the id of the last block is given out again.
AddTimerInsert_ReusesId(a) ==
  /\ call[a].pc = "lock"
  /\ mutex = NoOne
  /\ \E pos \in 1..(Len(mTimerList) + 1) :
       /\ IsInsertPos(mTimerList, call[a].time, pos)
       /\ mTimerList' = InsertAt(mTimerList, pos,
             [timerId |-> Len(mTimerList) + 1, time |-> call[a].time])
       /\ call' = [call EXCEPT ![a] = IF NeedsWake(mTimerList, pos)
                                      THEN [pc |-> "wake"] ELSE NotCalling]
  /\ mActiveTimerCount' = mActiveTimerCount + 1
  /\ due' = Append(due, call[a].due)
  /\ UNCHANGED <<now, control_vars, thread_vars, pipe>>

\* The critical section: count, number and insert the block.
AddTimerInsert(a) ==
  /\ call[a].pc = "lock"
  /\ mutex = NoOne
  /\ mActiveTimerCount' = mActiveTimerCount + 1
  /\ due' = Append(due, call[a].due)
  /\ \E pos \in 1..(Len(mTimerList) + 1) :
       /\ IsInsertPos(mTimerList, call[a].time, pos)
       /\ mTimerList' = InsertAt(mTimerList, pos,
             [timerId |-> mActiveTimerCount', time |-> call[a].time])
       /\ call' = [call EXCEPT ![a] = IF NeedsWake(mTimerList, pos)
                                      THEN [pc |-> "wake"] ELSE NotCalling]
  /\ UNCHANGED <<now, control_vars, thread_vars, pipe>>

\* sendWakeSignal, outside the mutex: a byte is written unless the pipe is
\* full; before the first startTimer the descriptors are not initialised and
\* the byte does not reach the timer thread.
AddTimerWake(a) ==
  /\ call[a].pc = "wake"
  /\ pipe' = IF pipe \in 0..(PipeCap - 1) THEN pipe + 1 ELSE pipe
  /\ call' = [call EXCEPT ![a] = NotCalling]
  /\ UNCHANGED <<now, mTimerList, mActiveTimerCount, due, control_vars,
                 thread_vars>>
-----------------------------------------------------------------------------
(* startTimer and stopTimer. *)

\* startTimer finds a thread and returns STATUS_FAILED: no state changes.
\* Otherwise it makes a new pipe and sets mStatus, keeping the mutex.
StartLock(c) ==
  /\ ctl[c] = "idle"
  /\ mutex = NoOne
  /\ ~mThreadId
  /\ starts < MaxStarts
  /\ starts' = starts + 1
  /\ mutex' = c
  /\ pipe' = 0
  /\ mStatus' = TRUE
  /\ ctl' = [ctl EXCEPT ![c] = "create"]
  /\ UNCHANGED <<now, client_vars, mThreadId, thread_vars>>

\* Seeded bug: the mutex is released before the controller is waiting.
StartCreate_Unlocks(c) ==
  /\ ctl[c] = "create"
  /\ mThreadId' = TRUE
  /\ tpc' = "signal"
  /\ mutex' = NoOne
  /\ ctl' = [ctl EXCEPT ![c] = "created"]
  /\ UNCHANGED <<now, client_vars, mStatus, starts, curr_time, next_time,
                 wakeAt, fired, pipe>>

\* pthread_create.
StartCreate(c) ==
  /\ ctl[c] = "create"
  /\ mThreadId' = TRUE
  /\ tpc' = "signal"
  /\ ctl' = [ctl EXCEPT ![c] = "created"]
  /\ UNCHANGED <<now, client_vars, mStatus, mutex, starts, curr_time,
                 next_time, wakeAt, fired, pipe>>

\* mMutex.wait(): releases the mutex and waits, in one step.
StartWait(c) ==
  /\ ctl[c] = "created"
  /\ mutex' = NoOne
  /\ ctl' = [ctl EXCEPT ![c] = "waiting"]
  /\ UNCHANGED <<now, client_vars, mStatus, mThreadId, starts, thread_vars,
                 pipe>>

\* pthread_cond_wait may return without a signal; the code does not loop.
StartSpuriousWakeup(c) ==
  /\ ctl[c] = "waiting"
  /\ ctl' = [ctl EXCEPT ![c] = "woken"]
  /\ UNCHANGED <<now, client_vars, mStatus, mThreadId, mutex, starts,
                 thread_vars, pipe>>

\* wait() takes the mutex again, startTimer releases it and returns.
StartReturn(c) ==
  /\ ctl[c] = "woken"
  /\ mutex = NoOne
  /\ ctl' = [ctl EXCEPT ![c] = "idle"]
  /\ UNCHANGED <<now, client_vars, mStatus, mThreadId, mutex, starts,
                 thread_vars, pipe>>

\* stopTimer clears mStatus without the mutex and does not write to the
\* pipe.  Two controllers do not stop at the same time: both would join.
StopRequest(c) ==
  /\ MayStop
  /\ ctl[c] = "idle"
  /\ \A d \in Controllers : ctl[d] \notin {"stopping", "joining", "joined"}
  /\ mStatus' = FALSE
  /\ ctl' = [ctl EXCEPT ![c] = "stopping"]
  /\ UNCHANGED <<now, client_vars, mThreadId, mutex, starts, thread_vars,
                 pipe>>

StopReadThreadId(c) ==
  /\ ctl[c] = "stopping"
  /\ ctl' = [ctl EXCEPT ![c] = IF mThreadId THEN "joining" ELSE "idle"]
  /\ UNCHANGED <<now, client_vars, mStatus, mThreadId, mutex, starts,
                 thread_vars, pipe>>

\* Seeded bug: the thread id is cleared without waiting for the thread.
StopJoin_NoWait(c) ==
  /\ ctl[c] = "joining"
  /\ tpc' = IF tpc = "exited" THEN "off" ELSE tpc
  /\ ctl' = [ctl EXCEPT ![c] = "joined"]
  /\ UNCHANGED <<now, client_vars, mStatus, mThreadId, mutex, starts,
                 curr_time, next_time, wakeAt, fired, pipe>>

\* pthread_join returns when the thread has ended.
StopJoin(c) ==
  /\ ctl[c] = "joining"
  /\ tpc = "exited"
  /\ tpc' = "off"
  /\ ctl' = [ctl EXCEPT ![c] = "joined"]
  /\ UNCHANGED <<now, client_vars, mStatus, mThreadId, mutex, starts,
                 curr_time, next_time, wakeAt, fired, pipe>>

StopReturn(c) ==
  /\ ctl[c] = "joined"
  /\ mThreadId' = FALSE
  /\ ctl' = [ctl EXCEPT ![c] = "idle"]
  /\ UNCHANGED <<now, client_vars, mStatus, mutex, starts, thread_vars, pipe>>
-----------------------------------------------------------------------------
(* runTimerTask and processTimeout. *)

\* Seeded bug: the thread does not signal when it starts.
RunSignal_Silent ==
  /\ tpc = "signal"
  /\ mutex = NoOne
  /\ tpc' = "check"
  /\ UNCHANGED <<now, client_vars, control_vars, curr_time, next_time, wakeAt,
                 fired, pipe>>

\* The thread tells startTimer that it runs: one waiter, if any, is woken.
RunSignal ==
  /\ tpc = "signal"
  /\ mutex = NoOne
  /\ tpc' = "check"
  /\ LET waiters == {c \in Controllers : ctl[c] = "waiting"}
     IN  \/ waiters = {} /\ UNCHANGED ctl
         \/ \E c \in waiters : ctl' = [ctl EXCEPT ![c] = "woken"]
  /\ UNCHANGED <<now, client_vars, mStatus, mThreadId, mutex, starts,
                 curr_time, next_time, wakeAt, fired, pipe>>

\* Seeded bug: the loop does not look at mStatus again.
RunCheckStatus_Ignores ==
  /\ tpc = "check"
  /\ tpc' = "clock"
  /\ UNCHANGED <<now, client_vars, control_vars, curr_time, next_time, wakeAt,
                 fired, pipe>>

\* while (mStatus)
RunCheckStatus ==
  /\ tpc = "check"
  /\ tpc' = IF mStatus THEN "clock" ELSE "exited"
  /\ UNCHANGED <<now, client_vars, control_vars, curr_time, next_time, wakeAt,
                 fired, pipe>>

\* processTimeout reads the clock once, before its loop.
ProcessReadClock ==
  /\ tpc = "clock"
  /\ curr_time' = TimeOf(now)
  /\ tpc' = "scan"
  /\ UNCHANGED <<now, client_vars, control_vars, next_time, wakeAt, fired,
                 pipe>>

HeadIsDue ==
  /\ mTimerList # <<>>
  /\ getTimeDiff(curr_time, Head(mTimerList).time) >= 0

\* Seeded bug: the last block is taken instead of the first.
ProcessPop_Last ==
  /\ tpc = "scan" /\ mutex = NoOne
  /\ HeadIsDue
  /\ mTimerList' = Front(mTimerList)
  /\ fired' = Append(fired, [timerId |-> Last(mTimerList).timerId, at |-> now])
  /\ tpc' = "callback"
  /\ UNCHANGED <<now, mActiveTimerCount, call, due, control_vars, curr_time,
                 next_time, wakeAt, pipe>>

\* Seeded bug: this branch does not release the mutex.
ProcessPop_KeepsMutex ==
  /\ tpc = "scan" /\ mutex = NoOne
  /\ HeadIsDue
  /\ mTimerList' = Tail(mTimerList)
  /\ fired' = Append(fired, [timerId |-> Head(mTimerList).timerId, at |-> now])
  /\ mutex' = TimerThread
  /\ tpc' = "callback"
  /\ UNCHANGED <<now, mActiveTimerCount, call, due, mStatus, mThreadId, ctl,
                 starts, curr_time, next_time, wakeAt, pipe>>

\* The head is due: take it off the list and call its function.
ProcessPop ==
  /\ tpc = "scan" /\ mutex = NoOne
  /\ HeadIsDue
  /\ mTimerList' = Tail(mTimerList)
  /\ fired' = Append(fired, [timerId |-> Head(mTimerList).timerId, at |-> now])
  /\ tpc' = "callback"
  /\ UNCHANGED <<now, mActiveTimerCount, call, due, control_vars, curr_time,
                 next_time, wakeAt, pipe>>

\* The callback returns, any addTimer it made included.
CallbackReturn ==
  /\ tpc = "callback"
  /\ call[TimerThread].pc = "idle"
  /\ tpc' = "scan"
  /\ UNCHANGED <<now, client_vars, control_vars, curr_time, next_time, wakeAt,
                 fired, pipe>>

ProcessEmpty ==
  /\ tpc = "scan" /\ mutex = NoOne
  /\ mTimerList = <<>>
  /\ next_time' = IdleTime
  /\ tpc' = "select"
  /\ UNCHANGED <<now, client_vars, control_vars, curr_time, wakeAt, fired,
                 pipe>>

ProcessNotDue ==
  /\ tpc = "scan" /\ mutex = NoOne
  /\ mTimerList # <<>> /\ ~HeadIsDue
  /\ next_time' = SleepTime(Head(mTimerList).time, curr_time)
  /\ tpc' = "select"
  /\ UNCHANGED <<now, client_vars, control_vars, curr_time, wakeAt, fired,
                 pipe>>

SelectEnter ==
  /\ tpc = "select"
  /\ wakeAt' = now + Micros(next_time)
  /\ tpc' = "asleep"
  /\ UNCHANGED <<now, client_vars, control_vars, curr_time, next_time, fired,
                 pipe>>

\* select returns 0.
SelectTimeout ==
  /\ tpc = "asleep"
  /\ pipe = 0
  /\ now >= wakeAt \/ now = Horizon
  /\ wakeAt' = 0
  /\ tpc' = "check"
  /\ UNCHANGED <<now, client_vars, control_vars, curr_time, next_time, fired,
                 pipe>>

SelectReadable ==
  /\ tpc = "asleep"
  /\ pipe > 0
  /\ wakeAt' = 0
  /\ tpc' = "drain"
  /\ UNCHANGED <<now, client_vars, control_vars, curr_time, next_time, fired,
                 pipe>>

\* select fails with EINTR; the thread sleeps a second, or less when that is
\* interrupted too, and looks at mStatus again.
SelectInterrupted ==
  /\ MayInterrupt
  /\ tpc = "asleep"
  /\ wakeAt' = 0
  /\ tpc' = "sleep1"
  /\ UNCHANGED <<now, client_vars, control_vars, curr_time, next_time, fired,
                 pipe>>

SleepOver ==
  /\ tpc = "sleep1"
  /\ tpc' = "check"
  /\ UNCHANGED <<now, client_vars, control_vars, curr_time, next_time, wakeAt,
                 fired, pipe>>

\* The pipe is read until it is empty.
Drain ==
  /\ tpc = "drain"
  /\ pipe' = 0
  /\ tpc' = "check"
  /\ UNCHANGED <<now, client_vars, control_vars, curr_time, next_time, wakeAt,
                 fired>>
-----------------------------------------------------------------------------
AddTimer(a) ==
  \/ \E interval \in Intervals : AddTimerReadClock(a, interval)
  \/ AddTimerInsert(a)
  \/ AddTimerWake(a)

StartTimer(c) ==
  \/ StartLock(c) \/ StartCreate(c) \/ StartWait(c)
  \/ StartSpuriousWakeup(c) \/ StartReturn(c)

StopTimer(c) ==
  \/ StopRequest(c) \/ StopReadThreadId(c) \/ StopJoin(c) \/ StopReturn(c)

Process ==
  \/ ProcessReadClock \/ ProcessPop \/ CallbackReturn
  \/ ProcessEmpty \/ ProcessNotDue

Select ==
  \/ SelectEnter \/ SelectTimeout \/ SelectReadable \/ SelectInterrupted
  \/ SleepOver \/ Drain

Next ==
  \/ Tick
  \/ \E a \in Adders : AddTimer(a)
  \/ \E c \in Controllers : StartTimer(c) \/ StopTimer(c)
  \/ RunSignal \/ RunCheckStatus \/ Process \/ Select

Spec == Init /\ [][Next]_vars

(***************************************************************************)
(* Every thread that can run is scheduled, a thread that waits for the     *)
(* mutex gets it (its critical sections are short), time passes, callbacks *)
(* return.  A call that has begun is carried on; no call has to be made    *)
(* and no wait has to end spuriously.                                      *)
(***************************************************************************)
Fairness ==
  /\ WF_vars(Tick)
  /\ \A a \in Adders : WF_vars(AddTimerInsert(a)) /\ WF_vars(AddTimerWake(a))
  /\ \A c \in Controllers :
       /\ WF_vars(StartCreate(c)) /\ WF_vars(StartWait(c))
       /\ WF_vars(StartReturn(c)) /\ WF_vars(StopReadThreadId(c))
       /\ WF_vars(StopJoin(c)) /\ WF_vars(StopReturn(c))
  /\ WF_vars(RunSignal) /\ WF_vars(RunCheckStatus) /\ WF_vars(Process)
  /\ WF_vars(SelectEnter \/ SelectTimeout \/ SelectReadable \/ SleepOver \/ Drain)

FairSpec == Spec /\ Fairness
-----------------------------------------------------------------------------
(* Properties. *)

Call ==
  [pc : {"idle", "wake"}] \cup [pc : {"lock"}, time : Time, due : Nat]

\* The variables of mxMiniTimer and of its threads have their types.
TypeOK ==
  /\ now \in Nat
  /\ mTimerList \in Seq(Block)
  /\ mActiveTimerCount \in Nat
  /\ mStatus \in BOOLEAN /\ mThreadId \in BOOLEAN
  /\ mutex \in Controllers \cup {NoOne}
  /\ pipe \in NoPipe..PipeCap
  /\ call \in [Adders -> Call]
  /\ ctl \in [Controllers -> {"idle", "create", "created", "waiting", "woken",
                              "stopping", "joining", "joined"}]
  /\ starts \in Nat
  /\ tpc \in {"off", "signal", "check", "clock", "scan", "callback", "select",
              "asleep", "drain", "sleep1", "exited"}
  /\ curr_time \in Time
  /\ next_time \in Time
  /\ wakeAt \in Nat
  /\ due \in Seq(Nat)
  /\ fired \in Seq([timerId : Nat, at : Nat])

\* t is the instant us, within the horizon; its usec may be 1000000.
TimeIs(t, us) == t.usec <= UsPerSec /\ Micros(t) = us /\ us <= Horizon

\* The expiry of a block, in a call or in the list, is to the microsecond the
\* instant its caller asked for, and processTimeout never looks at a clock
\* ahead of the real one.
TimesExact ==
  /\ now <= Horizon
  /\ Len(due) = mActiveTimerCount
  /\ \A a \in Adders : call[a].pc = "lock" => TimeIs(call[a].time, call[a].due)
  /\ \A i \in 1..Len(mTimerList) :
       /\ mTimerList[i].timerId \in 1..Len(due)
       /\ TimeIs(mTimerList[i].time, due[mTimerList[i].timerId])
  /\ curr_time.usec < UsPerSec /\ Micros(curr_time) <= now

PendingIds == {mTimerList[i].timerId : i \in 1..Len(mTimerList)}
FiredIds   == {fired[i].timerId : i \in 1..Len(fired)}

\* addToTimerList keeps the list ordered, as far as getTimeDiff can tell: no
\* block expires a millisecond or more after one that follows it.
ListOrdered ==
  \A i, j \in 1..Len(mTimerList) :
    i < j => getTimeDiff(mTimerList[i].time, mTimerList[j].time) <= 0

\* Every timer ever added is either pending, at one place of the list, or its
\* callback has been called, once: none is lost, none is called twice.
FiredExactlyOnce ==
  /\ PendingIds \cup FiredIds = 1..mActiveTimerCount
  /\ PendingIds \cap FiredIds = {}
  /\ \A i, j \in 1..Len(mTimerList) :
       mTimerList[i].timerId = mTimerList[j].timerId => i = j
  /\ \A i, j \in 1..Len(fired) : fired[i].timerId = fired[j].timerId => i = j

\* No callback is called a millisecond or more before the interval its caller
\* asked for has passed: processTimeout compares whole milliseconds.
NeverEarly ==
  \A i \in 1..Len(fired) : fired[i].at > due[fired[i].timerId] - UsPerMs

\* The instant for which processTimeout makes the thread sleep.
PlannedWake == Micros(curr_time) + Micros(next_time)

WakeComing == pipe > 0 \/ \E a \in Adders : call[a].pc = "wake"

\* A thread that has decided how long to sleep and that no one is going to
\* wake does not sleep beyond the expiry of every pending timer: when the list
\* was empty, the first addTimer since then is on its way to wake it.
SleepHasCause ==
  tpc \in {"select", "asleep"} /\ mTimerList # <<>> /\ ~WakeComing =>
    \E i \in 1..Len(mTimerList) :
      PlannedWake <= Micros(mTimerList[i].time) + UsPerMs

\* The same for the EARLIEST pending timer, which is what STATUS_WAKE_UP,
\* "wake up timer", and the test for the head of the list are there for.
SleepsUntilEarliest ==
  tpc \in {"select", "asleep"} /\ mTimerList # <<>> /\ ~WakeComing =>
    PlannedWake <= Micros(Head(mTimerList).time) + UsPerMs

\* processTimeout never hands select a timeout that select rejects (a negative
\* member) or one so short that the thread spins.
TimeoutSane ==
  tpc \in {"select", "asleep"} =>
    /\ next_time.sec >= 0
    /\ next_time.usec \in 0..UsPerSec
    /\ Micros(next_time) >= UsPerMs

\* mThreadId is cleared only when the thread is gone, so that startTimer never
\* runs two timer threads over one list.
OneTimerThread == ~mThreadId => tpc = "off"

\* Only one thread at a time is inside a critical section of mMutex: startTimer
\* keeps the mutex until it waits, and the new thread cannot signal before.
SignalAfterWait ==
  \A c \in Controllers : ctl[c] \in {"create", "created"} =>
    mutex = c /\ tpc \in {"off", "signal"}

\* The abstract service: an adder's pending request is the expiry it computed.
NoRequest == -1
Asked == [a \in Adders |-> IF call[a].pc = "lock" THEN call[a].due ELSE NoRequest]

Service == INSTANCE TimerService WITH
  Delays <- {interval * UsPerMs : interval \in Intervals},
  Tolerance <- UsPerMs, asked <- Asked, pending <- PendingIds

\* mxMiniTimer is a timer service: callbacks happen once, never early, and in
\* the order of the expiries, the last two up to a millisecond.
ImplementsTimerService == Service!Spec

\* startTimer returns: the signal of the new thread is not lost.
StartReturns ==
  \A c \in Controllers : ctl[c] = "create" ~> ctl[c] = "idle"

\* stopTimer returns, although it does not wake the timer thread.
StopReturns ==
  \A c \in Controllers : ctl[c] = "stopping" ~> ctl[c] = "idle"

\* The callback of every timer is called, as long as the service runs.
EveryTimerFires ==
  \A id \in 1..MaxTimers :
    mStatus /\ id \in PendingIds ~> id \in FiredIds \/ ~mStatus
=============================================================================
