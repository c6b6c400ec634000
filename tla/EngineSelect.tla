---------------------------- MODULE EngineSelect ----------------------------
(***************************************************************************)
(* The engine on select: mxEngineBase and mxEngineSelect (platform/net).   *)
(* One thread of the application starts and stops the engine and registers *)
(* descriptors; the engine's thread copies the sets, selects and calls the *)
(* handler.  Nothing but the start is synchronised: every access of a      *)
(* shared member is a step of its own.                                     *)
(***************************************************************************)
EXTENDS Integers, Sequences, FiniteSets

CONSTANTS
  Fds,         \* the descriptors the application registers
  FD_SETSIZE,  \* descriptors an fd_set has room for
  Arrivals,    \* bound: what may become ready, pairs of a set and a descriptor
  Interests,   \* bound: what is registered, pairs of a descriptor and events
  Forever,     \* whether mTimeout is negative: select waits without limit
  Spurious,    \* whether pthread_cond_wait may return without a signal
  MayPark      \* whether what is registered may be no event at all

Sets == <<"Rd", "Wr", "Ex">>   \* mRdFds, mWrFds, mExFds, as they are copied
Kinds == {"Rd", "Wr", "Ex"}

ASSUME FdAssumption ==
  /\ FD_SETSIZE \in Nat \ {0} /\ Fds \subseteq 1..(FD_SETSIZE - 1)
  /\ Arrivals \subseteq Kinds \X Fds
  /\ Interests \subseteq Fds \X SUBSET {"Rd", "Wr"}
  /\ MayPark \/ \A i \in Interests : i[2] # {}
  /\ Forever \in BOOLEAN /\ Spurious \in BOOLEAN /\ MayPark \in BOOLEAN

VARIABLES
  mEngineStatus,
  mFds,     \* the three sets
  mMaxFd,
  cpc,      \* the application: "idle", "create" (holding mMutex), "wait", "join"
  reg,      \* the addEvent, modEvent or remEvent it is in, and where
  tpc,      \* the engine's thread
  fds,      \* rd_fds, wr_fds, ex_fds
  n, nfds,
  pending,  \* sets descriptor n - 1 is in for which the handler is still to be called
  ready     \* what the kernel has ready

shared == <<mEngineStatus, mFds, mMaxFd>>
thread == <<tpc, fds, n, nfds, pending>>
vars == <<shared, cpc, reg, thread, ready>>

\* No registration is going on.
NoReg == [op |-> "none", fd |-> 0, event |-> {}, at |-> 0]

Empty == [k \in Kinds |-> {}]
-----------------------------------------------------------------------------
Init ==
  /\ mEngineStatus = "ES_SHUTDOWN" /\ mFds = Empty /\ mMaxFd = -1
  /\ cpc = "idle" /\ reg = NoReg
  /\ tpc = "none" /\ fds = Empty /\ n = 0 /\ nfds = 0 /\ pending = {}
  /\ ready = {}

(* The application. *)

Idle == cpc = "idle" /\ reg = NoReg

startEngine ==
  /\ Idle /\ mEngineStatus = "ES_SHUTDOWN" /\ tpc = "none"
  /\ cpc' = "create"
  /\ tpc' = "start"
  /\ UNCHANGED <<shared, reg, fds, n, nfds, pending, ready>>

\* wait lets go of mMutex.  What woke it is not looked at: a spurious wake-up
\* ends the start before the thread has run.
StartWaits ==
  /\ cpc = "create"
  /\ cpc' = "wait" \/ (Spurious /\ cpc' = "idle")
  /\ UNCHANGED <<shared, reg, thread, ready>>

stopEngine ==
  /\ Idle /\ tpc # "none"
  /\ mEngineStatus' = "ES_SHUTDOWN"
  /\ cpc' = "join"
  /\ UNCHANGED <<mFds, mMaxFd, reg, thread, ready>>

StopJoins ==
  /\ cpc = "join" /\ tpc = "done"
  /\ cpc' = "idle" /\ tpc' = "none"
  /\ UNCHANGED <<shared, reg, fds, n, nfds, pending, ready>>

Registration(op, fd, event) == [op |-> op, fd |-> fd, event |-> event, at |-> 1]

\* A descriptor is modified or removed when it has been added.
Known(fd) == MayPark \/ fd \in mFds["Ex"]

addEvent(fd, event) == reg' = Registration("add", fd, event)
modEvent(fd, event) == Known(fd) /\ reg' = Registration("mod", fd, event)
remEvent(fd)        == Known(fd) /\ reg' = Registration("rem", fd, {})

Register ==
  /\ Idle
  /\ \/ \E i \in Interests : addEvent(i[1], i[2]) \/ modEvent(i[1], i[2])
     \/ \E fd \in Fds : remEvent(fd)
  /\ UNCHANGED <<shared, cpc, thread, ready>>

\* FD_CLR, on one set after the other.
Clear ==
  /\ reg.at \in 1..3
  /\ mFds' = [mFds EXCEPT ![Sets[reg.at]] = @ \ {reg.fd}]
  /\ reg' = [reg EXCEPT !.at = IF reg.op = "rem" /\ reg.at = 3 THEN 7 ELSE @ + 1]
  /\ UNCHANGED mMaxFd

\* FD_SET; any event is an exception too.
Wanted(k) == IF k = "Ex" THEN reg.event # {} ELSE k \in reg.event

Set ==
  /\ reg.at \in 4..6
  /\ LET k == Sets[reg.at - 3]
     IN  mFds' = [mFds EXCEPT ![k] = IF Wanted(k) THEN @ \cup {reg.fd} ELSE @]
  /\ reg' = IF reg.op = "mod" /\ reg.at = 6 THEN NoReg ELSE [reg EXCEPT !.at = @ + 1]
  /\ UNCHANGED mMaxFd

RaiseMax ==
  /\ reg.at = 7 /\ reg.op = "add"
  /\ mMaxFd' = IF reg.event # {} /\ reg.fd > mMaxFd THEN reg.fd ELSE mMaxFd
  /\ reg' = NoReg
  /\ UNCHANGED mFds

\* Seeded bug: the descriptors that only write are overlooked.
ScanGoesOn_Rd(max) == max > 0 /\ max \notin mFds["Rd"]

\* Seeded bug: the scan does not stop at 0.
ScanGoesOn_NoFloor(max) == max \notin mFds["Ex"]

\* while (--mMaxFd > 0), until one is in mExFds.
ScanGoesOn(max) == max > 0 /\ max \notin mFds["Ex"]

\* One decrement of mMaxFd, if it was the descriptor that is removed.
LowerMax ==
  /\ reg.at = 7 /\ reg.op = "rem"
  /\ LET max == mMaxFd - 1
     IN  IF reg.fd = mMaxFd
         THEN /\ mMaxFd' = max
              /\ reg' = IF ScanGoesOn(max) THEN [reg EXCEPT !.fd = max] ELSE NoReg
         ELSE reg' = NoReg /\ UNCHANGED mMaxFd
  /\ UNCHANGED mFds

\* The next access of a shared member.
Access ==
  /\ Clear \/ Set \/ RaiseMax \/ LowerMax
  /\ UNCHANGED <<mEngineStatus, cpc, thread, ready>>
-----------------------------------------------------------------------------
(* The engine's thread. *)

\* mainThread: ready, under mMutex, and the caller is woken.
Announce ==
  /\ tpc = "start" /\ cpc # "create"
  /\ mEngineStatus' = "ES_READY"
  /\ cpc' = IF cpc = "wait" THEN "idle" ELSE cpc
  /\ tpc' = "loop"
  /\ UNCHANGED <<mFds, mMaxFd, reg, fds, n, nfds, pending, ready>>

\* Seeded bug: compared with the wrong status.
isOnService_NotBusy == mEngineStatus # "ES_BUSY"

isOnService == mEngineStatus # "ES_SHUTDOWN"

BeginRound ==
  /\ tpc = "loop"
  /\ tpc' = IF isOnService THEN "Rd" ELSE "done"
  /\ UNCHANGED <<shared, cpc, reg, fds, n, nfds, pending, ready>>

CopySet ==
  /\ tpc \in Kinds
  /\ fds' = [fds EXCEPT ![tpc] = mFds[tpc]]
  /\ tpc' = CASE tpc = "Rd" -> "Wr" [] tpc = "Wr" -> "Ex" [] tpc = "Ex" -> "call"
  /\ UNCHANGED <<shared, cpc, reg, n, nfds, pending, ready>>

\* select is told how far to look.
CallSelect ==
  /\ tpc = "call"
  /\ fds' = [k \in Kinds |-> {fd \in fds[k] : fd <= mMaxFd}]
  /\ tpc' = "select"
  /\ UNCHANGED <<shared, cpc, reg, n, nfds, pending, ready>>

Reported == [k \in Kinds |-> {fd \in fds[k] : <<k, fd>> \in ready}]

\* Every round writes fds, n and nfds anew: between two rounds they are cleared.
\* Something is ready, or the time is over.
SelectReturns ==
  /\ tpc = "select"
  /\ Forever => Reported # Empty
  /\ fds' = Reported
  /\ nfds' = Cardinality({e \in Kinds \X Fds : e[2] \in Reported[e[1]]})
  /\ n' = 0
  /\ tpc' = "scan"
  /\ UNCHANGED <<shared, cpc, reg, pending, ready>>

SelectFails ==
  /\ tpc = "select" /\ tpc' = "loop"
  /\ fds' = Empty
  /\ UNCHANGED <<shared, cpc, reg, n, nfds, pending, ready>>

\* Seeded bug: the highest descriptor is left out.
InScan_Below == (n < mMaxFd \/ mMaxFd < 0) /\ nfds > 0

\* n <= mMaxFd, where n is unsigned: -1 is more than any n.
InScan == (n <= mMaxFd \/ mMaxFd < 0) /\ nfds > 0

LookAtFd ==
  /\ tpc = "scan" /\ pending = {} /\ InScan
  /\ pending' = {k \in Kinds : n \in fds[k]}
  /\ nfds' = IF pending' # {} THEN nfds - 1 ELSE nfds
  /\ n' = n + 1
  /\ UNCHANGED <<shared, cpc, reg, tpc, fds, ready>>

\* eventRead, then eventWrite, then eventError.
Called == IF "Rd" \in pending THEN "Rd" ELSE IF "Wr" \in pending THEN "Wr" ELSE "Ex"

\* The handler takes what is ready, or leaves it.
CallHandler ==
  /\ pending # {}
  /\ ready' \in {ready, ready \ {<<Called, n - 1>>}}
  /\ pending' = pending \ {Called}
  /\ UNCHANGED <<shared, cpc, reg, tpc, fds, n, nfds>>

EndRound ==
  /\ tpc = "scan" /\ pending = {} /\ ~InScan
  /\ tpc' = "loop" /\ fds' = Empty /\ n' = 0 /\ nfds' = 0
  /\ UNCHANGED <<shared, cpc, reg, pending, ready>>

Arrive ==
  /\ \E e \in Arrivals : ready' = ready \cup {e}
  /\ UNCHANGED <<shared, cpc, reg, thread>>
-----------------------------------------------------------------------------
Application == startEngine \/ StartWaits \/ stopEngine \/ StopJoins \/ Register \/ Access
EngineThread ==
  \/ Announce \/ BeginRound \/ CopySet \/ CallSelect
  \/ SelectReturns \/ LookAtFd \/ CallHandler \/ EndRound

Next == Application \/ EngineThread \/ SelectFails \/ Arrive

Spec == Init /\ [][Next]_vars

\* A call once made goes on, the thread runs, and select does not fail for ever.
FairSpec ==
  /\ Spec
  /\ WF_vars(StartWaits \/ StopJoins \/ Access)
  /\ WF_vars(EngineThread) /\ SF_vars(SelectReturns)
-----------------------------------------------------------------------------
(* Properties. *)

\* The scan stays within the sets, whatever becomes of mMaxFd meanwhile.
TypeOK ==
  /\ mEngineStatus \in {"ES_SHUTDOWN", "ES_READY"}
  /\ mFds \in [Kinds -> SUBSET Fds] /\ fds \in [Kinds -> SUBSET Fds]
  /\ mMaxFd \in Int /\ -1 <= mMaxFd /\ mMaxFd < FD_SETSIZE /\ n \in 0..FD_SETSIZE
  /\ nfds \in Nat
  /\ cpc \in {"idle", "create", "wait", "join"}
  /\ tpc \in {"none", "start", "loop", "call", "select", "scan", "done"} \cup Kinds
  /\ ready \subseteq Arrivals /\ pending \subseteq Kinds
  /\ reg \in [op : {"none", "add", "mod", "rem"}, fd : 0..(FD_SETSIZE - 1),
             event : SUBSET Kinds, at : 0..7]

\* select looks at every registered descriptor, or addEvent is just about to
\* make it: no order of addEvent, modEvent and remEvent loses one, and the
\* scan of remEvent never goes below one while the thread reads mMaxFd.
MaxFdCovers ==
  \A k \in Kinds : \A fd \in mFds[k] :
    fd <= mMaxFd \/ (reg.op = "add" /\ reg.fd = fd)

\* An event that stays ready on a descriptor that stays registered is handled,
\* however the other descriptors come and go.
EventServed ==
  \A e \in Kinds \X Fds :
    LET Due == isOnService /\ e[2] \in mFds[e[1]] /\ e \in ready
    IN  Due ~> (pending # {} /\ <<Called, n - 1>> = e) \/ ~Due

\* startEngine and stopEngine return.
CallsReturn ==
  /\ cpc = "create" ~> Idle
  /\ cpc = "join" ~> Idle
=============================================================================
