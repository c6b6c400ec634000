------------------------ MODULE EngineSelect_proofs ------------------------
(***************************************************************************)
(* Proofs about the select engine, for any descriptors, any interests and  *)
(* every interleaving of registrations with the rounds of the thread: the  *)
(* variables keep their types, the scan stays within the sets, and select  *)
(* is told to look at every registered descriptor.                         *)
(***************************************************************************)
EXTENDS EngineSelect, FiniteSetTheorems, TLAPS

\* A registration is where its operation takes it, for a positive descriptor.
RegOK ==
  /\ reg.op = "none" => reg = NoReg
  /\ reg.op # "none" => reg.fd > 0 /\ reg.at > 0
  /\ reg.at \in 1..6 => reg.fd \in Fds
  /\ reg.op = "rem" => reg.at \notin 4..6
  /\ reg.op = "mod" => reg.at # 7

\* Before the first descriptor was added, there is nothing select could report.
NothingEarly ==
  mMaxFd < 0 =>
    /\ nfds = 0
    /\ tpc \in {"select", "scan"} => \A k \in Kinds : fds[k] = {}

TInv == TypeOK /\ RegOK /\ NothingEarly

\* A descriptor is in mExFds if it is in another set, but for the one that is
\* just being set.
ExHoldsAll ==
  \A k \in Kinds : \A fd \in mFds[k] :
    fd \in mFds["Ex"] \/ (fd = reg.fd /\ reg.at \in 5..6)

\* What has been cleared so far.
ClearedSoFar ==
  /\ reg.at \in 2..4 => reg.fd \notin mFds["Rd"]
  /\ reg.at \in 3..4 => reg.fd \notin mFds["Wr"]
  /\ reg.at = 4 \/ (reg.op = "rem" /\ reg.at = 7) =>
       \A k \in Kinds : reg.fd \notin mFds[k]

\* Whoever registers wants an event, and what is modified is below mMaxFd.
Sensible ==
  /\ reg.op \in {"add", "mod"} => reg.event # {}
  /\ reg.op = "mod" => reg.fd <= mMaxFd

IInv == TInv /\ ExHoldsAll /\ ClearedSoFar /\ Sensible /\ MaxFdCovers
-----------------------------------------------------------------------------
\* The sets of three names, in the order of their copies.
LEMMA SetNames ==
  /\ Sets[1] = "Rd" /\ Sets[2] = "Wr" /\ Sets[3] = "Ex"
  /\ \A i \in 1..3 : Sets[i] \in Kinds
BY DEF Sets, Kinds

\* The engine's own variables are all that its steps write.
LEMMA StartTInv == Init => TInv
<1> SUFFICES ASSUME Init PROVE TInv
  OBVIOUS
<1> USE FdAssumption DEF Init, NoReg
<1>1. TypeOK
  <2>1. mFds \in [Kinds -> SUBSET Fds] /\ fds \in [Kinds -> SUBSET Fds]
    BY DEF Empty
  <2>2. reg \in [op : {"none", "add", "mod", "rem"}, fd : 0..(FD_SETSIZE - 1),
                 event : SUBSET Kinds, at : 0..7]
    BY SMT
  <2>3. QED
    BY <2>1, <2>2 DEF TypeOK
<1>2. RegOK
  BY DEF RegOK
<1>3. NothingEarly
  BY DEF NothingEarly
<1>4. QED
  BY <1>1, <1>2, <1>3 DEF TInv

\* What an access of the registration leaves typed.
LEMMA ClearTyped ==
  ASSUME TInv, Clear
  PROVE  /\ mFds' \in [Kinds -> SUBSET Fds] /\ mMaxFd' = mMaxFd
         /\ reg' = [reg EXCEPT !.at = reg'.at]
         /\ reg'.at = IF reg.op = "rem" /\ reg.at = 3 THEN 7 ELSE reg.at + 1
<1>1. Sets[reg.at] \in Kinds
  BY SetNames DEF Clear
<1>2. mFds' \in [Kinds -> SUBSET Fds]
  BY <1>1 DEF TInv, TypeOK, Clear
<1>3. reg \in [op : {"none", "add", "mod", "rem"}, fd : 0..(FD_SETSIZE - 1),
               event : SUBSET Kinds, at : 0..7]
  BY DEF TInv, TypeOK
<1>4. QED
  BY <1>2, <1>3 DEF Clear

LEMMA AccessTInv ==
  ASSUME TInv, Access
  PROVE  TInv'
<1> DEFINE Reg == [op : {"none", "add", "mod", "rem"}, fd : 0..(FD_SETSIZE - 1),
                   event : SUBSET Kinds, at : 0..7]
<1>1. reg \in Reg /\ mFds \in [Kinds -> SUBSET Fds]
      /\ mMaxFd \in Int /\ -1 <= mMaxFd /\ mMaxFd < FD_SETSIZE
  BY DEF TInv, TypeOK
<1>2. FD_SETSIZE \in Nat \ {0}
  BY FdAssumption
<1>3. /\ mFds' \in [Kinds -> SUBSET Fds]
      /\ reg' \in Reg /\ RegOK'
      /\ mMaxFd' \in Int /\ -1 <= mMaxFd' /\ mMaxFd' < FD_SETSIZE
      /\ mMaxFd' < 0 => mMaxFd < 0
  <2>1. CASE Clear
    <3>1. mFds' \in [Kinds -> SUBSET Fds] /\ mMaxFd' = mMaxFd
      BY <2>1, ClearTyped
    <3>2. reg' \in Reg
      BY <2>1, <1>1, SMT DEF Clear
    <3>3. RegOK'
      BY <2>1, <1>1, SMT DEF Clear, TInv, RegOK, NoReg
    <3>4. QED
      BY <3>1, <3>2, <3>3, <1>1
  <2>2. CASE Set
    <3>1. Sets[reg.at - 3] \in Kinds
      BY <2>2, <1>1, SetNames DEF Set
    <3>2. reg.op # "none" /\ reg.fd \in Fds
      BY <2>2, <1>1 DEF Set, TInv, RegOK, NoReg
    <3>3. mFds' \in [Kinds -> SUBSET Fds]
      BY <2>2, <3>1, <3>2, <1>1 DEF Set
    <3>4. reg' \in Reg
      BY <2>2, <1>1, <1>2, SMT DEF Set, NoReg
    <3>5. RegOK'
      BY <2>2, <1>1, SMT DEF Set, TInv, RegOK, NoReg
    <3>6. QED
      BY <2>2, <3>3, <3>4, <3>5, <1>1 DEF Set
  <2>3. CASE RaiseMax
    BY <2>3, <1>1, <1>2, SMT DEF RaiseMax, RegOK, NoReg
  <2>4. CASE LowerMax
    BY <2>4, <1>1, <1>2, SMT DEF LowerMax, ScanGoesOn, RegOK, NoReg, TInv
  <2>5. QED
    BY <2>1, <2>2, <2>3, <2>4 DEF Access
<1>4. QED
  BY <1>3 DEF Access, thread, TInv, TypeOK, NothingEarly
-----------------------------------------------------------------------------
\* The steps of the application other than the accesses.
LEMMA CallTInv ==
  ASSUME TInv, startEngine \/ StartWaits \/ stopEngine \/ StopJoins
  PROVE  TInv'
<1> USE DEF TInv, TypeOK, RegOK, NothingEarly, shared, thread
<1>1. CASE startEngine
  BY <1>1 DEF startEngine
<1>2. CASE StartWaits
  BY <1>2 DEF StartWaits
<1>3. CASE stopEngine
  BY <1>3 DEF stopEngine
<1>4. CASE StopJoins
  BY <1>4 DEF StopJoins
<1>5. QED
  BY <1>1, <1>2, <1>3, <1>4

\* What a registration begins with.
LEMMA RegisterStarts ==
  ASSUME Register
  PROVE  \E op \in {"add", "mod", "rem"}, fd \in Fds, event \in SUBSET {"Rd", "Wr"} :
           /\ reg' = Registration(op, fd, event)
           /\ op \in {"add", "mod"} => MayPark \/ event # {}
           /\ op = "mod" => Known(fd)
<1>1. CASE \E i \in Interests : addEvent(i[1], i[2]) \/ modEvent(i[1], i[2])
  <2>1. PICK i \in Interests : addEvent(i[1], i[2]) \/ modEvent(i[1], i[2])
    BY <1>1
  <2>2. i[1] \in Fds /\ i[2] \in SUBSET {"Rd", "Wr"} /\ (MayPark \/ i[2] # {})
    BY FdAssumption
  <2>3. QED
    BY <2>1, <2>2 DEF addEvent, modEvent
<1>2. CASE \E fd \in Fds : remEvent(fd)
  <2>1. PICK fd \in Fds : remEvent(fd)
    BY <1>2
  <2>2. "rem" \in {"add", "mod", "rem"} /\ "rem" # "mod" /\ "rem" \notin {"add", "mod"}
    OBVIOUS
  <2>3. QED
    BY <2>1, <2>2 DEF remEvent
<1>3. QED
  BY <1>1, <1>2 DEF Register

LEMMA RegisterTInv ==
  ASSUME TInv, Register
  PROVE  TInv'
<1>1. PICK op \in {"add", "mod", "rem"}, fd \in Fds, event \in SUBSET {"Rd", "Wr"} :
        reg' = Registration(op, fd, event)
  BY RegisterStarts
<1>2. fd \in 1..(FD_SETSIZE - 1) /\ FD_SETSIZE \in Nat
  BY FdAssumption
<1>3. event \in SUBSET Kinds
  BY DEF Kinds
<1>4. reg' = [op |-> op, fd |-> fd, event |-> event, at |-> 1]
  BY <1>1 DEF Registration
<1>5. reg' \in [op : {"none", "add", "mod", "rem"}, fd : 0..(FD_SETSIZE - 1),
               event : SUBSET Kinds, at : 0..7]
  BY <1>2, <1>3, <1>4
<1>6. RegOK'
  BY <1>2, <1>4 DEF RegOK
<1>7. QED
  BY <1>5, <1>6 DEF Register, TInv, TypeOK, NothingEarly, shared, thread
-----------------------------------------------------------------------------
\* What select reports can be counted.
LEMMA ReportedCount ==
  ASSUME TInv
  PROVE  LET E == {e \in Kinds \X Fds : e[2] \in Reported[e[1]]}
         IN  /\ Cardinality(E) \in Nat
             /\ (\A k \in Kinds : fds[k] = {}) => Cardinality(E) = 0
<1> DEFINE E == {e \in Kinds \X Fds : e[2] \in Reported[e[1]]}
<1>1. IsFiniteSet(Kinds)
  <2>1. IsFiniteSet({}) /\ Kinds = (({} \cup {"Rd"}) \cup {"Wr"}) \cup {"Ex"}
    BY FS_EmptySet DEF Kinds
  <2>2. QED
    BY <2>1, FS_AddElement
<1>2. IsFiniteSet(Fds)
  <2>1. IsFiniteSet(1..(FD_SETSIZE - 1))
    BY FS_Interval, FdAssumption
  <2>2. QED
    BY <2>1, FS_Subset, FdAssumption
<1>3. IsFiniteSet(Kinds \X Fds)
  BY <1>1, <1>2, FS_Product
<1>4. IsFiniteSet(E)
  BY <1>3, FS_Subset
<1>5. Cardinality(E) \in Nat
  BY <1>4, FS_CardinalityType
<1>6. ASSUME \A k \in Kinds : fds[k] = {} PROVE Cardinality(E) = 0
  <2>1. E = {}
    BY <1>6 DEF Reported
  <2>2. QED
    BY <2>1, FS_EmptySet
<1>7. QED
  BY <1>5, <1>6

\* One round of the thread, and what the kernel does.
LEMMA ThreadTInv ==
  ASSUME TInv, EngineThread \/ SelectFails \/ Arrive
  PROVE  TInv'
<1>1. /\ FD_SETSIZE \in Nat \ {0} /\ Fds \subseteq 1..(FD_SETSIZE - 1)
      /\ Arrivals \subseteq Kinds \X Fds
  BY FdAssumption
<1> USE DEF TInv, TypeOK, RegOK, NothingEarly, shared, thread
<1>2. CASE Announce
  BY <1>2 DEF Announce
<1>3. CASE BeginRound
  <2>1. tpc' \in {"Rd", "done"} /\ "Rd" \in Kinds
    BY <1>3 DEF BeginRound, Kinds
  <2>2. QED
    BY <1>3, <2>1 DEF BeginRound
<1>4. CASE CopySet
  BY <1>4 DEF CopySet, Kinds
<1>5. CASE CallSelect
  <2>1. fds' \in [Kinds -> SUBSET Fds]
    BY <1>5 DEF CallSelect
  <2>2. mMaxFd < 0 => \A k \in Kinds : fds'[k] = {}
    <3>1. SUFFICES ASSUME mMaxFd < 0, NEW k \in Kinds, NEW fd \in fds'[k] PROVE FALSE
      OBVIOUS
    <3>2. fds[k] \subseteq Fds
      OBVIOUS
    <3>3. fds'[k] = {f \in fds[k] : f <= mMaxFd}
      BY <1>5 DEF CallSelect
    <3>4. fd \in 1..(FD_SETSIZE - 1) /\ fd <= mMaxFd
      BY <3>1, <3>2, <3>3, <1>1
    <3>5. QED
      BY <3>1, <3>4
  <2>3. QED
    BY <1>5, <2>1, <2>2 DEF CallSelect
<1>6. CASE SelectReturns
  <2>1. fds' \in [Kinds -> SUBSET Fds] /\ \A k \in Kinds : fds'[k] \subseteq fds[k]
    BY <1>6 DEF SelectReturns, Reported
  <2>2. nfds' \in Nat /\ ((\A k \in Kinds : fds[k] = {}) => nfds' = 0)
    BY <1>6, ReportedCount DEF SelectReturns
  <2>3. n' \in 0..FD_SETSIZE
    BY <1>6, <1>1 DEF SelectReturns
  <2>4. mMaxFd < 0 => \A k \in Kinds : fds[k] = {}
    BY <1>6 DEF SelectReturns
  <2>5. QED
    BY <1>6, <2>1, <2>2, <2>3, <2>4 DEF SelectReturns
<1>7. CASE LookAtFd
  <2>1. nfds > 0 /\ n <= mMaxFd /\ nfds \in Nat /\ n \in Nat
    BY <1>7, <1>1 DEF LookAtFd, InScan
  <2>2. n' \in 0..FD_SETSIZE /\ nfds' \in Nat
    BY <1>7, <1>1, <2>1 DEF LookAtFd
  <2>3. pending' \subseteq Kinds
    BY <1>7 DEF LookAtFd
  <2>4. QED
    BY <1>7, <2>1, <2>2, <2>3 DEF LookAtFd
<1>8. CASE CallHandler
  BY <1>8 DEF CallHandler
<1>9. CASE EndRound
  <2>1. fds' \in [Kinds -> SUBSET Fds]
    BY <1>9 DEF EndRound, Empty
  <2>2. QED
    BY <1>9, <1>1, <2>1 DEF EndRound
<1>10. CASE SelectFails
  <2>1. fds' \in [Kinds -> SUBSET Fds]
    BY <1>10 DEF SelectFails, Empty
  <2>2. QED
    BY <1>10, <2>1 DEF SelectFails
<1>11. CASE Arrive
  BY <1>11 DEF Arrive
<1>12. QED
  BY <1>2, <1>3, <1>4, <1>5, <1>6, <1>7, <1>8, <1>9, <1>10, <1>11 DEF EngineThread

LEMMA StepTInv == TInv /\ [Next]_vars => TInv'
<1> SUFFICES ASSUME TInv, [Next]_vars PROVE TInv'
  OBVIOUS
<1>1. CASE UNCHANGED vars
  BY <1>1 DEF vars, shared, thread, TInv, TypeOK, RegOK, NothingEarly
<1>2. CASE Next
  BY <1>2, CallTInv, RegisterTInv, AccessTInv, ThreadTInv DEF Next, Application
<1>3. QED
  BY <1>1, <1>2

\* The scan of remEvent never takes mMaxFd below -1, and the scan of the thread
\* stays within the sets although n is unsigned and mMaxFd changes under it.
THEOREM TypeCorrect == Spec => []TypeOK
<1>1. TInv => TypeOK
  BY DEF TInv
<1>2. QED
  BY StartTInv, StepTInv, <1>1, PTL DEF Spec
-----------------------------------------------------------------------------
(* No descriptor is lost. *)

\* What the steps that leave the registration and the sets alone keep.
LEMMA OtherSteps ==
  ASSUME IInv, TInv', UNCHANGED <<mFds, mMaxFd, reg>>
  PROVE  IInv'
BY DEF IInv, ExHoldsAll, ClearedSoFar, Sensible, MaxFdCovers

\* Where nothing is going on, and where something is, mExFds holds every
\* registered descriptor but for the moment it is set.
LEMMA RegisterIInv ==
  ASSUME ~MayPark, IInv, TInv', Register
  PROVE  IInv'
<1>1. PICK op \in {"add", "mod", "rem"}, fd \in Fds, event \in SUBSET {"Rd", "Wr"} :
        /\ reg' = Registration(op, fd, event)
        /\ op \in {"add", "mod"} => MayPark \/ event # {}
        /\ op = "mod" => Known(fd)
  BY RegisterStarts
<1>2. reg' = [op |-> op, fd |-> fd, event |-> event, at |-> 1]
  BY <1>1 DEF Registration
<1>3. reg = NoReg /\ mFds' = mFds /\ mMaxFd' = mMaxFd
  BY DEF Register, Idle, shared
<1>4. \A k \in Kinds : \A f \in mFds[k] : f \in mFds["Ex"] /\ f <= mMaxFd
  BY <1>3 DEF IInv, ExHoldsAll, MaxFdCovers, NoReg
<1>5. ExHoldsAll' /\ MaxFdCovers'
  BY <1>3, <1>4 DEF ExHoldsAll, MaxFdCovers
<1>6. ClearedSoFar'
  BY <1>2 DEF ClearedSoFar
<1>7. Sensible'
  <2>1. op = "mod" => fd \in mFds["Ex"] /\ "Ex" \in Kinds
    BY <1>1 DEF Known, Kinds
  <2>2. QED
    BY <1>1, <1>2, <1>3, <1>4, <2>1 DEF Sensible
<1>8. QED
  BY <1>5, <1>6, <1>7 DEF IInv

\* The set that is cleared is the one that is named.
LEMMA ClearIInv ==
  ASSUME IInv, TInv', Clear
  PROVE  IInv'
<1>1. /\ mMaxFd' = mMaxFd /\ reg'.op = reg.op /\ reg'.fd = reg.fd /\ reg'.event = reg.event
      /\ reg'.at = IF reg.op = "rem" /\ reg.at = 3 THEN 7 ELSE reg.at + 1
  <2>1. reg \in [op : {"none", "add", "mod", "rem"}, fd : 0..(FD_SETSIZE - 1),
                 event : SUBSET Kinds, at : 0..7]
    BY DEF IInv, TInv, TypeOK
  <2>2. QED
    BY <2>1 DEF Clear
<1>2. /\ mFds'["Rd"] = IF reg.at = 1 THEN mFds["Rd"] \ {reg.fd} ELSE mFds["Rd"]
      /\ mFds'["Wr"] = IF reg.at = 2 THEN mFds["Wr"] \ {reg.fd} ELSE mFds["Wr"]
      /\ mFds'["Ex"] = IF reg.at = 3 THEN mFds["Ex"] \ {reg.fd} ELSE mFds["Ex"]
  <2>1. mFds \in [Kinds -> SUBSET Fds] /\ reg.at \in 1..3
    BY DEF IInv, TInv, TypeOK, Clear
  <2>2. CASE reg.at = 1
    BY <2>1, <2>2, SetNames DEF Clear, Kinds
  <2>3. CASE reg.at = 2
    BY <2>1, <2>3, SetNames DEF Clear, Kinds
  <2>4. CASE reg.at = 3
    BY <2>1, <2>4, SetNames DEF Clear, Kinds
  <2>5. QED
    BY <2>1, <2>2, <2>3, <2>4
<1>3. reg.at \in 1..3 /\ reg.op # "none"
  BY DEF IInv, TInv, RegOK, Clear, NoReg
<1>4. \A k \in Kinds : k = "Rd" \/ k = "Wr" \/ k = "Ex"
  BY DEF Kinds
<1>5. ExHoldsAll'
  BY <1>1, <1>2, <1>3, <1>4 DEF IInv, ExHoldsAll, ClearedSoFar
<1>6. ClearedSoFar'
  BY <1>1, <1>2, <1>3, <1>4 DEF IInv, ClearedSoFar
<1>7. MaxFdCovers'
  BY <1>1, <1>2, <1>3, <1>4 DEF IInv, MaxFdCovers
<1>8. Sensible'
  BY <1>1 DEF IInv, Sensible
<1>9. QED
  BY <1>5, <1>6, <1>7, <1>8 DEF IInv

\* Setting: mExFds comes last, and gets the descriptor whatever the event is.
LEMMA SetIInv ==
  ASSUME IInv, TInv', Set
  PROVE  IInv'
<1>1. /\ mFds \in [Kinds -> SUBSET Fds] /\ reg.at \in 4..6
      /\ reg \in [op : {"none", "add", "mod", "rem"}, fd : 0..(FD_SETSIZE - 1),
                  event : SUBSET Kinds, at : 0..7]
  BY DEF IInv, TInv, TypeOK, Set
<1>2. reg.op \in {"add", "mod"} /\ reg.event # {}
  BY <1>1 DEF IInv, TInv, RegOK, Sensible, NoReg
<1>3. \/ reg.op = "mod" /\ reg.at = 6 /\ reg' = NoReg
      \/ ~(reg.op = "mod" /\ reg.at = 6) /\ reg' = [reg EXCEPT !.at = reg.at + 1]
  BY DEF Set
<1>4. /\ mMaxFd' = mMaxFd
      /\ \A k \in Kinds : mFds'[k] = mFds[k] \/ mFds'[k] = mFds[k] \cup {reg.fd}
  <2>1. Sets[reg.at - 3] \in Kinds
    BY <1>1, SetNames
  <2>2. QED
    BY <1>1, <2>1 DEF Set
<1>5. reg.at = 6 => mFds'["Ex"] = mFds["Ex"] \cup {reg.fd}
  BY <1>1, <1>2, SetNames DEF Set, Wanted, Kinds
<1>6. reg.at # 6 => mFds'["Ex"] = mFds["Ex"]
  BY <1>1, SetNames DEF Set, Kinds
<1>7. "Ex" \in Kinds
  BY DEF Kinds
<1>8. CASE reg.at = 6
  <2>1. \A k \in Kinds : \A fd \in mFds'[k] : fd \in mFds'["Ex"]
    BY <1>4, <1>5, <1>8 DEF IInv, ExHoldsAll
  <2>2. reg'.at \in {0, 7} /\ reg'.op # "rem"
    BY <1>1, <1>2, <1>3, <1>8 DEF NoReg
  <2>3. ExHoldsAll' /\ ClearedSoFar'
    BY <2>1, <2>2 DEF ExHoldsAll, ClearedSoFar
  <2>4. MaxFdCovers'
    <3>1. CASE reg.op = "mod"
      BY <1>4, <3>1 DEF IInv, MaxFdCovers, Sensible
    <3>2. CASE reg.op = "add"
      <4>1. reg'.op = "add" /\ reg'.fd = reg.fd
        BY <1>1, <1>3, <3>2
      <4>2. QED
        BY <1>4, <4>1 DEF IInv, MaxFdCovers
    <3>3. QED
      BY <1>2, <3>1, <3>2
  <2>5. Sensible'
    BY <1>1, <1>2, <1>3, <1>4 DEF IInv, Sensible, NoReg
  <2>6. QED
    BY <2>3, <2>4, <2>5 DEF IInv
<1>9. CASE reg.at \in 4..5
  <2>1. /\ reg'.at = reg.at + 1 /\ reg'.op = reg.op
        /\ reg'.fd = reg.fd /\ reg'.event = reg.event
    BY <1>1, <1>3, <1>9
  <2>2. ExHoldsAll'
    BY <1>4, <1>6, <1>9, <2>1 DEF IInv, ExHoldsAll
  <2>3. ClearedSoFar'
    BY <1>2, <1>9, <2>1 DEF ClearedSoFar
  <2>4. Sensible'
    BY <1>4, <2>1 DEF IInv, Sensible
  <2>5. MaxFdCovers'
    BY <1>2, <1>4, <2>1 DEF IInv, MaxFdCovers, Sensible
  <2>6. QED
    BY <2>2, <2>3, <2>4, <2>5 DEF IInv
<1>10. QED
  BY <1>1, <1>8, <1>9

\* addEvent ends with a mMaxFd that covers its descriptor.
LEMMA RaiseIInv ==
  ASSUME IInv, TInv', RaiseMax
  PROVE  IInv'
<1>1. reg' = NoReg /\ mFds' = mFds /\ reg.op = "add" /\ reg.at = 7 /\ reg.event # {}
  BY DEF RaiseMax, IInv, Sensible
<1>2. mMaxFd \in Int /\ reg.fd \in Int
  BY DEF IInv, TInv, TypeOK
<1>3. mMaxFd' \in Int /\ mMaxFd' >= mMaxFd /\ mMaxFd' >= reg.fd
  BY <1>1, <1>2 DEF RaiseMax
<1>4. \A k \in Kinds : \A fd \in mFds[k] : fd \in Int
  BY FdAssumption DEF IInv, TInv, TypeOK
<1>5. MaxFdCovers'
  BY <1>1, <1>2, <1>3, <1>4 DEF IInv, MaxFdCovers
<1>6. ExHoldsAll' /\ ClearedSoFar' /\ Sensible'
  BY <1>1 DEF IInv, ExHoldsAll, ClearedSoFar, Sensible, NoReg
<1>7. QED
  BY <1>5, <1>6 DEF IInv

\* remEvent passes over descriptors that are in no set.
LEMMA LowerIInv ==
  ASSUME IInv, TInv', LowerMax
  PROVE  IInv'
<1>1. reg.op = "rem" /\ reg.at = 7 /\ mFds' = mFds
  BY DEF LowerMax
<1>2. /\ mMaxFd \in Int
      /\ reg \in [op : {"none", "add", "mod", "rem"}, fd : 0..(FD_SETSIZE - 1),
                  event : SUBSET Kinds, at : 0..7]
      /\ \A k \in Kinds : \A fd \in mFds[k] : fd \in Int
  BY FdAssumption DEF IInv, TInv, TypeOK
<1>3. \A k \in Kinds : \A fd \in mFds[k] :
        fd <= mMaxFd /\ fd # reg.fd /\ fd \in mFds["Ex"]
  BY <1>1 DEF IInv, MaxFdCovers, ClearedSoFar, ExHoldsAll
<1>4. CASE reg.fd = mMaxFd
  <2>1. mMaxFd' = mMaxFd - 1
    BY <1>4 DEF LowerMax
  <2>2. \A k \in Kinds : \A fd \in mFds'[k] : fd <= mMaxFd'
    BY <1>1, <1>2, <1>3, <1>4, <2>1
  <2>3. CASE ScanGoesOn(mMaxFd - 1)
    <3>1. reg' = [reg EXCEPT !.fd = mMaxFd - 1]
      BY <1>4, <2>3 DEF LowerMax
    <3>2. reg'.op = "rem" /\ reg'.at = 7 /\ reg'.fd = mMaxFd - 1
      BY <3>1, <1>1, <1>2
    <3>3. \A k \in Kinds : reg'.fd \notin mFds'[k]
      BY <1>1, <1>3, <2>3, <3>2 DEF ScanGoesOn
    <3>4. QED
      BY <1>1, <1>3, <2>2, <3>2, <3>3 DEF IInv, ExHoldsAll, ClearedSoFar, Sensible, MaxFdCovers
  <2>4. CASE ~ScanGoesOn(mMaxFd - 1)
    <3>1. reg' = NoReg
      BY <1>4, <2>4 DEF LowerMax
    <3>2. QED
      BY <1>1, <1>3, <2>2, <3>1
         DEF IInv, ExHoldsAll, ClearedSoFar, Sensible, MaxFdCovers, NoReg
  <2>5. QED
    BY <2>3, <2>4
<1>5. CASE reg.fd # mMaxFd
  <2>1. reg' = NoReg /\ mMaxFd' = mMaxFd
    BY <1>5 DEF LowerMax
  <2>2. QED
    BY <1>1, <1>3, <2>1 DEF IInv, ExHoldsAll, ClearedSoFar, Sensible, MaxFdCovers, NoReg
<1>6. QED
  BY <1>4, <1>5

LEMMA StepIInv == ASSUME ~MayPark PROVE IInv /\ [Next]_vars => IInv'
<1> SUFFICES ASSUME IInv, [Next]_vars PROVE IInv'
  OBVIOUS
<1>1. TInv'
  BY StepTInv DEF IInv
<1>2. CASE Register
  BY <1>1, <1>2, RegisterIInv
<1>3. CASE Access
  BY <1>1, <1>3, ClearIInv, SetIInv, RaiseIInv, LowerIInv DEF Access
<1>4. CASE \/ startEngine \/ StartWaits \/ stopEngine \/ StopJoins
           \/ EngineThread \/ SelectFails \/ Arrive \/ UNCHANGED vars
  <2>1. UNCHANGED <<mFds, mMaxFd, reg>>
    BY <1>4 DEF startEngine, StartWaits, stopEngine, StopJoins, EngineThread, Announce,
       BeginRound, CopySet, CallSelect, SelectReturns, LookAtFd, CallHandler, EndRound,
       SelectFails, Arrive, vars, shared, thread
  <2>2. QED
    BY <1>1, <2>1, OtherSteps
<1>5. QED
  BY <1>2, <1>3, <1>4 DEF Next, Application

\* If whatever is registered is registered for some event, no order of addEvent,
\* modEvent and remEvent loses a descriptor: at each of their accesses, select
\* would be told to look far enough.
THEOREM NoDescriptorLost == ASSUME ~MayPark PROVE Spec => []MaxFdCovers
<1>1. Init => IInv
  <2>1. Init => \A k \in Kinds : mFds[k] = {}
    BY DEF Init, Empty
  <2>2. QED
    BY <2>1, StartTInv
       DEF Init, NoReg, IInv, ExHoldsAll, ClearedSoFar, Sensible, MaxFdCovers
<1>2. IInv => MaxFdCovers
  BY DEF IInv
<1>3. QED
  BY <1>1, StepIInv, <1>2, PTL DEF Spec
=============================================================================
