------------------------- MODULE XfrmKernel_proofs -------------------------
(***************************************************************************)
(* What holds of an object of either class for any number of threads and   *)
(* requests: the mutex and the types, whose SPI a caller gets, and that    *)
(* the object implements SpiService.                                       *)
(***************************************************************************)
EXTENDS XfrmKernel, TLAPS

(* The two classes as one. *)

Verdict(k, m, in) == IF k = "pfkey" THEN Pfkey!Verdict(m, in) ELSE Netlink!Verdict(m, in)
Answers(k, r) == IF k = "pfkey" THEN Pfkey!Answers(r) ELSE Netlink!Answers(r)
Strays(k, s) == IF k = "pfkey" THEN Pfkey!Strays(s) ELSE Netlink!Strays(s)
ReceivedSpis(k, m) == IF k = "pfkey" THEN Pfkey!ReceivedSpis(m) ELSE Netlink!ReceivedSpis(m)
GetSpiMsg(k) == IF k = "pfkey" THEN Pfkey!GetSpiMsg ELSE Netlink!AllocSpiMsg
RegisterMsg(satype) == Pfkey!RegisterMsg(satype)

CreateSocket(c) ==
  /\ In(c, {"idle"})
  /\ fd' \in [Sockets -> {"none", "bad", "open"}]
  /\ \/ call' = call
     \/ call' = [call EXCEPT ![c] = Request("events", RegisterMsg("ESP"))]
  /\ UNCHANGED <<inbox, wire, sent, allocated, upsets, mutex, ret, claimed, gaveUp>>

GetSpi(c) ==
  /\ In(c, {"idle"})
  /\ call' = [call EXCEPT ![c] = Request("main", GetSpiMsg(kind))]
  /\ UNCHANGED <<fd, inbox, wire, sent, allocated, upsets, mutex, ret, claimed, gaveUp>>

Registered(c) ==
  /\ In(c, {"parse"})
  /\ ~AsksSpi(c)
  /\ \/ call' = [call EXCEPT ![c] = Idle]
     \/ call' = [call EXCEPT ![c] = Request("events", RegisterMsg("AH"))]
  /\ UNCHANGED <<fd, inbox, wire, sent, allocated, upsets, mutex, ret, claimed, gaveUp>>

CallerStep(c) ==
  \/ CreateSocket(c) \/ GetSpi(c) \/ Lock(c)
  \/ Send(c) \/ SendFails(c) \/ RecvFails(c) \/ Recv(c, Verdict(kind, NextMessage(c), call[c].in))
  \/ Parse(c, ReceivedSpis(kind, call[c].out)) \/ Registered(c)

KernelStep ==
  KernelAnswers(Answers(kind, Head(wire))) \/ KernelTells([s \in Sockets |-> Strays(kind, s)])

\* A step of either class is one of these.
LEMMA PfkeyStep ==
  ASSUME kind = "pfkey", Pfkey!Next, fd \in [Sockets -> {"none", "bad", "open"}]
  PROVE  (\E c \in Callers : CallerStep(c)) \/ KernelStep \/ Destroy
<1> USE DEF Sockets, Pfkey!Sockets, In, Pfkey!In, NoSpi, Pfkey!NoSpi, Spis, Pfkey!Spis, Idle, Pfkey!Idle,
            AsksSpi, Pfkey!AsksSpi, Request, Pfkey!Request, Returned, Pfkey!Returned,
            GiveBack, Pfkey!GiveBack, NextMessage, Pfkey!NextMessage
<1>1. ASSUME NEW c \in Callers, Pfkey!Caller(c) PROVE CallerStep(c)
  <2>1. CASE Pfkey!CreateSocket(c)
    BY <2>1 DEF Pfkey!CreateSocket, CreateSocket, CallerStep, RegisterMsg
  <2>2. CASE Pfkey!GetSpi(c)
    BY <2>2 DEF Pfkey!GetSpi, GetSpi, GetSpiMsg, CallerStep
  <2>3. CASE Pfkey!Lock(c)
    BY <2>3 DEF Pfkey!Lock, Lock, CallerStep
  <2>4. CASE Pfkey!Send(c)
    BY <2>4 DEF Pfkey!Send, Send, CallerStep
  <2>5. CASE Pfkey!SendFails(c)
    BY <2>5 DEF Pfkey!SendFails, SendFails, CallerStep
  <2>6. CASE Pfkey!RecvFails(c)
    BY <2>6 DEF Pfkey!RecvFails, RecvFails, CallerStep
  <2>7. CASE Pfkey!Recv(c, Pfkey!Verdict(Pfkey!NextMessage(c), call[c].in))
    <3> DEFINE v == Pfkey!Verdict(Pfkey!NextMessage(c), call[c].in)
    <3>1. v = Verdict(kind, NextMessage(c), call[c].in)  BY DEF Verdict
    <3>2. Pfkey!Recv(c, v) => Recv(c, v)  BY DEF Pfkey!Recv, Recv
    <3> QED  BY <2>7, <3>1, <3>2 DEF CallerStep
  <2>8. CASE Pfkey!Parse(c, Pfkey!ReceivedSpis(call[c].out))
    <3> DEFINE v == Pfkey!ReceivedSpis(call[c].out)
    <3>1. v = ReceivedSpis(kind, call[c].out)  BY DEF ReceivedSpis
    <3>2. Pfkey!Parse(c, v) => Parse(c, v)  BY DEF Pfkey!Parse, Parse
    <3> QED  BY <2>8, <3>1, <3>2 DEF CallerStep
  <2>9. CASE Pfkey!Registered(c)
    BY <2>9 DEF Pfkey!Registered, Registered, RegisterMsg, CallerStep
  <2> QED
    BY <1>1, <2>1, <2>2, <2>3, <2>4, <2>5, <2>6, <2>7, <2>8, <2>9 DEF Pfkey!Caller
<1>2. CASE Pfkey!Kernel
  <2> DEFINE a == Pfkey!Answers(Head(wire))
             t == [s \in Sockets |-> Pfkey!Strays(s)]
  <2>1. a = Answers(kind, Head(wire)) /\ t = [s \in Sockets |-> Strays(kind, s)]
    BY DEF Answers, Strays
  <2>2. Pfkey!KernelAnswers(a) => KernelAnswers(a)  BY DEF Pfkey!KernelAnswers, KernelAnswers
  <2>3. Pfkey!KernelTells(t) => KernelTells(t)  BY DEF Pfkey!KernelTells, KernelTells
  <2> QED  BY <1>2, <2>1, <2>2, <2>3 DEF Pfkey!Kernel, KernelStep
<1>3. CASE Pfkey!Destroy
  BY <1>3 DEF Pfkey!Destroy, Destroy
<1> QED  BY <1>1, <1>2, <1>3 DEF Pfkey!Next

LEMMA NetlinkStep ==
  ASSUME kind = "netlink", Netlink!Next, fd \in [Sockets -> {"none", "bad", "open"}]
  PROVE  (\E c \in Callers : CallerStep(c)) \/ KernelStep \/ Destroy
<1> USE DEF Sockets, Netlink!Sockets, In, Netlink!In, NoSpi, Netlink!NoSpi, Spis, Netlink!Spis, Idle, Netlink!Idle,
            AsksSpi, Netlink!AsksSpi, Request, Netlink!Request, Returned, Netlink!Returned,
            GiveBack, Netlink!GiveBack, NextMessage, Netlink!NextMessage
<1>1. ASSUME NEW c \in Callers, Netlink!Caller(c) PROVE CallerStep(c)
  <2>1. CASE Netlink!CreateSocket(c)
    BY <2>1 DEF Netlink!CreateSocket, CreateSocket, CallerStep, RegisterMsg
  <2>2. CASE Netlink!GetSpi(c)
    BY <2>2 DEF Netlink!GetSpi, GetSpi, GetSpiMsg, CallerStep
  <2>3. CASE Netlink!Lock(c)
    BY <2>3 DEF Netlink!Lock, Lock, CallerStep
  <2>4. CASE Netlink!Send(c)
    BY <2>4 DEF Netlink!Send, Send, CallerStep
  <2>5. CASE Netlink!SendFails(c)
    BY <2>5 DEF Netlink!SendFails, SendFails, CallerStep
  <2>6. CASE Netlink!RecvFails(c)
    BY <2>6 DEF Netlink!RecvFails, RecvFails, CallerStep
  <2>7. CASE Netlink!Recv(c, Netlink!Verdict(Netlink!NextMessage(c), call[c].in))
    <3> DEFINE v == Netlink!Verdict(Netlink!NextMessage(c), call[c].in)
    <3>1. v = Verdict(kind, NextMessage(c), call[c].in)  BY DEF Verdict
    <3>2. Netlink!Recv(c, v) => Recv(c, v)  BY DEF Netlink!Recv, Recv
    <3> QED  BY <2>7, <3>1, <3>2 DEF CallerStep
  <2>8. CASE Netlink!Parse(c, Netlink!ReceivedSpis(call[c].out))
    <3> DEFINE v == Netlink!ReceivedSpis(call[c].out)
    <3>1. v = ReceivedSpis(kind, call[c].out)  BY DEF ReceivedSpis
    <3>2. Netlink!Parse(c, v) => Parse(c, v)  BY DEF Netlink!Parse, Parse
    <3> QED  BY <2>8, <3>1, <3>2 DEF CallerStep
  <2> QED
    BY <1>1, <2>1, <2>2, <2>3, <2>4, <2>5, <2>6, <2>7, <2>8 DEF Netlink!Caller
<1>2. CASE Netlink!Kernel
  <2> DEFINE a == Netlink!Answers(Head(wire))
             t == [s \in Sockets |-> Netlink!Strays(s)]
  <2>1. a = Answers(kind, Head(wire)) /\ t = [s \in Sockets |-> Strays(kind, s)]
    BY DEF Answers, Strays
  <2>2. Netlink!KernelAnswers(a) => KernelAnswers(a)  BY DEF Netlink!KernelAnswers, KernelAnswers
  <2>3. Netlink!KernelTells(t) => KernelTells(t)  BY DEF Netlink!KernelTells, KernelTells
  <2> QED  BY <1>2, <2>1, <2>2, <2>3 DEF Netlink!Kernel, KernelStep
<1>3. CASE Netlink!Destroy
  BY <1>3 DEF Netlink!Destroy, Destroy
<1> QED  BY <1>1, <1>2, <1>3 DEF Netlink!Next
-----------------------------------------------------------------------------
(* The invariant. *)

IsSeq(q) == \E S : q \in Seq(S)
Main == inbox["main"]

\* A message that the receive loop of getSpi keeps.
Kept(k, m) == m.whole /\ (k = "pfkey" => m.pid = Us /\ m.seq = 0)
\* What getSpi makes of it.
Reads(k, m) == m.spi \in {NoSpi, m.id} /\ ReceivedSpis(k, m) \subseteq {m.spi, NoSpi}

CallShape(c) ==
  LET k == call[c]
  IN  \/ k = Idle
      \/ /\ k.pc \in {"lock", "send", "recv", "parse"}
         /\ k = IF k.pc = "parse"
                THEN [pc |-> k.pc, sock |-> k.sock, in |-> k.in, id |-> k.id, out |-> k.out]
                ELSE [pc |-> k.pc, sock |-> k.sock, in |-> k.in, id |-> k.id]
         /\ k.id \in Nat
         /\ \/ k.sock = "main" /\ k.in = GetSpiMsg(kind)
            \/ k.sock = "events" /\ k.in.type = "REGISTER"

Asking(c) == ~In(c, {"idle"}) /\ AsksSpi(c)

Shapes ==
  /\ kind \in {"pfkey", "netlink"}
  /\ fd \in [Sockets -> {"none", "bad", "open"}]
  /\ upsets \in 0..MaxUpsets
  /\ DOMAIN inbox = Sockets /\ (\A s \in Sockets : IsSeq(inbox[s])) /\ IsSeq(wire)
  /\ DOMAIN call = Callers /\ \A c \in Callers : CallShape(c)
  /\ DOMAIN ret = Callers /\ \A c \in Callers : ret[c].spi \in Spis \union {NoSpi}

Holder ==
  /\ mutex \in Callers \union {Null}
  /\ \A c \in Callers : mutex = c <=> In(c, {"send", "recv"})

Numbers ==
  /\ sent \in 0..MaxRequests
  /\ allocated \subseteq 1..sent /\ claimed \subseteq allocated
  /\ \A c \in Callers : In(c, {"recv"}) /\ AsksSpi(c) => call[c].id = sent /\ sent # 0

\* Requests wait in the order of their numbers, which are not allocated yet.
WireInOrder ==
  \A i \in 1..Len(wire) :
    /\ \/ wire[i].id = 0 /\ wire[i].sock = "events"
       \/ wire[i].id \in 1..sent /\ wire[i].sock = "main" /\ wire[i].in = GetSpiMsg(kind)
    /\ wire[i].id # 0 =>
         /\ \A j \in 1..i - 1 : wire[j].id < wire[i].id
         /\ \A j \in 1..Len(Main) : Main[j].id < wire[i].id
         /\ \A a \in allocated : a < wire[i].id

\* Replies wait in the same order; an SPI in them was given to nobody yet.
MainInOrder ==
  \A i \in 1..Len(Main) :
    /\ Main[i].id \in 0..sent
    /\ Main[i].id # 0 => \A j \in 1..i - 1 : Main[j].id < Main[i].id
    /\ Kept(kind, Main[i]) => /\ Reads(kind, Main[i])
                              /\ Main[i].spi # NoSpi => Main[i].spi \in allocated \ claimed

\* A reply that was taken is older than those that wait, it is nobody else's,
\* and it is for the request unless a call gave up before.
Taken ==
  \A c \in Callers :
    In(c, {"parse"}) /\ AsksSpi(c) =>
      LET m == call[c].out
      IN  /\ Reads(kind, m)
          /\ m.spi # NoSpi =>
               /\ m.spi \in allocated \ claimed
               /\ \A j \in 1..Len(Main) : Main[j].id # 0 => m.spi < Main[j].id
               /\ \A d \in Callers \ {c} :
                    In(d, {"parse"}) /\ AsksSpi(d) => call[d].out.spi # m.spi
               /\ m.spi = call[c].id \/ (gaveUp /\ m.spi < call[c].id)

\* Unless a call gave up, what waits is for the caller that waits for it.
NothingLeftBehind ==
  ~gaveUp =>
    /\ \A i \in 1..Len(wire) : wire[i].id # 0 =>
         \E c \in Callers : In(c, {"recv"}) /\ AsksSpi(c) /\ wire[i].id = sent
    /\ \A i \in 1..Len(Main) : Main[i].id # 0 =>
         \E c \in Callers : In(c, {"recv"}) /\ AsksSpi(c) /\ Main[i].id = sent

IInv == /\ Shapes /\ Holder /\ Numbers /\ WireInOrder /\ MainInOrder /\ Taken
        /\ NothingLeftBehind /\ OwnReply
-----------------------------------------------------------------------------
(* Sequences. *)

LEMMA Appended ==
  ASSUME NEW q, NEW e, IsSeq(q)
  PROVE  /\ IsSeq(Append(q, e)) /\ Len(q) \in Nat /\ Len(Append(q, e)) = Len(q) + 1
         /\ \A i \in 1..Len(q) : Append(q, e)[i] = q[i]
         /\ Append(q, e)[Len(q) + 1] = e
<1>1. PICK S : q \in Seq(S)  BY DEF IsSeq
<1>2. q \in Seq(S \union {e}) /\ e \in S \union {e}  BY <1>1
<1>3. Append(q, e) \in Seq(S \union {e})  BY <1>2
<1> QED  BY <1>2, <1>3 DEF IsSeq

LEMMA Shortened ==
  ASSUME NEW q, IsSeq(q), q # <<>>
  PROVE  /\ IsSeq(Tail(q)) /\ Len(q) \in Nat \ {0} /\ Len(Tail(q)) = Len(q) - 1
         /\ \A i \in 1..Len(Tail(q)) : Tail(q)[i] = q[i + 1]
         /\ Head(q) = q[1]
<1>1. PICK S : q \in Seq(S)  BY DEF IsSeq
<1>2. Tail(q) \in Seq(S)  BY <1>1
<1> QED  BY <1>1, <1>2 DEF IsSeq

(* Messages. *)

LEMMA KeptIfVerdict ==
  ASSUME NEW k \in {"pfkey", "netlink"}, NEW m, Verdict(k, m, GetSpiMsg(k)) = "keep"
  PROVE  Kept(k, m)
BY DEF Verdict, GetSpiMsg, Pfkey!Verdict, Netlink!Verdict, Pfkey!GetSpiMsg, Pfkey!mSequence, Kept

LEMMA AnswerRead ==
  ASSUME NEW k \in {"pfkey", "netlink"}, NEW r, r.in = GetSpiMsg(k), r.id \in Nat \ {0},
         NEW a \in Answers(k, r)
  PROVE  a.id = r.id /\ Reads(k, a)
<1> USE DEF NoSpi, Netlink!NoSpi, Pfkey!NoSpi
<1>1. CASE k = "pfkey"
  BY <1>1 DEF Answers, Pfkey!Answers, Pfkey!Message, Reads, ReceivedSpis, Pfkey!ReceivedSpis
<1>2. CASE k = "netlink"
  <2>1. a.id = r.id /\ a.spi \in {NoSpi, r.id}
    BY <1>2 DEF Answers, Netlink!Answers, Netlink!Datagram
  <2>2. Netlink!ReceivedSpis(a) \subseteq {a.spi, NoSpi}
    BY DEF Netlink!ReceivedSpis
  <2> QED  BY <1>2, <2>1, <2>2 DEF Reads, ReceivedSpis
<1> QED  BY <1>1, <1>2

LEMMA AnswerOfRegistration ==
  ASSUME NEW k \in {"pfkey", "netlink"}, NEW r, r.id = 0, NEW a \in Answers(k, r)
  PROVE  a.spi = NoSpi
BY DEF Answers, Netlink!Answers, Netlink!Datagram, Pfkey!Answers, Pfkey!Message,
       NoSpi, Netlink!NoSpi, Pfkey!NoSpi

LEMMA StrayUnread ==
  ASSUME NEW k \in {"pfkey", "netlink"}, NEW m \in Strays(k, "main")
  PROVE  m.id = 0 /\ (Kept(k, m) => m.spi = NoSpi /\ Reads(k, m))
<1> USE DEF NoSpi, Netlink!NoSpi, Pfkey!NoSpi
<1>1. CASE k = "pfkey"
  <2>1. \/ \E p \in Others : m = Pfkey!Message("DELETE", 0, p, FALSE, 0, Pfkey!Foreign, TRUE)
        \/ m = Pfkey!Message("DELETE", 202, Us, FALSE, 0, Pfkey!Foreign, TRUE)
        \/ m = Pfkey!Message("DELETE", 0, 0, FALSE, 0, NoSpi, FALSE)
    BY <1>1 DEF Strays, Pfkey!Strays
  <2>2. m.id = 0 /\ ~Kept(k, m)
    BY <1>1, <2>1, PidAssumption DEF Pfkey!Message, Kept
  <2> QED  BY <2>2
<1>2. CASE k = "netlink"
  <2>1. m.id = 0 /\ m.spi = NoSpi
    BY <1>2 DEF Strays, Netlink!Strays, Netlink!Datagram
  <2>2. Netlink!ReceivedSpis(m) \subseteq {m.spi, NoSpi}
    BY DEF Netlink!ReceivedSpis
  <2> QED  BY <1>2, <2>1, <2>2 DEF Reads, ReceivedSpis
<1> QED  BY <1>1, <1>2
-----------------------------------------------------------------------------
(* Initially, and steps of a caller outside the socket. *)

LEMMA InvInit == Init => IInv
<1> SUFFICES ASSUME Init PROVE IInv  OBVIOUS
<1> USE DEF Init, InitSockets, NoSpi
<1>1. IsSeq(<<>>)
  <2>1. <<>> \in Seq({})  OBVIOUS
  <2> QED  BY <2>1 DEF IsSeq
<1>2. wire = <<>> /\ Main = <<>> /\ Len(wire) = 0 /\ Len(Main) = 0
  BY DEF Main, Sockets
<1>3. \A c \in Callers : call[c] = Idle /\ call[c].pc = "idle" /\ ret[c].spi = NoSpi
  BY DEF Idle, Returned
<1>4. Shapes
  <2>1. \A c \in Callers : CallShape(c)  BY <1>3 DEF CallShape
  <2>2. fd \in [Sockets -> {"none", "bad", "open"}] /\ upsets \in 0..MaxUpsets
    BY SocketAssumption
  <2>3. DOMAIN inbox = Sockets /\ (\A s \in Sockets : IsSeq(inbox[s])) /\ IsSeq(wire)
    BY <1>1
  <2>4. DOMAIN call = Callers /\ DOMAIN ret = Callers  OBVIOUS
  <2>5. \A c \in Callers : ret[c].spi \in Spis \union {NoSpi}  BY <1>3
  <2> QED  BY <2>1, <2>2, <2>3, <2>4, <2>5 DEF Shapes
<1>5. Holder  BY <1>3, SocketAssumption DEF Holder, In
<1>6. Numbers
  <2>1. sent \in 0..MaxRequests /\ allocated \subseteq 1..sent /\ claimed \subseteq allocated
    BY SocketAssumption
  <2>2. \A c \in Callers : ~In(c, {"recv"})  BY <1>3 DEF In
  <2> QED  BY <2>1, <2>2 DEF Numbers
<1>7. WireInOrder /\ MainInOrder /\ NothingLeftBehind
  BY <1>2 DEF WireInOrder, MainInOrder, NothingLeftBehind
<1>8. Taken /\ OwnReply  BY <1>3 DEF Taken, In, OwnReply
<1> QED  BY <1>4, <1>5, <1>6, <1>7, <1>8 DEF IInv

\* What a step changes of the calls: that of c.
Moves(c) == DOMAIN call' = Callers /\ \A d \in Callers \ {c} : call'[d] = call[d]

LEMMA CallMoves ==
  ASSUME Shapes, NEW c \in Callers, NEW r, call' = [call EXCEPT ![c] = r]
  PROVE  Moves(c) /\ call'[c] = r
BY DEF Shapes, Moves

LEMMA ShapesAfter ==
  ASSUME Shapes, NEW c \in Callers, Moves(c), CallShape(c)', kind' = kind,
         fd' \in [Sockets -> {"none", "bad", "open"}], upsets' \in 0..MaxUpsets,
         DOMAIN inbox' = Sockets, \A s \in Sockets : IsSeq(inbox'[s]), IsSeq(wire'),
         DOMAIN ret' = Callers, \A d \in Callers : ret'[d].spi \in Spis \union {NoSpi}
  PROVE  Shapes'
<1>1. ASSUME NEW d \in Callers \ {c} PROVE CallShape(d)'
  BY <1>1 DEF Shapes, Moves, CallShape
<1> QED  BY <1>1 DEF Shapes, Moves

\* The caller is at the socket neither before nor after.
LEMMA QuietStep ==
  ASSUME IInv, NEW c \in Callers, Moves(c), CallShape(c)', Holder', kind' = kind,
         fd' \in [Sockets -> {"none", "bad", "open"}],
         UNCHANGED <<inbox, wire, sent, allocated, upsets, ret, claimed, gaveUp>>,
         ~In(c, {"recv"}), ~In(c, {"recv"})',
         ~(In(c, {"parse"}) /\ AsksSpi(c)), ~(In(c, {"parse"}) /\ AsksSpi(c))'
  PROVE  IInv'
<1> USE DEF In, AsksSpi, Moves
<1>1. Shapes'  BY ShapesAfter DEF IInv, Shapes
<1>2. Numbers'  BY DEF IInv, Numbers
<1>3. WireInOrder' /\ MainInOrder'  BY DEF IInv, WireInOrder, MainInOrder, Main
<1>4. Taken'  BY DEF IInv, Taken, Main
<1>5. NothingLeftBehind'
  <2>1. \A d \in Callers : In(d, {"recv"}) /\ AsksSpi(d) => call'[d] = call[d]  OBVIOUS
  <2> QED  BY <2>1 DEF IInv, NothingLeftBehind, Main
<1>6. OwnReply'  BY DEF IInv, OwnReply
<1> QED  BY <1>1, <1>2, <1>3, <1>4, <1>5, <1>6 DEF IInv

LEMMA OutsideStep ==
  ASSUME IInv, kind' = kind, NEW c \in Callers,
         CreateSocket(c) \/ GetSpi(c) \/ Lock(c) \/ Registered(c)
  PROVE  IInv'
<1> USE DEF In
<1>0. Shapes /\ Holder /\ CallShape(c) /\ fd \in [Sockets -> {"none", "bad", "open"}]
  BY DEF IInv, Shapes
<1>1. ASSUME NEW in, NEW sock,
             \/ sock = "main" /\ in = GetSpiMsg(kind)
             \/ sock = "events" /\ in.type = "REGISTER",
             call' = [call EXCEPT ![c] = Request(sock, in)], UNCHANGED mutex,
             ~In(c, {"send", "recv"})
      PROVE  Moves(c) /\ CallShape(c)' /\ Holder' /\ ~In(c, {"recv", "parse"})'
  <2>1. Moves(c) /\ call'[c] = [pc |-> "lock", sock |-> sock, in |-> in, id |-> 0]
    BY <1>0, <1>1, CallMoves DEF Request
  <2>2. CallShape(c)'  BY <1>1, <2>1 DEF CallShape
  <2>3. Holder'  BY <1>0, <1>1, <2>1 DEF Holder, Moves
  <2> QED  BY <2>1, <2>2, <2>3
<1>2. CASE CreateSocket(c)
  <2>1. ~In(c, {"send", "recv", "parse"})  BY <1>2 DEF CreateSocket
  <2>2. CASE call' = call
    <3>1. Moves(c) /\ CallShape(c)' /\ Holder'
      BY <1>0, <1>2, <2>2 DEF CreateSocket, Moves, Shapes, CallShape, Holder
    <3> QED  BY <1>2, <2>1, <2>2, <3>1, QuietStep DEF CreateSocket
  <2>3. CASE call' = [call EXCEPT ![c] = Request("events", RegisterMsg("ESP"))]
    <3>1. RegisterMsg("ESP").type = "REGISTER"  BY DEF RegisterMsg, Pfkey!RegisterMsg
    <3>2. Moves(c) /\ CallShape(c)' /\ Holder' /\ ~In(c, {"recv", "parse"})'
      BY <1>1, <1>2, <2>1, <2>3, <3>1 DEF CreateSocket
    <3> QED  BY <1>2, <2>1, <3>2, QuietStep DEF CreateSocket
  <2> QED  BY <1>2, <2>2, <2>3 DEF CreateSocket
<1>3. CASE GetSpi(c)
  <2>1. ~In(c, {"send", "recv", "parse"})  BY <1>3 DEF GetSpi
  <2>2. Moves(c) /\ CallShape(c)' /\ Holder' /\ ~In(c, {"recv", "parse"})'
    BY <1>1, <1>3, <2>1 DEF GetSpi
  <2> QED  BY <1>0, <1>3, <2>1, <2>2, QuietStep DEF GetSpi
<1>4. CASE Lock(c)
  <2>1. In(c, {"lock"}) /\ mutex = Null /\ mutex' = c  BY <1>4 DEF Lock
  <2>2. call[c] = [pc |-> "lock", sock |-> call[c].sock, in |-> call[c].in, id |-> call[c].id]
    BY <1>0, <2>1 DEF CallShape, Idle
  <2>3. Moves(c) /\ call'[c] = [pc |-> "send", sock |-> call[c].sock, in |-> call[c].in, id |-> call[c].id]
    <3>1. [call[c] EXCEPT !.pc = "send"]
            = [pc |-> "send", sock |-> call[c].sock, in |-> call[c].in, id |-> call[c].id]
      BY <2>2
    <3>2. call' = [call EXCEPT ![c] = [call[c] EXCEPT !.pc = "send"]]  BY <1>4 DEF Lock
    <3> QED  BY <1>0, <3>1, <3>2, CallMoves
  <2>4. CallShape(c)'  BY <1>0, <2>1, <2>3 DEF CallShape, Idle
  <2>5. Holder'
    <3>1. \A d \in Callers \ {c} : ~In(d, {"send", "recv"})' /\ mutex' # d
      BY <1>0, <2>1, <2>3, SocketAssumption DEF Holder, Moves
    <3> QED  BY <2>1, <2>3, <3>1 DEF Holder
  <2> QED  BY <1>0, <1>4, <2>1, <2>3, <2>4, <2>5, QuietStep DEF Lock
<1>5. CASE Registered(c)
  <2>1. In(c, {"parse"}) /\ ~AsksSpi(c)  BY <1>5 DEF Registered
  <2>2. CASE call' = [call EXCEPT ![c] = Idle]
    <3>1. Moves(c) /\ call'[c] = Idle  BY <1>0, <2>2, CallMoves
    <3>2. CallShape(c)' /\ call'[c].pc = "idle"  BY <3>1 DEF CallShape, Idle
    <3>3. Holder'  BY <1>0, <1>5, <2>1, <3>1, <3>2 DEF Holder, Moves, Registered
    <3> QED  BY <1>0, <1>5, <2>1, <3>1, <3>2, <3>3, QuietStep DEF Registered
  <2>3. CASE call' = [call EXCEPT ![c] = Request("events", RegisterMsg("AH"))]
    <3>1. RegisterMsg("AH").type = "REGISTER"  BY DEF RegisterMsg, Pfkey!RegisterMsg
    <3>2. Moves(c) /\ CallShape(c)' /\ Holder' /\ ~In(c, {"recv", "parse"})'
      BY <1>1, <1>5, <2>1, <2>3, <3>1 DEF Registered
    <3> QED  BY <1>0, <1>5, <2>1, <3>2, QuietStep DEF Registered
  <2> QED  BY <1>5, <2>2, <2>3 DEF Registered
<1> QED  BY <1>2, <1>3, <1>4, <1>5
-----------------------------------------------------------------------------
(* Steps of the caller that has the mutex. *)

TookFrom(s) == inbox[s] # <<>> /\ inbox' = [inbox EXCEPT ![s] = Tail(@)]

\* What was read is gone from the front of the queue.
LEMMA AfterTaking ==
  ASSUME IInv, UNCHANGED inbox \/ \E s \in Sockets : TookFrom(s),
         UNCHANGED <<wire, sent, allocated, claimed, kind>>
  PROVE  /\ DOMAIN inbox' = Sockets /\ (\A s \in Sockets : IsSeq(inbox'[s])) /\ IsSeq(wire')
         /\ Len(Main) \in Nat /\ Len(Main') \in Nat
         /\ \E o \in {0, 1} :
              /\ Len(Main') = Len(Main) - o
              /\ \A j \in 1..Len(Main') : Main'[j] = Main[j + o]
              /\ TookFrom("main") => o = 1
         /\ WireInOrder' /\ MainInOrder'
<1>1. DOMAIN inbox = Sockets /\ (\A s \in Sockets : IsSeq(inbox[s])) /\ IsSeq(wire)
  BY DEF IInv, Shapes
<1>2. \A s \in Sockets : Len(inbox[s]) \in Nat
  <2>1. ASSUME NEW s \in Sockets PROVE Len(inbox[s]) \in Nat
    BY <1>1, Appended
  <2> QED  BY <2>1
<1>3. ASSUME NEW s \in Sockets, inbox[s] # <<>>
      PROVE  /\ IsSeq(Tail(inbox[s])) /\ Len(Tail(inbox[s])) = Len(inbox[s]) - 1
             /\ Len(inbox[s]) \in Nat \ {0}
             /\ \A i \in 1..Len(Tail(inbox[s])) : Tail(inbox[s])[i] = inbox[s][i + 1]
  BY <1>1, <1>3, Shortened
<1>4. "main" \in Sockets  BY DEF Sockets
<1>5. TookFrom("main") => Main' = Tail(Main) /\ Main # <<>> /\ Main' # Main
  <2>1. SUFFICES ASSUME TookFrom("main")
                 PROVE  Main' = Tail(Main) /\ Main # <<>> /\ Main' # Main
    OBVIOUS
  <2>2. Main' = Tail(Main) /\ Main # <<>>  BY <1>1, <1>4, <2>1 DEF TookFrom, Main
  <2>3. Len(Tail(Main)) = Len(Main) - 1 /\ Len(Main) \in Nat  BY <1>3, <1>4, <2>2 DEF Main
  <2>4. Len(Main) # Len(Main) - 1  BY <2>3
  <2> QED  BY ONLY <2>2, <2>3, <2>4
<1>6. DOMAIN inbox' = Sockets /\ (\A s \in Sockets : IsSeq(inbox'[s])) /\ IsSeq(wire')
  <2>1. CASE UNCHANGED inbox  BY <1>1, <2>1
  <2>2. ASSUME NEW s \in Sockets, TookFrom(s)
        PROVE  DOMAIN inbox' = Sockets /\ (\A t \in Sockets : IsSeq(inbox'[t]))
    <3>1. DOMAIN inbox' = Sockets /\ inbox'[s] = Tail(inbox[s])
          /\ \A t \in Sockets \ {s} : inbox'[t] = inbox[t]
      BY <1>1, <2>2 DEF TookFrom
    <3> QED  BY <1>1, <1>3, <2>2, <3>1 DEF TookFrom
  <2> QED  BY <1>1, <2>1, <2>2
<1>7. Len(Main) \in Nat /\ (Main' = Main \/ (Main' = Tail(Main) /\ TookFrom("main")))
  <2>1. CASE UNCHANGED inbox  BY <1>2, <1>4, <2>1 DEF Main
  <2>2. ASSUME NEW s \in Sockets, TookFrom(s)
        PROVE  Main' = Main \/ (Main' = Tail(Main) /\ TookFrom("main"))
    <3>1. CASE s = "main"  BY <1>5, <2>2, <3>1
    <3>2. CASE s # "main"  BY <1>1, <1>4, <2>2, <3>2 DEF TookFrom, Main
    <3> QED  BY <3>1, <3>2
  <2> QED  BY <1>2, <1>4, <2>1, <2>2 DEF Main
<1>8. /\ Len(Main') \in Nat
      /\ \E o \in {0, 1} : /\ Len(Main') = Len(Main) - o
                           /\ \A j \in 1..Len(Main') : Main'[j] = Main[j + o]
                           /\ TookFrom("main") => o = 1
  <2>1. CASE TookFrom("main")
    <3>1. /\ Len(Tail(Main)) = Len(Main) - 1 /\ Len(Main) \in Nat \ {0}
          /\ \A i \in 1..Len(Tail(Main)) : Tail(Main)[i] = Main[i + 1]
      BY <1>3, <1>4, <1>5, <2>1 DEF Main
    <3>2. Main' = Tail(Main)  BY <1>5, <2>1
    <3> QED  BY <3>1, <3>2
  <2>2. CASE ~TookFrom("main")
    <3>1. Main' = Main  BY <1>7, <2>2
    <3>2. \A j \in 1..Len(Main') : j + 0 = j  BY <1>7, <3>1
    <3> QED  BY <1>7, <2>2, <3>1, <3>2
  <2> QED  BY <2>1, <2>2
<1>9. PICK o \in {0, 1} : /\ Len(Main') = Len(Main) - o
                          /\ \A j \in 1..Len(Main') : Main'[j] = Main[j + o]
  BY <1>8
<1>10. \A j \in 1..Len(Main') : j + o \in 1..Len(Main)  BY <1>7, <1>8, <1>9
<1>11. WireInOrder'
  BY <1>9, <1>10 DEF IInv, WireInOrder
<1>12. MainInOrder'
  <2>1. ASSUME NEW i \in 1..Len(Main')
        PROVE  /\ Main'[i].id \in 0..sent
               /\ Main'[i].id # 0 => \A j \in 1..i - 1 : Main'[j].id < Main'[i].id
               /\ Kept(kind, Main'[i]) =>
                    /\ Reads(kind, Main'[i])
                    /\ Main'[i].spi # NoSpi => Main'[i].spi \in allocated \ claimed
    <3>1. Main'[i] = Main[i + o] /\ i + o \in 1..Len(Main)  BY <1>9, <1>10
    <3>2. \A j \in 1..i - 1 : Main'[j] = Main[j + o] /\ j + o \in 1..(i + o) - 1
      BY <1>8, <1>9
    <3> QED  BY <3>1, <3>2 DEF IInv, MainInOrder
  <2> QED  BY <2>1 DEF MainInOrder
<1> QED  BY <1>6, <1>7, <1>8, <1>11, <1>12

\* Nobody else waits while c has the mutex.
LEMMA AloneWithMutex ==
  ASSUME IInv, NEW c \in Callers, In(c, {"send", "recv"})
  PROVE  mutex = c /\ \A d \in Callers \ {c} : ~In(d, {"send", "recv"}) /\ ~In(d, {"recv"})
BY DEF IInv, Holder, In

\* The call fails, before the reply was read or after a message that is not it.
LEMMA CallFails ==
  ASSUME IInv, kind' = kind, NEW c \in Callers, In(c, {"send", "recv"}),
         GiveBack(c, NoSpi), mutex' = Null,
         UNCHANGED inbox \/ \E s \in Sockets : TookFrom(s),
         UNCHANGED <<fd, wire, sent, allocated>>, upsets' \in 0..MaxUpsets,
         gaveUp => gaveUp', In(c, {"recv"}) /\ AsksSpi(c) => gaveUp'
  PROVE  IInv'
<1>1. Shapes /\ claimed' = claimed  BY DEF IInv, GiveBack
<1>2. Moves(c) /\ call'[c] = Idle /\ call'[c].pc = "idle"
  <2>1. call' = [call EXCEPT ![c] = Idle]  BY DEF GiveBack
  <2>2. Moves(c) /\ call'[c] = Idle  BY <1>1, <2>1, CallMoves
  <2> QED  BY <2>2 DEF Idle
<1>3. /\ DOMAIN ret' = Callers /\ \A d \in Callers : ret'[d] = ret[d] \/ ret'[d].spi = NoSpi
  BY <1>1 DEF GiveBack, Shapes, Returned
<1>4. /\ DOMAIN inbox' = Sockets /\ (\A s \in Sockets : IsSeq(inbox'[s])) /\ IsSeq(wire')
      /\ WireInOrder' /\ MainInOrder'
      /\ Len(Main) \in Nat /\ Len(Main') \in Nat
  BY <1>1, AfterTaking
<1>5. PICK o \in {0, 1} : /\ Len(Main') = Len(Main) - o
                          /\ \A j \in 1..Len(Main') : Main'[j] = Main[j + o]
  BY <1>1, AfterTaking
<1>6. \A j \in 1..Len(Main') : j + o \in 1..Len(Main)  BY <1>4, <1>5
<1>7. mutex = c /\ \A d \in Callers \ {c} : ~In(d, {"send", "recv"}) /\ ~In(d, {"recv"})
  BY AloneWithMutex
<1>8. Shapes'
  <2>1. CallShape(c)'  BY <1>2 DEF CallShape
  <2>2. \A d \in Callers : ret'[d].spi \in Spis \union {NoSpi}  BY <1>1, <1>3 DEF Shapes
  <2> QED  BY <1>1, <1>2, <1>3, <1>4, <2>1, <2>2, ShapesAfter DEF Shapes
<1>9. Holder'  BY <1>2, <1>7, SocketAssumption DEF Holder, Moves, In
<1>10. Numbers'  BY <1>1, <1>2 DEF IInv, Numbers, Moves, In, AsksSpi
<1>11. Taken'
  <2>1. ASSUME NEW d \in Callers, In(d, {"parse"})'
        PROVE  d # c /\ call'[d] = call[d] /\ In(d, {"parse"})
    BY <1>2, <2>1 DEF Moves, In
  <2>2. \A j \in 1..Len(Main') : \E k \in 1..Len(Main) : Main'[j] = Main[k]
    BY <1>5, <1>6
  <2>3. ASSUME NEW d \in Callers, In(d, {"parse"})', AsksSpi(d)'
        PROVE  /\ In(d, {"parse"}) /\ AsksSpi(d) /\ call'[d] = call[d]
    BY <2>1, <2>3 DEF AsksSpi
  <2>4. ASSUME NEW d \in Callers, In(d, {"parse"})', AsksSpi(d)', call[d].out.spi # NoSpi
        PROVE  /\ call[d].out.spi \in allocated' \ claimed'
               /\ \A j \in 1..Len(Main') : Main'[j].id # 0 => call[d].out.spi < Main'[j].id
               /\ \A e \in Callers \ {d} :
                    In(e, {"parse"}) /\ AsksSpi(e) => call[e].out.spi # call[d].out.spi
               /\ \/ call[d].out.spi = call[d].id
                  \/ gaveUp' /\ call[d].out.spi < call[d].id
    <3>1. In(d, {"parse"}) /\ AsksSpi(d)  BY <2>3, <2>4
    <3>2. /\ call[d].out.spi \in allocated \ claimed
          /\ \A j \in 1..Len(Main) : Main[j].id # 0 => call[d].out.spi < Main[j].id
          /\ \A e \in Callers \ {d} :
               In(e, {"parse"}) /\ AsksSpi(e) => call[e].out.spi # call[d].out.spi
          /\ \/ call[d].out.spi = call[d].id
             \/ gaveUp /\ call[d].out.spi < call[d].id
      BY <2>4, <3>1 DEF IInv, Taken
    <3>3. \A j \in 1..Len(Main') : Main'[j].id # 0 => call[d].out.spi < Main'[j].id
      BY <2>2, <3>2
    <3> QED  BY <1>1, <3>2, <3>3
  <2>5. \A d \in Callers : In(d, {"parse"})' /\ AsksSpi(d)' => Reads(kind, call'[d].out)
    BY <2>3 DEF IInv, Taken
  <2> QED  BY <2>3, <2>4, <2>5 DEF Taken
<1>12. NothingLeftBehind'
  <2>1. SUFFICES ASSUME ~gaveUp'
                 PROVE  /\ \A i \in 1..Len(wire) : wire[i].id = 0
                        /\ \A i \in 1..Len(Main') : Main'[i].id = 0
    BY DEF NothingLeftBehind
  <2>2. ~gaveUp /\ \A d \in Callers : ~(In(d, {"recv"}) /\ AsksSpi(d))
    BY <1>7, <2>1
  <2>3. /\ \A i \in 1..Len(wire) : wire[i].id = 0
        /\ \A i \in 1..Len(Main) : Main[i].id = 0
    BY <2>2 DEF IInv, NothingLeftBehind
  <2> QED  BY <1>5, <1>6, <2>3
<1>13. OwnReply'  BY <1>3 DEF IInv, OwnReply
<1> QED  BY <1>4, <1>8, <1>9, <1>10, <1>11, <1>12, <1>13 DEF IInv

\* What a request asks for tells the socket it goes to.
LEMMA RequestOf ==
  ASSUME Shapes, NEW c \in Callers, ~In(c, {"idle"})
  PROVE  /\ AsksSpi(c) => call[c].sock = "main" /\ call[c].in = GetSpiMsg(kind)
         /\ ~AsksSpi(c) => call[c].sock = "events" /\ call[c].in.type = "REGISTER"
         /\ call[c].sock \in Sockets /\ call[c].id \in Nat
<1>1. GetSpiMsg(kind).type = "GETSPI"
  BY DEF GetSpiMsg, Pfkey!GetSpiMsg, Netlink!AllocSpiMsg
<1>2. CallShape(c)  BY DEF Shapes
<1>3. call[c] # Idle  BY DEF In, Idle
<1> QED  BY <1>1, <1>2, <1>3 DEF CallShape, AsksSpi, Sockets

LEMMA SendStep ==
  ASSUME IInv, kind' = kind, NEW c \in Callers, Send(c)
  PROVE  IInv'
<1> DEFINE id == IF AsksSpi(c) THEN sent + 1 ELSE 0
           w == [sock |-> call[c].sock, id |-> id, in |-> call[c].in]
<1>1. /\ In(c, {"send"}) /\ id <= MaxRequests /\ wire' = Append(wire, w)
      /\ sent' = (IF id = 0 THEN sent ELSE id)
      /\ call' = [call EXCEPT ![c].pc = "recv", ![c].id = id]
      /\ UNCHANGED <<fd, inbox, allocated, upsets, mutex, ret, claimed, gaveUp>>
  BY DEF Send
<1>2. Shapes /\ ~In(c, {"idle"}) /\ In(c, {"send", "recv"}) /\ call[c].pc = "send"
  BY <1>1 DEF IInv, In
<1>3. /\ mutex = c
      /\ \A d \in Callers \ {c} : ~In(d, {"send", "recv"}) /\ ~In(d, {"recv"})
  BY <1>2, AloneWithMutex
<1>4. /\ sent \in 0..MaxRequests /\ MaxRequests \in Nat
      /\ allocated \subseteq 1..sent /\ claimed \subseteq allocated
  BY SocketAssumption DEF IInv, Numbers
<1>5. \/ /\ AsksSpi(c) /\ call[c].sock = "main" /\ call[c].in = GetSpiMsg(kind)
         /\ id = sent + 1 /\ sent' = id
      \/ ~AsksSpi(c) /\ call[c].sock = "events" /\ id = 0 /\ sent' = sent
  BY <1>1, <1>2, <1>4, RequestOf
<1>6. w.sock = call[c].sock /\ w.id = id /\ w.in = call[c].in  OBVIOUS
<1>7. Moves(c) /\ call'[c] = [pc |-> "recv", sock |-> call[c].sock, in |-> call[c].in, id |-> id]
  <2>1. CallShape(c) /\ call[c] # Idle  BY <1>2 DEF Shapes, In, Idle
  <2>2. call[c] = [pc |-> "send", sock |-> call[c].sock, in |-> call[c].in, id |-> call[c].id]
    BY <1>2, <2>1 DEF CallShape
  <2> HIDE DEF id
  <2>3. DOMAIN call = Callers  BY <1>2 DEF Shapes
  <2>4. Moves(c)  BY <1>1, <2>3 DEF Moves
  <2>5. call'[c] = [[call[c] EXCEPT !.pc = "recv"] EXCEPT !.id = id]  BY <1>1, <2>3
  <2>6. [call[c] EXCEPT !.pc = "recv"]
          = [pc |-> "recv", sock |-> call[c].sock, in |-> call[c].in, id |-> call[c].id]
    BY <2>2
  <2> QED  BY <2>4, <2>5, <2>6
<1> HIDE DEF w, id
<1>8. /\ IsSeq(wire') /\ Len(wire) \in Nat /\ Len(wire') = Len(wire) + 1
      /\ \A i \in 1..Len(wire) : wire'[i] = wire[i]
      /\ wire'[Len(wire) + 1] = w
  <2>1. IsSeq(wire)  BY <1>2 DEF Shapes
  <2> QED  BY <1>1, <2>1, Appended
<1>9. id \in Nat /\ sent' \in 0..MaxRequests /\ sent <= sent'
  BY <1>1, <1>4, <1>5
<1>10. AsksSpi(c)' <=> AsksSpi(c)  BY <1>7 DEF AsksSpi
<1>11. Shapes'
  <2>1. CallShape(c)'  BY <1>5, <1>7, <1>9, <1>2, RequestOf DEF CallShape
  <2> QED  BY <1>1, <1>2, <1>7, <1>8, <2>1, ShapesAfter DEF Shapes
<1>12. Holder'  BY <1>1, <1>3, <1>7 DEF Holder, Moves, In
<1>13. Numbers'
  <2>1. \A d \in Callers : In(d, {"recv"})' => d = c  BY <1>3, <1>7 DEF Moves, In
  <2>2. AsksSpi(c)' => call'[c].id = sent' /\ sent' # 0  BY <1>4, <1>5, <1>7, <1>10
  <2>3. allocated' \subseteq 1..sent' /\ claimed' \subseteq allocated'  BY <1>1, <1>4, <1>9
  <2> QED  BY <1>9, <2>1, <2>2, <2>3 DEF Numbers, In, AsksSpi
<1>14. WireInOrder'
  <2>1. ASSUME NEW i \in 1..Len(wire')
        PROVE  /\ \/ wire'[i].id = 0 /\ wire'[i].sock = "events"
                  \/ wire'[i].id \in 1..sent' /\ wire'[i].sock = "main" /\ wire'[i].in = GetSpiMsg(kind)
               /\ wire'[i].id # 0 =>
                    /\ \A j \in 1..i - 1 : wire'[j].id < wire'[i].id
                    /\ \A j \in 1..Len(Main) : Main[j].id < wire'[i].id
                    /\ \A a \in allocated : a < wire'[i].id
    <3>1. CASE i \in 1..Len(wire)
      <4>1. wire'[i] = wire[i] /\ \A j \in 1..i - 1 : j \in 1..Len(wire) /\ wire'[j] = wire[j]
        BY <1>8, <3>1
      <4>2. /\ \/ wire[i].id = 0 /\ wire[i].sock = "events"
               \/ wire[i].id \in 1..sent /\ wire[i].sock = "main" /\ wire[i].in = GetSpiMsg(kind)
            /\ wire[i].id # 0 =>
                 /\ \A j \in 1..i - 1 : wire[j].id < wire[i].id
                 /\ \A j \in 1..Len(Main) : Main[j].id < wire[i].id
                 /\ \A a \in allocated : a < wire[i].id
        BY <3>1 DEF IInv, WireInOrder
      <4>3. 1..sent \subseteq 1..sent'  BY <1>4, <1>9
      <4> QED  BY <4>1, <4>2, <4>3
    <3>2. CASE i = Len(wire) + 1
      <4>1. wire'[i] = w /\ \A j \in 1..i - 1 : j \in 1..Len(wire) /\ wire'[j] = wire[j]
        BY <1>8, <3>2
      <4>2. \A j \in 1..Len(wire) : wire[j].id \in 0..sent
        BY <1>4 DEF IInv, WireInOrder
      <4>3. \A j \in 1..Len(Main) : Main[j].id \in 0..sent  BY DEF IInv, MainInOrder
      <4>4. \A n \in 0..sent : n < sent + 1  BY <1>4
      <4>5. allocated \subseteq 0..sent  BY <1>4
      <4>6. CASE id = 0
        <5>1. id # sent + 1  BY <1>4, <4>6
        <5>2. wire'[i].id = 0 /\ wire'[i].sock = "events"  BY <1>5, <1>6, <4>1, <4>6, <5>1
        <5> QED  BY <5>2
      <4>7. CASE id # 0
        <5>1. id = sent + 1 /\ sent' = id /\ id \in 1..sent'  BY <1>4, <1>5, <4>7
        <5>2. wire'[i].sock = "main" /\ wire'[i].in = GetSpiMsg(kind) /\ wire'[i].id = sent + 1
          BY <1>5, <1>6, <4>1, <4>7, <5>1
        <5> QED  BY <4>1, <4>2, <4>3, <4>4, <4>5, <5>1, <5>2
      <4> QED  BY <4>6, <4>7
    <3> QED  BY <1>8, <3>1, <3>2
  <2> QED  BY <1>1, <2>1 DEF WireInOrder, Main
<1>15. MainInOrder'
  <2>1. \A n \in 0..sent : n \in 0..sent'  BY <1>4, <1>9
  <2> QED  BY <1>1, <2>1 DEF IInv, MainInOrder, Main
<1>16. Taken'
  <2>1. ASSUME NEW d \in Callers, In(d, {"parse"})'
        PROVE  call'[d] = call[d] /\ In(d, {"parse"}) /\ (AsksSpi(d)' <=> AsksSpi(d))
    BY <1>7, <2>1 DEF Moves, In, AsksSpi
  <2> QED  BY <1>1, <2>1 DEF IInv, Taken, Main
<1>17. NothingLeftBehind'
  <2>1. SUFFICES ASSUME ~gaveUp'
                 PROVE  /\ \A i \in 1..Len(wire') : wire'[i].id # 0 =>
                             In(c, {"recv"})' /\ AsksSpi(c)' /\ wire'[i].id = sent'
                        /\ \A i \in 1..Len(Main) : Main[i].id = 0
    BY <1>1 DEF NothingLeftBehind, Main
  <2>2. ~gaveUp /\ \A d \in Callers : ~In(d, {"recv"})  BY <1>1, <1>2, <1>3, <2>1 DEF In
  <2>3. /\ \A i \in 1..Len(wire) : wire[i].id = 0
        /\ \A i \in 1..Len(Main) : Main[i].id = 0
    BY <2>2 DEF IInv, NothingLeftBehind
  <2>4. \A i \in 1..Len(wire') : wire'[i].id # 0 => wire'[i] = w
    BY <1>8, <2>3
  <2>5. In(c, {"recv"})'  BY <1>7 DEF In
  <2> QED  BY <1>5, <1>6, <1>10, <2>3, <2>4, <2>5
<1>18. OwnReply'  BY <1>1 DEF IInv, OwnReply
<1> QED
  BY <1>11, <1>12, <1>13, <1>14, <1>15, <1>16, <1>17, <1>18 DEF IInv

LEMMA RecvStep ==
  ASSUME IInv, kind' = kind, NEW c \in Callers,
         Recv(c, Verdict(kind, NextMessage(c), call[c].in))
  PROVE  IInv'
<1> DEFINE v == Verdict(kind, NextMessage(c), call[c].in)
           m == NextMessage(c)
<1>1. /\ In(c, {"recv"}) /\ inbox[call[c].sock] # <<>>
      /\ inbox' = [inbox EXCEPT ![call[c].sock] = Tail(@)]
      /\ UNCHANGED <<fd, wire, sent, allocated, upsets>>
      /\ \/ v = "skip" /\ UNCHANGED <<mutex, call, ret, claimed, gaveUp>>
         \/ v = "fail" /\ mutex' = Null /\ GiveBack(c, NoSpi) /\ gaveUp' = (gaveUp \/ AsksSpi(c))
         \/ /\ v = "keep" /\ mutex' = Null
            /\ call' = [call EXCEPT ![c] = [pc |-> "parse", sock |-> call[c].sock,
                                            in |-> call[c].in, id |-> call[c].id, out |-> m]]
            /\ gaveUp' = (gaveUp \/ (AsksSpi(c) /\ m.spi = NoSpi /\ m.id # call[c].id))
            /\ UNCHANGED <<ret, claimed>>
  BY DEF Recv
<1>2. Shapes /\ ~In(c, {"idle"}) /\ In(c, {"send", "recv"}) /\ call[c].pc = "recv"
  BY <1>1 DEF IInv, In
<1>3. /\ AsksSpi(c) => call[c].sock = "main" /\ call[c].in = GetSpiMsg(kind)
      /\ ~AsksSpi(c) => call[c].sock = "events" /\ call[c].in.type = "REGISTER"
      /\ call[c].sock \in Sockets /\ call[c].id \in Nat
  BY <1>2, RequestOf
<1>4. TookFrom(call[c].sock)  BY <1>1 DEF TookFrom
<1>5. /\ mutex = c
      /\ \A d \in Callers \ {c} : ~In(d, {"send", "recv"}) /\ ~In(d, {"recv"})
  BY <1>2, AloneWithMutex
<1> HIDE DEF v, m
<1>6. CASE v = "fail" /\ mutex' = Null /\ GiveBack(c, NoSpi) /\ gaveUp' = (gaveUp \/ AsksSpi(c))
  <2>1. upsets' \in 0..MaxUpsets  BY <1>1, <1>2 DEF Shapes
  <2> QED  BY <1>1, <1>2, <1>3, <1>4, <1>6, <2>1, CallFails
<1>7. CASE claimed' = claimed /\ ret' = ret /\ v # "fail"
  <2>1. /\ DOMAIN inbox' = Sockets /\ (\A s \in Sockets : IsSeq(inbox'[s])) /\ IsSeq(wire')
        /\ Len(Main) \in Nat /\ Len(Main') \in Nat
        /\ WireInOrder' /\ MainInOrder'
    BY <1>1, <1>3, <1>4, <1>7, AfterTaking
  <2>2. PICK o \in {0, 1} : /\ Len(Main') = Len(Main) - o
                            /\ \A j \in 1..Len(Main') : Main'[j] = Main[j + o]
                            /\ TookFrom("main") => o = 1
    BY <1>1, <1>3, <1>4, <1>7, AfterTaking
  <2>3. \A j \in 1..Len(Main') : j + o \in 1..Len(Main)  BY <2>1, <2>2
  <2>4. OwnReply'
    <3>1. CASE gaveUp' = gaveUp  BY <1>7 DEF IInv, OwnReply
    <3> QED  BY <1>7 DEF IInv, OwnReply
  <2>5. CASE v = "skip"
    <3>1. UNCHANGED <<mutex, call, ret, claimed, gaveUp>>  BY <1>1, <2>5
    <3>2. Moves(c) /\ CallShape(c)'  BY <1>2, <3>1 DEF Shapes, Moves, CallShape
    <3>3. Shapes'  BY <1>1, <1>2, <2>1, <3>1, <3>2, ShapesAfter DEF Shapes
    <3>4. Holder' /\ Numbers'  BY <1>1, <3>1 DEF IInv, Holder, Numbers, In, AsksSpi
    <3>5. Taken'
      <4>1. \A j \in 1..Len(Main') : \E i \in 1..Len(Main) : Main'[j] = Main[i]
        BY <2>2, <2>3
      <4> QED  BY <1>1, <3>1, <4>1 DEF IInv, Taken, In, AsksSpi
    <3>6. NothingLeftBehind'
      BY <1>1, <2>2, <2>3, <3>1 DEF IInv, NothingLeftBehind, In, AsksSpi
    <3> QED  BY <2>1, <2>4, <3>3, <3>4, <3>5, <3>6 DEF IInv
  <2>6. CASE v = "keep"
    <3>1. /\ mutex' = Null
          /\ call' = [call EXCEPT ![c] = [pc |-> "parse", sock |-> call[c].sock,
                                          in |-> call[c].in, id |-> call[c].id, out |-> m]]
          /\ gaveUp' = (gaveUp \/ (AsksSpi(c) /\ m.spi = NoSpi /\ m.id # call[c].id))
      BY <1>1, <2>6
    <3>2. Moves(c) /\ call'[c] = [pc |-> "parse", sock |-> call[c].sock,
                                  in |-> call[c].in, id |-> call[c].id, out |-> m]
      BY <1>2, <3>1, CallMoves
    <3>3. CallShape(c)'  BY <1>2, <1>3, <3>2 DEF CallShape, Shapes, AsksSpi
    <3>4. Shapes'  BY <1>1, <1>2, <1>7, <2>1, <3>2, <3>3, ShapesAfter DEF Shapes
    <3>5. Holder'  BY <1>5, <3>1, <3>2, SocketAssumption DEF Holder, Moves, In
    <3>6. Numbers'
      <4>1. \A d \in Callers : ~In(d, {"recv"})'  BY <1>5, <3>2 DEF Moves, In
      <4> QED  BY <1>1, <1>7, <4>1 DEF IInv, Numbers
    <3>7. AsksSpi(c) => /\ o = 1 /\ Len(Main) \in Nat \ {0} /\ m = Main[1] /\ Kept(kind, m)
                        /\ call[c].id = sent /\ sent # 0
      <4>1. SUFFICES ASSUME AsksSpi(c)
                     PROVE  /\ o = 1 /\ Len(Main) \in Nat \ {0} /\ m = Main[1] /\ Kept(kind, m)
                            /\ call[c].id = sent /\ sent # 0
        OBVIOUS
      <4>2. o = 1 /\ Main # <<>>  BY <1>3, <1>4, <2>2, <4>1 DEF TookFrom, Main
      <4>3. IsSeq(Main)  BY <1>2 DEF Shapes, Main, Sockets
      <4>4. m = Main[1] /\ Len(Main) \in Nat \ {0}
        BY <1>3, <4>1, <4>2, <4>3, Shortened DEF m, NextMessage, Main
      <4>5. Kept(kind, m)
        <5>1. Verdict(kind, m, GetSpiMsg(kind)) = "keep"
          BY <1>3, <2>6, <4>1 DEF v, m
        <5> QED  BY <1>2, <5>1, KeptIfVerdict DEF Shapes
      <4>6. call[c].id = sent /\ sent # 0  BY <1>1, <4>1 DEF IInv, Numbers
      <4> QED  BY <4>2, <4>4, <4>5, <4>6
    <3>8. AsksSpi(c) =>
            /\ Reads(kind, m) /\ m.id \in 0..sent
            /\ m.spi # NoSpi => m.spi = m.id /\ m.spi \in allocated \ claimed
            /\ \A j \in 1..Len(Main') : Main'[j].id # 0 => m.id < Main'[j].id
      <4>1. SUFFICES ASSUME AsksSpi(c)
                     PROVE  /\ Reads(kind, m) /\ m.id \in 0..sent
                            /\ m.spi # NoSpi => m.spi = m.id /\ m.spi \in allocated \ claimed
                            /\ \A j \in 1..Len(Main') : Main'[j].id # 0 => m.id < Main'[j].id
        OBVIOUS
      <4>2. 1 \in 1..Len(Main)  BY <3>7, <4>1
      <4>3. /\ Reads(kind, m) /\ m.id \in 0..sent
            /\ m.spi # NoSpi => m.spi = m.id /\ m.spi \in allocated \ claimed
        BY <3>7, <4>1, <4>2 DEF IInv, MainInOrder, Reads
      <4>4. ASSUME NEW j \in 1..Len(Main'), Main'[j].id # 0 PROVE m.id < Main'[j].id
        <5>1. Main'[j] = Main[j + 1] /\ j + 1 \in 1..Len(Main) /\ 1 \in 1..(j + 1) - 1
          BY <2>1, <2>2, <2>3, <3>7, <4>1
        <5> QED  BY <3>7, <4>1, <4>4, <5>1 DEF IInv, MainInOrder
      <4> QED  BY <4>3, <4>4
    <3>9. Taken'
      <4>1. \A j \in 1..Len(Main') : \E i \in 1..Len(Main) : Main'[j] = Main[i]
        BY <2>2, <2>3
      <4>2. \A d \in Callers \ {c} : call'[d] = call[d]  BY <3>2 DEF Moves
      <4>3. call'[c].out = m /\ call'[c].id = call[c].id /\ call'[c].in = call[c].in
            /\ call'[c].pc = "parse"
        BY <3>2
      <4>4. sent \in Nat  BY SocketAssumption DEF IInv, Numbers
      <4>5. AsksSpi(c) /\ m.spi # NoSpi =>
              \A d \in Callers \ {c} :
                call[d].pc = "parse" /\ call[d].in.type = "GETSPI" => call[d].out.spi # m.spi
        <5>1. SUFFICES ASSUME AsksSpi(c), m.spi # NoSpi, NEW d \in Callers \ {c},
                              call[d].pc = "parse", call[d].in.type = "GETSPI",
                              call[d].out.spi = m.spi
                       PROVE  FALSE
          OBVIOUS
        <5>2. 1 \in 1..Len(Main) /\ Main[1].id # 0 /\ Main[1].id = m.spi /\ m.spi \in Nat
          BY <3>7, <3>8, <4>4, <5>1 DEF NoSpi
        <5>3. call[d].out.spi < Main[1].id
          BY <5>1, <5>2 DEF IInv, Taken, In, AsksSpi
        <5> QED  BY <5>1, <5>2, <5>3
      <4>6. AsksSpi(c) /\ m.spi # NoSpi =>
              m.spi = call[c].id \/ (gaveUp' /\ m.spi < call[c].id)
        <5>1. SUFFICES ASSUME AsksSpi(c), m.spi # NoSpi, m.spi # call[c].id
                       PROVE  gaveUp' /\ m.spi < call[c].id
          OBVIOUS
        <5>2. 1 \in 1..Len(Main) /\ Main[1].id # 0 /\ Main[1].id # sent
              /\ m.spi \in 0..sent /\ call[c].id = sent
          BY <3>7, <3>8, <4>4, <5>1 DEF NoSpi
        <5>3. gaveUp  BY <5>2 DEF IInv, NothingLeftBehind
        <5>4. gaveUp'  BY <3>1, <5>3
        <5>5. m.spi < call[c].id  BY <4>4, <5>1, <5>2
        <5> QED  BY <5>4, <5>5
      <4>7. ASSUME NEW d \in Callers \ {c}, call[d].pc = "parse", call[d].in.type = "GETSPI"
            PROVE  LET r == call[d].out
                   IN  /\ Reads(kind, r)
                       /\ r.spi # NoSpi =>
                            /\ r.spi \in allocated \ claimed
                            /\ \A j \in 1..Len(Main') : Main'[j].id # 0 => r.spi < Main'[j].id
                            /\ \A e \in Callers \ {d} :
                                 call'[e].pc = "parse" /\ call'[e].in.type = "GETSPI" =>
                                   call'[e].out.spi # r.spi
                            /\ r.spi = call[d].id \/ (gaveUp' /\ r.spi < call[d].id)
        <5>1. /\ Reads(kind, call[d].out)
              /\ call[d].out.spi # NoSpi =>
                   /\ call[d].out.spi \in allocated \ claimed
                   /\ \A j \in 1..Len(Main) : Main[j].id # 0 => call[d].out.spi < Main[j].id
                   /\ \A e \in Callers \ {d} :
                        call[e].pc = "parse" /\ call[e].in.type = "GETSPI" =>
                          call[e].out.spi # call[d].out.spi
                   /\ call[d].out.spi = call[d].id \/ (gaveUp /\ call[d].out.spi < call[d].id)
          BY <4>7 DEF IInv, Taken, In, AsksSpi
        <5>2. \A j \in 1..Len(Main') : call[d].out.spi # NoSpi /\ Main'[j].id # 0 =>
                call[d].out.spi < Main'[j].id
          BY <4>1, <5>1
        <5>3. ASSUME call[d].out.spi # NoSpi, AsksSpi(c) PROVE m.spi # call[d].out.spi
          BY <4>5, <4>7, <5>3
        <5> QED  BY <3>1, <4>2, <4>3, <5>1, <5>2, <5>3 DEF AsksSpi
      <4>8. AsksSpi(c) =>
              /\ Reads(kind, m)
              /\ m.spi # NoSpi =>
                   /\ m.spi \in allocated \ claimed
                   /\ \A j \in 1..Len(Main') : Main'[j].id # 0 => m.spi < Main'[j].id
                   /\ \A e \in Callers \ {c} :
                        call'[e].pc = "parse" /\ call'[e].in.type = "GETSPI" =>
                          call'[e].out.spi # m.spi
                   /\ m.spi = call[c].id \/ (gaveUp' /\ m.spi < call[c].id)
        BY <3>8, <4>2, <4>5, <4>6
      <4> QED
        BY <1>1, <1>7, <4>2, <4>3, <4>7, <4>8 DEF Taken, In, AsksSpi
    <3>10. NothingLeftBehind'
      <4>1. SUFFICES ASSUME ~gaveUp'
                     PROVE  /\ \A i \in 1..Len(wire) : wire[i].id = 0
                            /\ \A i \in 1..Len(Main') : Main'[i].id = 0
        BY <1>1 DEF NothingLeftBehind
      <4>2. ~gaveUp  BY <3>1, <4>1
      <4>3. CASE ~AsksSpi(c)
        <5>1. \A d \in Callers : ~(In(d, {"recv"}) /\ AsksSpi(d))  BY <1>5, <4>3
        <5> QED  BY <2>2, <2>3, <4>2, <5>1 DEF IInv, NothingLeftBehind
      <4>4. CASE AsksSpi(c)
        <5>1. 1 \in 1..Len(Main) /\ m = Main[1]  BY <3>7, <4>4
        <5>2. m.id = sent
          <6>1. CASE m.spi = NoSpi  BY <3>1, <3>7, <4>1, <4>4, <6>1
          <6>2. CASE m.spi # NoSpi
            <7>1. Main[1].id # 0  BY <3>8, <4>4, <5>1, <6>2 DEF NoSpi
            <7> QED  BY <4>2, <5>1, <7>1 DEF IInv, NothingLeftBehind
          <6> QED  BY <6>1, <6>2
        <5>3. sent \in Nat /\ sent # 0 /\ Main[1].id = sent
          BY <3>7, <4>4, <5>1, <5>2, SocketAssumption DEF IInv, Numbers
        <5>4. \A i \in 1..Len(wire) : wire[i].id # 0 => wire[i].id = sent /\ Main[1].id < wire[i].id
          BY <4>2, <5>1 DEF IInv, NothingLeftBehind, WireInOrder
        <5>5. \A i \in 1..Len(Main') : Main'[i].id # 0 => Main'[i].id = sent /\ sent < Main'[i].id
          BY <2>2, <2>3, <3>8, <4>2, <4>4, <5>2 DEF IInv, NothingLeftBehind
        <5> QED  BY <5>3, <5>4, <5>5
      <4> QED  BY <4>3, <4>4
    <3> QED  BY <2>1, <2>4, <3>4, <3>5, <3>6, <3>9, <3>10 DEF IInv
  <2> QED  BY <1>1, <1>7, <2>5, <2>6
<1> QED  BY <1>1, <1>6, <1>7
-----------------------------------------------------------------------------
(* The end of getSpi. *)

\* An SPI that is given back is given to nobody else.
LEMMA ParseStep ==
  ASSUME IInv, kind' = kind, NEW c \in Callers, Parse(c, ReceivedSpis(kind, call[c].out))
  PROVE  IInv'
<1> DEFINE m == call[c].out
<1>1. /\ In(c, {"parse"}) /\ AsksSpi(c)
      /\ UNCHANGED <<fd, inbox, wire, sent, allocated, upsets, mutex, gaveUp>>
  BY DEF Parse
<1>2. PICK spi \in ReceivedSpis(kind, m) : GiveBack(c, spi)  BY DEF Parse
<1>3. Shapes /\ call[c].pc = "parse" /\ Reads(kind, m) /\ spi \in {m.spi, NoSpi}
  BY <1>1, <1>2 DEF IInv, Taken, In, Reads
<1>4. Moves(c) /\ call'[c] = Idle /\ call'[c].pc = "idle"
  <2>1. call' = [call EXCEPT ![c] = Idle]  BY <1>2 DEF GiveBack
  <2>2. Moves(c) /\ call'[c] = Idle  BY <1>3, <2>1, CallMoves
  <2> QED  BY <2>2 DEF Idle
<1>5. /\ DOMAIN ret' = Callers /\ ret'[c] = Returned(call[c].id, spi, gaveUp)
      /\ \A d \in Callers \ {c} : ret'[d] = ret[d]
  BY <1>1, <1>2, <1>3 DEF GiveBack, Shapes
<1>6. claimed' = claimed \union ({spi} \ {NoSpi})  BY <1>2 DEF GiveBack
<1>7. spi # NoSpi =>
        /\ spi = m.spi /\ spi \in allocated \ claimed
        /\ \A j \in 1..Len(Main) : Main[j].id # 0 => spi < Main[j].id
        /\ \A d \in Callers \ {c} :
             call[d].pc = "parse" /\ call[d].in.type = "GETSPI" => call[d].out.spi # spi
        /\ spi = call[c].id \/ (gaveUp /\ spi < call[c].id)
  BY <1>1, <1>3 DEF IInv, Taken, In, AsksSpi
<1>8. /\ sent \in 0..MaxRequests /\ MaxRequests \in Nat
      /\ claimed \subseteq allocated
      /\ \A a \in allocated : a \in Nat /\ a \in 1..MaxRequests
  <2>1. sent \in 0..MaxRequests /\ MaxRequests \in Nat /\ claimed \subseteq allocated
        /\ allocated \subseteq 1..sent
    BY SocketAssumption DEF IInv, Numbers
  <2>2. \A a \in 1..sent : a \in Nat /\ a \in 1..MaxRequests  BY <2>1
  <2> QED  BY <2>1, <2>2
<1> HIDE DEF m
<1>9. Shapes'
  <2>1. CallShape(c)'  BY <1>4 DEF CallShape
  <2>2. spi \in Spis \union {NoSpi}  BY <1>7, <1>8 DEF Spis
  <2>3. \A d \in Callers : ret'[d].spi \in Spis \union {NoSpi}
    BY <1>3, <1>5, <2>2 DEF Shapes, Returned
  <2> QED  BY <1>1, <1>3, <1>4, <1>5, <2>1, <2>3, ShapesAfter DEF Shapes
<1>10. Holder'  BY <1>1, <1>3, <1>4 DEF IInv, Holder, Moves, In
<1>11. Numbers'
  <2>1. claimed' \subseteq allocated  BY <1>6, <1>7, <1>8
  <2>2. ASSUME NEW d \in Callers, In(d, {"recv"})'
        PROVE  call'[d] = call[d] /\ In(d, {"recv"}) /\ (AsksSpi(d)' <=> AsksSpi(d))
    BY <1>4, <2>2 DEF Moves, In, AsksSpi
  <2> QED  BY <1>1, <2>1, <2>2 DEF IInv, Numbers
<1>12. WireInOrder'  BY <1>1 DEF IInv, WireInOrder, Main
<1>13. MainInOrder'
  <2>1. ASSUME NEW i \in 1..Len(Main), Kept(kind, Main[i]), Main[i].spi # NoSpi
        PROVE  Main[i].spi \in allocated \ claimed'
    <3>1. Main[i].spi = Main[i].id /\ Main[i].spi \in allocated \ claimed /\ Main[i].id # 0
      BY <2>1 DEF IInv, MainInOrder, Reads, NoSpi
    <3>2. Main[i].spi # spi \/ spi = NoSpi
      <4>1. SUFFICES ASSUME spi # NoSpi, Main[i].spi = spi PROVE FALSE  OBVIOUS
      <4>2. spi < Main[i].id /\ Main[i].id = spi /\ spi \in Nat  BY <1>7, <1>8, <3>1, <4>1
      <4> QED  BY <4>2
    <3> QED  BY <1>6, <2>1, <3>1, <3>2
  <2> QED  BY <1>1, <2>1 DEF IInv, MainInOrder, Main
<1>14. Taken'
  <2>1. ASSUME NEW d \in Callers, In(d, {"parse"})'
        PROVE  d # c /\ call'[d] = call[d] /\ In(d, {"parse"}) /\ (AsksSpi(d)' <=> AsksSpi(d))
    BY <1>4, <2>1 DEF Moves, In, AsksSpi
  <2>2. ASSUME NEW d \in Callers, d # c, In(d, {"parse"}), AsksSpi(d),
               call[d].out.spi # NoSpi
        PROVE  call[d].out.spi \in allocated \ claimed'
    <3>1. call[d].out.spi \in allocated \ claimed  BY <2>2 DEF IInv, Taken
    <3>2. spi # NoSpi => call[d].out.spi # spi  BY <1>7, <2>2 DEF In, AsksSpi
    <3> QED  BY <1>6, <3>1, <3>2
  <2> QED  BY <1>1, <2>1, <2>2 DEF IInv, Taken, Main
<1>15. NothingLeftBehind'
  <2>1. ASSUME NEW d \in Callers, In(d, {"recv"}), AsksSpi(d)
        PROVE  In(d, {"recv"})' /\ AsksSpi(d)'
    BY <1>3, <1>4, <2>1 DEF Moves, In, AsksSpi
  <2> QED  BY <1>1, <2>1 DEF IInv, NothingLeftBehind, Main
<1>16. OwnReply'
  <2>1. ret'[c].spi = spi /\ ret'[c].id = call[c].id /\ ret'[c].late = gaveUp
    BY <1>5 DEF Returned
  <2>2. spi # NoSpi => (ret'[c].spi = ret'[c].id
                         \/ (ret'[c].late /\ ret'[c].spi < ret'[c].id))
    BY <1>7, <2>1
  <2> QED  BY <1>5, <2>1, <2>2 DEF IInv, OwnReply
<1> QED
  BY <1>9, <1>10, <1>11, <1>12, <1>13, <1>14, <1>15, <1>16 DEF IInv
-----------------------------------------------------------------------------
(* The kernel and the destructor, which leave the calls alone. *)

LEMMA NoCallMoves ==
  ASSUME IInv, kind' = kind, UNCHANGED <<call, mutex, ret, fd, claimed, sent, gaveUp>>,
         upsets' \in 0..MaxUpsets,
         DOMAIN inbox' = Sockets, \A s \in Sockets : IsSeq(inbox'[s]), IsSeq(wire'),
         allocated' \subseteq 1..sent, allocated \subseteq allocated'
  PROVE  Shapes' /\ Holder' /\ Numbers' /\ OwnReply'
<1>1. \A c \in Callers : CallShape(c)'  BY DEF IInv, Shapes, CallShape
<1>2. Shapes'  BY <1>1 DEF IInv, Shapes
<1>3. Holder' /\ OwnReply'  BY DEF IInv, Holder, In, OwnReply
<1>4. Numbers'  BY DEF IInv, Numbers, In, AsksSpi
<1> QED  BY <1>2, <1>3, <1>4

LEMMA AnswerStep ==
  ASSUME IInv, kind' = kind, KernelAnswers(Answers(kind, Head(wire)))
  PROVE  IInv'
<1> DEFINE w == Head(wire)
<1>1. wire # <<>> /\ wire' = Tail(wire)
      /\ UNCHANGED <<fd, sent, upsets, mutex, call, ret, claimed, gaveUp>>
  BY DEF KernelAnswers
<1>2. PICK a \in Answers(kind, w) :
        /\ inbox' = [inbox EXCEPT ![w.sock] = Append(@, a)]
        /\ allocated' = allocated \union ({a.spi} \ {NoSpi})
  BY DEF KernelAnswers
<1> HIDE DEF w
<1>3. /\ kind \in {"pfkey", "netlink"} /\ DOMAIN inbox = Sockets
      /\ (\A s \in Sockets : IsSeq(inbox[s])) /\ IsSeq(wire) /\ IsSeq(Main)
      /\ upsets' \in 0..MaxUpsets
  BY <1>1 DEF IInv, Shapes, Main, Sockets
<1>4. /\ IsSeq(wire') /\ Len(wire) \in Nat \ {0} /\ Len(wire') = Len(wire) - 1
      /\ \A i \in 1..Len(wire') : wire'[i] = wire[i + 1]
      /\ w = wire[1]
  BY <1>1, <1>3, Shortened DEF w
<1>5. /\ 1 \in 1..Len(wire)
      /\ \A i \in 1..Len(wire') :
           /\ i + 1 \in 1..Len(wire) /\ 1 \in 1..(i + 1) - 1
           /\ \A j \in 1..i - 1 : j + 1 \in 1..(i + 1) - 1 /\ wire'[j] = wire[j + 1]
  BY <1>4
<1>6. /\ sent \in Nat /\ allocated \subseteq 1..sent /\ claimed \subseteq allocated
  BY SocketAssumption DEF IInv, Numbers
<1>7. CASE w.id = 0
  <2>1. w.sock = "events"  BY <1>4, <1>5, <1>7 DEF IInv, WireInOrder
  <2>2. allocated' = allocated
    BY <1>2, <1>3, <1>7, AnswerOfRegistration
  <2>3. DOMAIN inbox' = Sockets /\ Main' = Main /\ \A s \in Sockets : IsSeq(inbox'[s])
    <3>1. IsSeq(Append(inbox["events"], a))  BY <1>3, Appended DEF Sockets
    <3> QED  BY <1>2, <1>3, <2>1, <3>1 DEF Sockets, Main
  <2>4. Shapes' /\ Holder' /\ Numbers' /\ OwnReply'
    BY <1>1, <1>3, <1>4, <1>6, <2>2, <2>3, NoCallMoves
  <2>5. WireInOrder'
    BY <1>1, <1>4, <1>5, <2>2, <2>3 DEF IInv, WireInOrder
  <2>6. MainInOrder' /\ Taken'
    BY <1>1, <2>2, <2>3 DEF IInv, MainInOrder, Taken, In, AsksSpi
  <2>7. NothingLeftBehind'
    BY <1>1, <1>4, <1>5, <2>3 DEF IInv, NothingLeftBehind, In, AsksSpi
  <2> QED  BY <2>4, <2>5, <2>6, <2>7 DEF IInv
<1>8. CASE w.id # 0
  <2>1. /\ w.sock = "main" /\ w.in = GetSpiMsg(kind) /\ w.id \in 1..sent
        /\ \A j \in 1..Len(Main) : Main[j].id < w.id
        /\ \A n \in allocated : n < w.id
    BY <1>4, <1>5, <1>8 DEF IInv, WireInOrder
  <2>2. a.id = w.id /\ Reads(kind, a) /\ a.spi \in {NoSpi, w.id} /\ w.id \in Nat \ {0}
    <3>1. w.id \in Nat \ {0}  BY <1>6, <2>1
    <3>2. a.id = w.id /\ Reads(kind, a)  BY <1>2, <1>3, <2>1, <3>1, AnswerRead
    <3> QED  BY <3>1, <3>2 DEF Reads
  <2>3. /\ IsSeq(Append(Main, a)) /\ Len(Main) \in Nat /\ Len(Append(Main, a)) = Len(Main) + 1
        /\ \A i \in 1..Len(Main) : Append(Main, a)[i] = Main[i]
        /\ Append(Main, a)[Len(Main) + 1] = a
    BY <1>3, Appended
  <2>4. DOMAIN inbox' = Sockets /\ Main' = Append(Main, a) /\ inbox'["events"] = inbox["events"]
    BY <1>2, <1>3, <2>1 DEF Sockets, Main
  <2>5. \A s \in Sockets : IsSeq(inbox'[s])
    BY <1>3, <2>3, <2>4 DEF Sockets, Main
  <2>6. allocated' \subseteq 1..sent /\ allocated \subseteq allocated'
        /\ allocated' \subseteq allocated \union {w.id}
        /\ w.id \notin allocated
    <3>1. w.id \notin allocated
      <4>1. \A n \in Nat : ~(n < n)  OBVIOUS
      <4> QED  BY <2>1, <2>2, <4>1
    <3>2. allocated' = allocated \/ allocated' = allocated \union {w.id}
      BY <1>2, <2>2
    <3> QED  BY <1>6, <2>1, <3>1, <3>2
  <2>7. Shapes' /\ Holder' /\ Numbers' /\ OwnReply'
    BY <1>1, <1>3, <1>4, <2>4, <2>5, <2>6, NoCallMoves
  <2>8. /\ Len(Main') = Len(Main) + 1
        /\ \A i \in 1..Len(Main) : Main'[i] = Main[i]
        /\ Main'[Len(Main) + 1] = a
        /\ \A i \in 1..Len(Main') : i \in 1..Len(Main) \/ i = Len(Main) + 1
    BY <2>3, <2>4
  <2>9. WireInOrder'
    <3>1. ASSUME NEW i \in 1..Len(wire'), wire'[i].id # 0
          PROVE  /\ \A j \in 1..i - 1 : wire'[j].id < wire'[i].id
                 /\ \A j \in 1..Len(Main') : Main'[j].id < wire'[i].id
                 /\ \A n \in allocated' : n < wire'[i].id
      <4>1. wire'[i] = wire[i + 1]  BY <1>4
      <4>2. /\ \A j \in 1..(i + 1) - 1 : wire[j].id < wire[i + 1].id
            /\ \A j \in 1..Len(Main) : Main[j].id < wire[i + 1].id
            /\ \A n \in allocated : n < wire[i + 1].id
        BY <1>5, <3>1, <4>1 DEF IInv, WireInOrder
      <4>3. w.id < wire[i + 1].id  BY <1>4, <1>5, <4>2
      <4>4. \A j \in 1..i - 1 : wire'[j].id < wire'[i].id  BY <1>5, <4>1, <4>2
      <4>5. \A j \in 1..Len(Main') : Main'[j].id < wire'[i].id
        BY <2>2, <2>8, <4>1, <4>2, <4>3
      <4>6. \A n \in allocated' : n < wire'[i].id  BY <2>6, <4>1, <4>2, <4>3
      <4> QED  BY <4>4, <4>5, <4>6
    <3>2. \A i \in 1..Len(wire') :
            \/ wire'[i].id = 0 /\ wire'[i].sock = "events"
            \/ wire'[i].id \in 1..sent /\ wire'[i].sock = "main" /\ wire'[i].in = GetSpiMsg(kind)
      BY <1>4, <1>5 DEF IInv, WireInOrder
    <3> QED  BY <1>1, <3>1, <3>2 DEF WireInOrder
  <2>10. MainInOrder'
    <3>1. ASSUME NEW i \in 1..Len(Main')
          PROVE  /\ Main'[i].id \in 0..sent
                 /\ Main'[i].id # 0 => \A j \in 1..i - 1 : Main'[j].id < Main'[i].id
                 /\ Kept(kind, Main'[i]) =>
                      /\ Reads(kind, Main'[i])
                      /\ Main'[i].spi # NoSpi => Main'[i].spi \in allocated' \ claimed
      <4>1. CASE i \in 1..Len(Main)
        <5>1. Main'[i] = Main[i] /\ \A j \in 1..i - 1 : Main'[j] = Main[j]
          BY <2>3, <2>8, <4>1
        <5> QED  BY <2>6, <4>1, <5>1 DEF IInv, MainInOrder
      <4>2. CASE i = Len(Main) + 1
        <5>1. Main'[i] = a /\ \A j \in 1..i - 1 : j \in 1..Len(Main) /\ Main'[j] = Main[j]
          BY <2>3, <2>8, <4>2
        <5>2. a.id \in 0..sent  BY <1>6, <2>1, <2>2
        <5>3. a.spi # NoSpi => a.spi \in allocated' \ claimed
          BY <1>2, <1>6, <2>2, <2>6
        <5> QED  BY <2>1, <2>2, <5>1, <5>2, <5>3
      <4> QED  BY <2>8, <4>1, <4>2
    <3> QED  BY <1>1, <3>1 DEF MainInOrder
  <2>11. Taken'
    <3>1. ASSUME NEW n \in allocated, NEW j \in 1..Len(Main'),
                 \A i \in 1..Len(Main) : Main[i].id # 0 => n < Main[i].id,
                 Main'[j].id # 0
          PROVE  n < Main'[j].id
      BY <2>1, <2>2, <2>8, <3>1
    <3> QED  BY <1>1, <2>6, <3>1 DEF IInv, Taken, In, AsksSpi
  <2>12. NothingLeftBehind'
    <3>1. SUFFICES ASSUME ~gaveUp
                   PROVE  /\ \A i \in 1..Len(wire') : wire'[i].id # 0 =>
                               \E c \in Callers : In(c, {"recv"}) /\ AsksSpi(c) /\ wire'[i].id = sent
                          /\ \A i \in 1..Len(Main') : Main'[i].id # 0 =>
                               \E c \in Callers : In(c, {"recv"}) /\ AsksSpi(c) /\ Main'[i].id = sent
      BY <1>1 DEF NothingLeftBehind, In, AsksSpi
    <3>2. \E c \in Callers : In(c, {"recv"}) /\ AsksSpi(c) /\ w.id = sent
      BY <1>4, <1>5, <1>8, <3>1 DEF IInv, NothingLeftBehind
    <3>3. \A i \in 1..Len(wire') : wire'[i].id # 0 =>
            \E c \in Callers : In(c, {"recv"}) /\ AsksSpi(c) /\ wire'[i].id = sent
      BY <1>4, <1>5, <3>1 DEF IInv, NothingLeftBehind
    <3> QED  BY <2>2, <2>8, <3>1, <3>2, <3>3 DEF IInv, NothingLeftBehind
  <2> QED  BY <2>7, <2>9, <2>10, <2>11, <2>12 DEF IInv
<1> QED  BY <1>7, <1>8

LEMMA StrayStep ==
  ASSUME IInv, kind' = kind, KernelTells([s \in Sockets |-> Strays(kind, s)])
  PROVE  IInv'
<1>1. /\ upsets < MaxUpsets /\ upsets' = upsets + 1
      /\ UNCHANGED <<fd, wire, sent, allocated, mutex, call, ret, claimed, gaveUp>>
  BY DEF KernelTells
<1>0. PICK s \in Sockets :
        \E m \in Strays(kind, s) : inbox' = [inbox EXCEPT ![s] = Append(@, m)]
  BY DEF KernelTells
<1>2. PICK m \in Strays(kind, s) : inbox' = [inbox EXCEPT ![s] = Append(@, m)]
  BY <1>0
<1>3. /\ kind \in {"pfkey", "netlink"} /\ DOMAIN inbox = Sockets
      /\ (\A t \in Sockets : IsSeq(inbox[t])) /\ IsSeq(wire)
      /\ upsets' \in 0..MaxUpsets
  BY <1>1, SocketAssumption DEF IInv, Shapes
<1>4. /\ IsSeq(Append(inbox[s], m)) /\ Len(inbox[s]) \in Nat
      /\ Len(Append(inbox[s], m)) = Len(inbox[s]) + 1
      /\ \A i \in 1..Len(inbox[s]) : Append(inbox[s], m)[i] = inbox[s][i]
      /\ Append(inbox[s], m)[Len(inbox[s]) + 1] = m
  BY <1>3, Appended
<1>5. DOMAIN inbox' = Sockets /\ (\A t \in Sockets : IsSeq(inbox'[t]))
      /\ inbox'[s] = Append(inbox[s], m) /\ \A t \in Sockets \ {s} : inbox'[t] = inbox[t]
  BY <1>2, <1>3, <1>4
<1>6. Shapes' /\ Holder' /\ Numbers' /\ OwnReply'
  BY <1>1, <1>3, <1>5, NoCallMoves DEF IInv, Numbers
<1>7. CASE s # "main"
  <2>1. Main' = Main  BY <1>5, <1>7 DEF Main, Sockets
  <2>2. WireInOrder' /\ MainInOrder' /\ Taken' /\ NothingLeftBehind'
    BY <1>1, <2>1
    DEF IInv, WireInOrder, MainInOrder, Taken, NothingLeftBehind, In, AsksSpi
  <2> QED  BY <1>6, <2>2 DEF IInv
<1>8. CASE s = "main"
  <2>1. m.id = 0 /\ (Kept(kind, m) => m.spi = NoSpi /\ Reads(kind, m))
    BY <1>3, <1>8, StrayUnread
  <2>2. /\ Len(Main) \in Nat /\ Len(Main') = Len(Main) + 1
        /\ \A i \in 1..Len(Main) : Main'[i] = Main[i]
        /\ Main'[Len(Main) + 1] = m
        /\ \A i \in 1..Len(Main') : i \in 1..Len(Main) \/ i = Len(Main) + 1
    BY <1>4, <1>5, <1>8 DEF Main
  <2>3. WireInOrder'
    <3>1. ASSUME NEW i \in 1..Len(wire), wire[i].id # 0, NEW j \in 1..Len(Main')
          PROVE  Main'[j].id < wire[i].id
      <4>1. wire[i].id \in 1..sent /\ sent \in Nat
        BY <3>1, SocketAssumption DEF IInv, WireInOrder, Numbers
      <4>2. 0 < wire[i].id  BY <4>1
      <4> QED  BY <2>1, <2>2, <3>1, <4>2 DEF IInv, WireInOrder
    <3> QED  BY <1>1, <3>1 DEF IInv, WireInOrder
  <2>4. MainInOrder'
    <3>1. ASSUME NEW i \in 1..Len(Main')
          PROVE  /\ Main'[i].id \in 0..sent
                 /\ Main'[i].id # 0 => \A j \in 1..i - 1 : Main'[j].id < Main'[i].id
                 /\ Kept(kind, Main'[i]) =>
                      /\ Reads(kind, Main'[i])
                      /\ Main'[i].spi # NoSpi => Main'[i].spi \in allocated \ claimed
      <4>1. CASE i \in 1..Len(Main)
        <5>1. Main'[i] = Main[i] /\ \A j \in 1..i - 1 : Main'[j] = Main[j]
          BY <2>2, <4>1
        <5> QED  BY <4>1, <5>1 DEF IInv, MainInOrder
      <4>2. CASE i = Len(Main) + 1
        <5>1. sent \in Nat  BY SocketAssumption DEF IInv, Numbers
        <5> QED  BY <2>1, <2>2, <4>2, <5>1
      <4> QED  BY <2>2, <4>1, <4>2
    <3> QED  BY <1>1, <3>1 DEF MainInOrder
  <2>5. Taken'
    <3>1. \A j \in 1..Len(Main') : Main'[j].id # 0 => \E i \in 1..Len(Main) : Main'[j] = Main[i]
      BY <2>1, <2>2
    <3> QED  BY <1>1, <3>1 DEF IInv, Taken, In, AsksSpi
  <2>6. NothingLeftBehind'
    BY <1>1, <2>1, <2>2 DEF IInv, NothingLeftBehind, In, AsksSpi
  <2> QED  BY <1>6, <2>3, <2>4, <2>5, <2>6 DEF IInv
<1> QED  BY <1>7, <1>8

LEMMA DestroyStep ==
  ASSUME IInv, kind' = kind, Destroy
  PROVE  IInv'
<1>1. /\ \A c \in Callers : In(c, {"idle"})
      /\ fd' = [s \in Sockets |-> "none"] /\ inbox' = [s \in Sockets |-> <<>>] /\ wire' = <<>>
      /\ UNCHANGED <<sent, allocated, upsets, mutex, call, ret, claimed>>
  BY DEF Destroy
<1>2. IsSeq(<<>>)
  <2>1. <<>> \in Seq({})  OBVIOUS
  <2> QED  BY <2>1 DEF IsSeq
<1>3. Main' = <<>> /\ Len(Main') = 0 /\ Len(wire') = 0  BY <1>1 DEF Main, Sockets
<1>4. \A c \in Callers : CallShape(c)'  BY <1>1 DEF IInv, Shapes, CallShape
<1>5. Shapes'  BY <1>1, <1>2, <1>4 DEF IInv, Shapes
<1>6. \A c \in Callers : call'[c] = call[c] /\ call[c].pc = "idle"  BY <1>1 DEF In
<1>7. Holder' /\ Numbers' /\ OwnReply'
  BY <1>1, <1>6 DEF IInv, Holder, Numbers, OwnReply, In
<1>8. WireInOrder' /\ MainInOrder' /\ NothingLeftBehind'
  BY <1>3 DEF WireInOrder, MainInOrder, NothingLeftBehind
<1>9. Taken'  BY <1>6 DEF Taken, In
<1> QED  BY <1>5, <1>7, <1>8, <1>9 DEF IInv
-----------------------------------------------------------------------------
(* The invariant, and what follows from it. *)

LEMMA StepOf ==
  ASSUME Shapes, [Next]_allVars
  PROVE  kind' = kind /\ (UNCHANGED vars \/ (\E c \in Callers : CallerStep(c)) \/ KernelStep \/ Destroy)
<1>1. fd \in [Sockets -> {"none", "bad", "open"}]  BY DEF Shapes
<1>2. CASE UNCHANGED allVars  BY <1>2 DEF allVars
<1>3. CASE Next  BY <1>1, <1>3, PfkeyStep, NetlinkStep DEF Next, Step
<1> QED  BY <1>2, <1>3

LEMMA InvStep == IInv /\ [Next]_allVars => IInv'
<1> SUFFICES ASSUME IInv, [Next]_allVars PROVE IInv'  OBVIOUS
<1>1. Shapes  BY DEF IInv
<1>2. kind' = kind
      /\ (UNCHANGED vars \/ (\E c \in Callers : CallerStep(c)) \/ KernelStep \/ Destroy)
  BY <1>1, StepOf
<1>3. upsets \in 0..MaxUpsets /\ upsets \in Nat /\ MaxUpsets \in Nat
  BY <1>1, SocketAssumption DEF Shapes
<1>4. CASE UNCHANGED vars
  <2>1. Main' = Main  BY <1>4 DEF vars, Main
  <2>2. \A c \in Callers : CallShape(c)'  BY <1>1, <1>2, <1>4 DEF vars, Shapes, CallShape
  <2> QED
    BY <1>2, <1>4, <2>1, <2>2
    DEF vars, IInv, Shapes, Holder, Numbers, WireInOrder, MainInOrder, Taken,
        NothingLeftBehind, OwnReply, In, AsksSpi
<1>5. ASSUME NEW c \in Callers, CallerStep(c) PROVE IInv'
  <2>1. CASE CreateSocket(c) \/ GetSpi(c) \/ Lock(c) \/ Registered(c)
    BY <1>2, <2>1, OutsideStep
  <2>2. CASE Send(c)  BY <1>2, <2>2, SendStep
  <2>3. CASE SendFails(c)
    <3>1. In(c, {"send", "recv"}) /\ ~In(c, {"recv"})  BY <2>3 DEF SendFails, In
    <3> QED  BY <1>2, <1>3, <2>3, <3>1, CallFails DEF SendFails
  <2>4. CASE RecvFails(c)
    <3>1. In(c, {"send", "recv"})  BY <2>4 DEF RecvFails, In
    <3>2. upsets' \in 0..MaxUpsets  BY <1>3, <2>4 DEF RecvFails
    <3>3. (gaveUp => gaveUp') /\ (In(c, {"recv"}) /\ AsksSpi(c) => gaveUp')
      BY <2>4, Zenon DEF RecvFails
    <3> QED  BY <1>2, <2>4, <3>1, <3>2, <3>3, CallFails DEF RecvFails
  <2>5. CASE Recv(c, Verdict(kind, NextMessage(c), call[c].in))
    BY <1>2, <2>5, RecvStep
  <2>6. CASE Parse(c, ReceivedSpis(kind, call[c].out))
    BY <1>2, <2>6, ParseStep
  <2> QED  BY <1>5, <2>1, <2>2, <2>3, <2>4, <2>5, <2>6 DEF CallerStep
<1>6. CASE KernelStep  BY <1>2, <1>6, AnswerStep, StrayStep DEF KernelStep
<1>7. CASE Destroy  BY <1>2, <1>7, DestroyStep
<1> QED  BY <1>2, <1>4, <1>5, <1>6, <1>7

LEMMA Invariant == Spec => []IInv
BY InvInit, InvStep, PTL DEF Spec

\* The types of every variable, and the mutex: the caller between the lock and
\* the end of the receive loop has it, and nobody else.
THEOREM TypeCorrect == Spec => []TypeOK
<1>1. IInv => TypeOK
  <2> SUFFICES ASSUME IInv PROVE TypeOK  OBVIOUS
  <2>1. \A c \in Callers : call[c].pc \in Pcs
    BY DEF IInv, Shapes, CallShape, Idle, Pcs
  <2>2. allocated \subseteq Spis /\ claimed \subseteq allocated /\ sent \in 0..MaxRequests
    BY SocketAssumption DEF IInv, Numbers, Spis
  <2> QED  BY <2>1, <2>2 DEF IInv, Shapes, Holder, TypeOK
<1> QED  BY <1>1, Invariant, PTL

\* getSpi gives a caller the SPI of its own request, or, once a call has left a
\* reply on the socket, one that was asked for earlier: both receive loops.
THEOREM RepliesAreOwn == Spec => []OwnReply
<1>1. IInv => OwnReply  BY DEF IInv
<1> QED  BY <1>1, Invariant, PTL
-----------------------------------------------------------------------------
(* SpiService.  A step of getSpi's that ends the call gives or fails, the      *)
(* answer to a request allocates, every other step is nobody's business.      *)

askers == {c \in Callers : ~In(c, {"idle"}) /\ AsksSpi(c)}
results == [c \in Callers |-> ret[c].spi]

AbstractStep == Service!Next \/ UNCHANGED <<askers, Spis \ allocated, allocated \ claimed, results>>

\* A call that ends gives what it gives back, if it asked for an SPI.
LEMMA EndOfCall ==
  ASSUME Shapes, NEW c \in Callers, NEW spi, GiveBack(c, spi), ~In(c, {"idle"}),
         allocated' = allocated,
         AsksSpi(c) => spi = NoSpi \/ (spi \in Spis /\ spi \in allocated \ claimed),
         ~AsksSpi(c) => spi = NoSpi
  PROVE  AbstractStep
<1>0. Moves(c) /\ call'[c] = Idle  BY CallMoves DEF GiveBack
<1>1. Moves(c) /\ call'[c].pc = "idle"  BY <1>0 DEF Idle
<1>2. askers' = askers \ {c}  BY <1>1 DEF askers, Moves, In, AsksSpi
<1>3. claimed' = claimed \union ({spi} \ {NoSpi})  BY DEF GiveBack
<1>4. CASE AsksSpi(c)
  <2>1. c \in askers  BY <1>4 DEF askers
  <2>2. ret' = [ret EXCEPT ![c] = Returned(call[c].id, spi, gaveUp)] /\ DOMAIN ret = Callers
    BY <1>4 DEF GiveBack, Shapes
  <2>3. results' = [results EXCEPT ![c] = spi]  BY <2>2 DEF results, Returned
  <2>4. CASE spi = NoSpi
    <3>1. claimed' = claimed  BY <1>3, <2>4
    <3>2. Service!Fail(c)  BY <1>2, <2>1, <2>3, <2>4, <3>1 DEF Service!Fail, askers, results
    <3> QED  BY <3>2 DEF AbstractStep, Service!Next
  <2>5. CASE spi # NoSpi
    <3>1. spi \in Spis /\ spi \in allocated \ claimed  BY <1>4, <2>5
    <3>2. (allocated \ claimed)' = (allocated \ claimed) \ {spi}  BY <1>3, <2>5
    <3>3. Service!Give(c, spi)
      BY <1>2, <2>1, <2>3, <3>1, <3>2 DEF Service!Give, askers, results, Spis
    <3> QED  BY <3>1, <3>3 DEF AbstractStep, Service!Next
  <2> QED  BY <2>4, <2>5
<1>5. CASE ~AsksSpi(c)
  <2>1. c \notin askers /\ spi = NoSpi  BY <1>5 DEF askers
  <2>2. claimed' = claimed /\ ret' = ret  BY <1>3, <1>5, <2>1 DEF GiveBack
  <2> QED  BY <1>2, <2>1, <2>2 DEF AbstractStep, results, Spis
<1> QED  BY <1>4, <1>5

\* A caller that moves on within a call, or begins or ends one, for whatever.
LEMMA WithinCall ==
  ASSUME Shapes, NEW c \in Callers, NEW r, call' = [call EXCEPT ![c] = r],
         UNCHANGED <<allocated, claimed, ret>>, ~In(c, {"idle"}), r.pc # "idle", r.in = call[c].in
  PROVE  AbstractStep
<1>1. Moves(c) /\ call'[c] = r  BY CallMoves
<1>2. askers' = askers  BY <1>1 DEF askers, Moves, In, AsksSpi
<1> QED  BY <1>2 DEF AbstractStep, results, Spis

LEMMA BeginsCall ==
  ASSUME Shapes, NEW c \in Callers, NEW sock, NEW in, call' = [call EXCEPT ![c] = Request(sock, in)],
         UNCHANGED <<allocated, claimed, ret>>, c \notin askers
  PROVE  AbstractStep
<1>0. Moves(c) /\ call'[c] = Request(sock, in)  BY CallMoves
<1>1. Moves(c) /\ call'[c].pc = "lock" /\ call'[c].in = in  BY <1>0 DEF Request
<1>2. CASE in.type = "GETSPI"
  <2>1. askers' = askers \union {c}  BY <1>1, <1>2 DEF askers, Moves, In, AsksSpi
  <2>2. Service!Ask(c)  BY <2>1 DEF Service!Ask, askers, results, Spis
  <2> QED  BY <2>2 DEF AbstractStep, Service!Next
<1>3. CASE in.type # "GETSPI"
  <2>1. askers' = askers  BY <1>1, <1>3 DEF askers, Moves, In, AsksSpi
  <2> QED  BY <2>1 DEF AbstractStep, results, Spis
<1> QED  BY <1>2, <1>3

LEMMA CallerRefines ==
  ASSUME IInv, NEW c \in Callers, CallerStep(c)
  PROVE  AbstractStep
<1>1. Shapes /\ Numbers /\ CallShape(c)  BY DEF IInv, Shapes
<1>2. CASE CreateSocket(c)
  <2>1. c \notin askers /\ UNCHANGED <<allocated, claimed, ret>>
    BY <1>2 DEF CreateSocket, askers
  <2>2. CASE call' = call  BY <2>1, <2>2 DEF AbstractStep, askers, results, Spis, In, AsksSpi
  <2> QED  BY <1>1, <1>2, <2>1, <2>2, BeginsCall DEF CreateSocket
<1>3. CASE GetSpi(c)
  <2>1. c \notin askers /\ UNCHANGED <<allocated, claimed, ret>>  BY <1>3 DEF GetSpi, askers
  <2> QED  BY <1>1, <1>3, <2>1, BeginsCall DEF GetSpi
<1>4. CASE Registered(c)
  <2>1. c \notin askers /\ UNCHANGED <<allocated, claimed, ret>>
    BY <1>4 DEF Registered, askers
  <2>2. CASE call' = [call EXCEPT ![c] = Idle]
    <3>0. Moves(c) /\ call'[c] = Idle  BY <1>1, <2>2, CallMoves
    <3>1. Moves(c) /\ call'[c].pc = "idle"  BY <3>0 DEF Idle
    <3>2. askers' = askers  BY <2>1, <3>1 DEF askers, Moves, In, AsksSpi
    <3> QED  BY <2>1, <3>2 DEF AbstractStep, results, Spis
  <2> QED  BY <1>1, <1>4, <2>1, <2>2, BeginsCall DEF Registered
<1>5. CASE Lock(c)
  <2> DEFINE r == [call[c] EXCEPT !.pc = "send"]
  <2>1. ~In(c, {"idle"}) /\ UNCHANGED <<allocated, claimed, ret>>  BY <1>5 DEF Lock, In
  <2>2. call' = [call EXCEPT ![c] = r]  BY <1>5 DEF Lock
  <2>3. r.pc = "send" /\ r.in = call[c].in  BY <1>1, <2>1 DEF CallShape, In, Idle
  <2> HIDE DEF r
  <2> QED  BY <1>1, <2>1, <2>2, <2>3, WithinCall
<1>6. CASE Send(c)
  <2> DEFINE id == IF AsksSpi(c) THEN sent + 1 ELSE 0
             r == [call[c] EXCEPT !.pc = "recv", !.id = id]
  <2>1. ~In(c, {"idle"}) /\ UNCHANGED <<allocated, claimed, ret>>  BY <1>6 DEF Send, In
  <2>2. call' = [call EXCEPT ![c] = r]  BY <1>6 DEF Send
  <2>3. r.pc = "recv" /\ r.in = call[c].in  BY <1>1, <2>1 DEF CallShape, In, Idle
  <2> HIDE DEF r
  <2> QED  BY <1>1, <2>1, <2>2, <2>3, WithinCall
<1>7. CASE SendFails(c) \/ RecvFails(c)
  <2>1. ~In(c, {"idle"}) /\ GiveBack(c, NoSpi) /\ allocated' = allocated
    BY <1>7 DEF SendFails, RecvFails, In
  <2> QED  BY <1>1, <2>1, EndOfCall
<1>8. CASE Recv(c, Verdict(kind, NextMessage(c), call[c].in))
  <2> DEFINE m == NextMessage(c)
             r == [pc |-> "parse", sock |-> call[c].sock, in |-> call[c].in,
                   id |-> call[c].id, out |-> m]
  <2>1. ~In(c, {"idle"}) /\ allocated' = allocated  BY <1>8 DEF Recv, In
  <2>2. \/ UNCHANGED <<call, ret, claimed>>
        \/ GiveBack(c, NoSpi)
        \/ call' = [call EXCEPT ![c] = r] /\ UNCHANGED <<ret, claimed>>
    BY <1>8 DEF Recv
  <2>3. r.pc = "parse" /\ r.in = call[c].in  OBVIOUS
  <2> HIDE DEF r
  <2>4. CASE UNCHANGED <<call, ret, claimed>>
    BY <2>1, <2>4 DEF AbstractStep, askers, results, Spis, In, AsksSpi
  <2>5. CASE GiveBack(c, NoSpi)  BY <1>1, <2>1, <2>5, EndOfCall
  <2>6. CASE call' = [call EXCEPT ![c] = r] /\ UNCHANGED <<ret, claimed>>
    BY <1>1, <2>1, <2>3, <2>6, WithinCall
  <2> QED  BY <2>2, <2>4, <2>5, <2>6
<1>9. CASE Parse(c, ReceivedSpis(kind, call[c].out))
  <2> DEFINE m == call[c].out
  <2>1. In(c, {"parse"}) /\ ~In(c, {"idle"}) /\ AsksSpi(c) /\ allocated' = allocated
    BY <1>9 DEF Parse, In
  <2>2. PICK spi \in ReceivedSpis(kind, m) : GiveBack(c, spi)  BY <1>9 DEF Parse
  <2>3. spi \in {m.spi, NoSpi}  BY <2>1, <2>2 DEF IInv, Taken, Reads
  <2>4. m.spi # NoSpi => m.spi \in allocated \ claimed  BY <2>1 DEF IInv, Taken
  <2>5. allocated \subseteq Spis  BY <1>1, SocketAssumption DEF Numbers, Spis
  <2> QED  BY <1>1, <2>1, <2>2, <2>3, <2>4, <2>5, EndOfCall
<1> QED  BY <1>2, <1>3, <1>4, <1>5, <1>6, <1>7, <1>8, <1>9 DEF CallerStep

LEMMA AnswerRefines ==
  ASSUME IInv, KernelAnswers(Answers(kind, Head(wire)))
  PROVE  AbstractStep
<1> DEFINE w == Head(wire)
<1>1. wire # <<>> /\ UNCHANGED <<call, ret, claimed>>  BY DEF KernelAnswers
<1>2. PICK a \in Answers(kind, w) : allocated' = allocated \union ({a.spi} \ {NoSpi})
  BY DEF KernelAnswers
<1> HIDE DEF w
<1>3. kind \in {"pfkey", "netlink"} /\ IsSeq(wire)  BY DEF IInv, Shapes
<1>4. w = wire[1] /\ 1 \in 1..Len(wire)  BY <1>1, <1>3, Shortened DEF w
<1>5. askers' = askers /\ results' = results
  BY <1>1 DEF askers, results, In, AsksSpi
<1>6. CASE a.spi = NoSpi
  <2>1. allocated' = allocated  BY <1>2, <1>6
  <2> QED  BY <1>1, <1>5, <2>1 DEF AbstractStep, Spis
<1>7. CASE a.spi # NoSpi
  <2>1. w.id # 0  BY <1>3, <1>7, AnswerOfRegistration
  <2>2. w.id \in 1..sent /\ w.in = GetSpiMsg(kind) /\ \A n \in allocated : n < w.id
    BY <1>4, <2>1 DEF IInv, WireInOrder
  <2>3. sent \in Nat /\ sent \in 0..MaxRequests /\ MaxRequests \in Nat
        /\ allocated \subseteq Nat /\ claimed \subseteq allocated
    BY SocketAssumption DEF IInv, Numbers
  <2>4. w.id \in Nat \ {0} /\ w.id \in Spis  BY <2>2, <2>3 DEF Spis
  <2>5. a.spi = w.id  BY <1>3, <1>7, <2>2, <2>4, AnswerRead DEF Reads
  <2>6. w.id \notin allocated
    <3>1. \A n \in Nat : ~(n < n)  OBVIOUS
    <3> QED  BY <2>2, <2>4, <3>1
  <2>7. allocated' = allocated \union {w.id}  BY <1>2, <1>7, <2>5
  <2>8. /\ (Spis \ allocated)' = (Spis \ allocated) \ {w.id}
        /\ (allocated \ claimed)' = (allocated \ claimed) \union {w.id}
    BY <1>1, <2>3, <2>6, <2>7 DEF Spis
  <2>9. Service!Allocate(w.id)
    BY <1>5, <2>4, <2>6, <2>8 DEF Service!Allocate, askers, results, Spis
  <2> QED  BY <2>4, <2>9 DEF AbstractStep, Service!Next
<1> QED  BY <1>6, <1>7

\* An SPI is given to one caller only, and it is one the kernel allocated.
THEOREM Refinement == Spec => ImplementsSpiService
<1>1. Init => Service!Init
  BY DEF Init, InitSockets, Service!Init, In, Idle, Returned
<1>2. ASSUME IInv, [Next]_allVars PROVE AbstractStep
  <2>1. Shapes  BY <1>2 DEF IInv
  <2>2. UNCHANGED vars \/ (\E c \in Callers : CallerStep(c)) \/ KernelStep \/ Destroy
    BY <1>2, <2>1, StepOf
  <2>3. CASE UNCHANGED vars
    BY <2>3 DEF vars, AbstractStep, askers, results, Spis, In, AsksSpi
  <2>4. CASE Destroy
    BY <2>4 DEF Destroy, AbstractStep, askers, results, Spis, In, AsksSpi
  <2>5. CASE KernelTells([s \in Sockets |-> Strays(kind, s)])
    BY <2>5 DEF KernelTells, AbstractStep, askers, results, Spis, In, AsksSpi
  <2> QED
    BY <1>2, <2>2, <2>3, <2>4, <2>5, CallerRefines, AnswerRefines DEF KernelStep
<1>3. IInv /\ [Next]_allVars => [Service!Next]_(Service!vars)
  BY <1>2 DEF AbstractStep, Service!vars, askers, results
<1> QED  BY <1>1, <1>3, Invariant, PTL DEF Spec, ImplementsSpiService, Service!Spec
=============================================================================
