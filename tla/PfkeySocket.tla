---------------------------- MODULE PfkeySocket ----------------------------
(***************************************************************************)
(* xfrmKernelPfkey (library/xfrm/src/xfrmKernelPfkey.cpp): getSpi and the  *)
(* registration of the event socket, both by sendPfkeySocket.              *)
(***************************************************************************)
EXTENDS KernelSocket

CONSTANTS
  Us,     \* what getpid returns
  Others  \* the processes that use PF_KEY besides

\* No function of the class changes it.
mSequence == 0

\* pid is 0 in what RegisterPfkeySocket sends: its request is all zeros.
GetSpiMsg == [type |-> "GETSPI", seq |-> mSequence, pid |-> Us]
RegisterMsg(satype) == [type |-> "REGISTER", satype |-> satype, seq |-> 0, pid |-> 0]
-----------------------------------------------------------------------------
(* The kernel. *)

\* The answer repeats type, sequence and pid; an SPI, or an errno.
Message(type, seq, pid, errno, id, spi, whole) ==
  [type |-> type, seq |-> seq, pid |-> pid, errno |-> errno,
   id |-> id, spi |-> spi, whole |-> whole]

Answers(r) ==
  {Message(r.in.type, r.in.seq, r.in.pid, FALSE, r.id, r.id, TRUE),
   Message(r.in.type, r.in.seq, r.in.pid, TRUE, r.id, NoSpi, TRUE)}

\* SPIs of other processes, and the messages that tell of them.
Foreign == MaxRequests + 1

\* To every socket, what other processes ask for, and what this one asks for
\* through netlink, whose sequence numbers start at 202; to the event socket,
\* ACQUIRE and EXPIRE; and a message cut short.
Strays(s) ==
  {Message("DELETE", 0, p, FALSE, 0, Foreign, TRUE) : p \in Others}
  \union {Message("DELETE", 202, Us, FALSE, 0, Foreign, TRUE),
          Message("DELETE", 0, 0, FALSE, 0, NoSpi, FALSE)}
  \union (IF s = "main" THEN {}
          ELSE {Message("ACQUIRE", 1, 0, FALSE, 0, NoSpi, TRUE),
                Message("EXPIRE", 0, 0, FALSE, 0, Foreign, TRUE)})
-----------------------------------------------------------------------------
\* createSocket.  The sockets are registered in any case, on descriptor 0 when
\* there is no event socket.
CreateSocket(c) ==
  /\ In(c, {"idle"})
  /\ fd["main"] = "none"
  /\ \/ /\ fd' = [fd EXCEPT !["main"] = "bad"]
        /\ UNCHANGED call
     \/ /\ \E e \in {"none", "bad", "open"} :
             fd' = [fd EXCEPT !["main"] = "open", !["events"] = e]
        /\ call' = [call EXCEPT ![c] = Request("events", RegisterMsg("ESP"))]
  /\ UNCHANGED <<inbox, wire, sent, allocated, upsets, mutex, ret, claimed, gaveUp>>

\* getSpi up to the call of sendPfkeySocket.
GetSpi(c) ==
  /\ In(c, {"idle"})
  /\ call' = [call EXCEPT ![c] = Request("main", GetSpiMsg)]
  /\ UNCHANGED <<fd, inbox, wire, sent, allocated, upsets, mutex, ret, claimed, gaveUp>>

\* Seeded bug: the pid is not compared.
Verdict_AnyPid(m, in) ==
  IF ~m.whole \/ m.seq > mSequence THEN "fail" ELSE "keep"

\* The receive loop.  A message of another type is logged as ignored and kept.
Verdict(m, in) ==
  IF ~m.whole THEN "fail"
  ELSE IF m.pid # in.pid THEN "skip"
  ELSE IF m.seq = mSequence \/ m.seq = 0 THEN "keep"
  ELSE IF m.seq < mSequence THEN "skip"
  ELSE "fail"

\* The SPI of the first SA extension.  Without one the walk, which takes bytes
\* for words of 64 bits, leaves the message: whatever it meets there.
ReceivedSpis(m) ==
  IF m.errno THEN {NoSpi}
  ELSE IF m.spi # NoSpi THEN {m.spi}
  ELSE Spis \union {NoSpi}

\* The end of RegisterPfkeySocket, and the second call of it in createSocket.
Registered(c) ==
  LET cl == call[c]
  IN  /\ In(c, {"parse"})
      /\ ~AsksSpi(c)
      /\ call' = [call EXCEPT ![c] =
                    IF ~cl.out.errno /\ cl.in.satype = "ESP"
                    THEN Request("events", RegisterMsg("AH")) ELSE Idle]
      /\ UNCHANGED <<fd, inbox, wire, sent, allocated, upsets, mutex, ret,
                     claimed, gaveUp>>

Caller(c) ==
  \/ CreateSocket(c) \/ GetSpi(c) \/ Lock(c)
  \/ Send(c) \/ SendFails(c) \/ RecvFails(c) \/ Recv(c, Verdict(NextMessage(c), call[c].in))
  \/ Parse(c, ReceivedSpis(call[c].out)) \/ Registered(c)

Kernel ==
  KernelAnswers(Answers(Head(wire))) \/ KernelTells([s \in Sockets |-> Strays(s)])

Next == (\E c \in Callers : Caller(c)) \/ Kernel \/ Destroy
=============================================================================
