--------------------------- MODULE NetlinkSocket ---------------------------
(***************************************************************************)
(* xfrmKernelNetlink (library/xfrm/src/xfrmKernelNetlink.cpp).  A datagram *)
(* is a sequence of messages.  The sequence number of a request, which     *)
(* nothing compares, and the address conversion are left out.              *)
(***************************************************************************)
EXTENDS KernelSocket

AllocSpiMsg == [type |-> "GETSPI"]

Datagram(id, spi, types, whole) ==
  [id |-> id, spi |-> spi, types |-> types, whole |-> whole]

Answers(r) == {Datagram(r.id, r.id, <<"NEWSA">>, TRUE),
               Datagram(r.id, NoSpi, <<"ERROR">>, TRUE)}

\* What the kernel tells of its own accord, and a message cut short.
Strays(s) == {Datagram(0, NoSpi, <<"EXPIRE", "DONE">>, TRUE),
              Datagram(0, NoSpi, <<"EXPIRE">>, TRUE),
              Datagram(0, NoSpi, <<>>, FALSE)}
-----------------------------------------------------------------------------
\* createSocket.  A socket that could not be bound stays open.
CreateSocket(c) ==
  /\ In(c, {"idle"})
  /\ fd["main"] = "none"
  /\ \/ fd' = [fd EXCEPT !["main"] = "bad"]
     \/ \E e \in {"none", "bad", "open"} :
          fd' = [fd EXCEPT !["main"] = "open", !["events"] = e]
  /\ UNCHANGED <<inbox, wire, sent, allocated, upsets, mutex, call, ret,
                 claimed, gaveUp>>

\* getSpi up to the call of sendNetlinkSocket.
GetSpi(c) ==
  /\ In(c, {"idle"})
  /\ call' = [call EXCEPT ![c] = Request("main", AllocSpiMsg)]
  /\ UNCHANGED <<fd, inbox, wire, sent, allocated, upsets, mutex, ret, claimed, gaveUp>>

\* Any message that is whole is the reply.
Verdict(m, in) == IF m.whole THEN "keep" ELSE "fail"

\* The first message of the datagram that is an answer.
ReceivedSpis(m) ==
  LET answers == {i \in DOMAIN m.types : m.types[i] \in {"NEWSA", "ERROR", "DONE"}}
      first == CHOOSE i \in answers : \A j \in answers : i <= j
  IN  IF answers # {} /\ m.types[first] = "NEWSA" THEN {m.spi} ELSE {NoSpi}

Caller(c) ==
  \/ CreateSocket(c) \/ GetSpi(c) \/ Lock(c)
  \/ Send(c) \/ SendFails(c) \/ RecvFails(c) \/ Recv(c, Verdict(NextMessage(c), call[c].in))
  \/ Parse(c, ReceivedSpis(call[c].out))

Kernel ==
  KernelAnswers(Answers(Head(wire))) \/ KernelTells([s \in Sockets |-> Strays(s)])

Next == (\E c \in Callers : Caller(c)) \/ Kernel \/ Destroy
=============================================================================
