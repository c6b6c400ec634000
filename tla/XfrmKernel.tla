----------------------------- MODULE XfrmKernel -----------------------------
(***************************************************************************)
(* xfrmKernelInterface: an object of either class, whose callers know only *)
(* createSocket and getSpi (library/xfrm/inc/xfrmKernelInterface.h).       *)
(***************************************************************************)
EXTENDS KernelSocket

CONSTANTS
  Us,     \* what getpid returns
  Others  \* the processes that use PF_KEY besides

ASSUME PidAssumption == Us # 0 /\ Us \notin Others /\ 0 \notin Others

VARIABLE kind  \* the class of the object

Pfkey == INSTANCE PfkeySocket
Netlink == INSTANCE NetlinkSocket

allVars == <<vars, kind>>

Init == InitSockets /\ kind \in {"pfkey", "netlink"}

Step ==
  \/ kind = "pfkey" /\ Pfkey!Next
  \/ kind = "netlink" /\ Netlink!Next

Next == Step /\ UNCHANGED kind

Of(PfkeyAction, NetlinkAction) ==
  /\ \/ kind = "pfkey" /\ PfkeyAction
     \/ kind = "netlink" /\ NetlinkAction
  /\ UNCHANGED kind

\* A thread inside a call is scheduled, an interrupted system call does not
\* stay interrupted, and the kernel answers what it was asked.
Fairness ==
  /\ WF_allVars(Of(KernelAnswers(Pfkey!Answers(Head(wire))),
                  KernelAnswers(Netlink!Answers(Head(wire)))))
  /\ \A c \in Callers :
       /\ WF_allVars((Send(c) \/ SendFails(c)) /\ UNCHANGED kind)
       /\ WF_allVars(Of(Recv(c, Pfkey!Verdict(NextMessage(c), call[c].in)),
                        Recv(c, Netlink!Verdict(NextMessage(c), call[c].in))))

Spec == Init /\ [][Next]_allVars /\ Fairness
-----------------------------------------------------------------------------
Pcs == {"idle", "lock", "send", "recv", "parse"}

TypeOK ==
  /\ fd \in [Sockets -> {"none", "bad", "open"}]
  /\ sent \in 0..MaxRequests /\ upsets \in 0..MaxUpsets
  /\ allocated \subseteq Spis /\ claimed \subseteq allocated
  /\ mutex \in Callers \union {Null}
  /\ \A c \in Callers :
       /\ call[c].pc \in Pcs
       /\ mutex = c <=> In(c, {"send", "recv"})
       /\ ret[c].spi \in Spis \union {NoSpi}

\* getSpi gives a caller the SPI of its own request: the mutex keeps requests
\* and replies of the threads apart, and messages for others are passed over.
\* Once a call has left its reply on the socket the replies are one behind:
\* what a caller gets was asked for earlier, by a call that is over.
OwnReply ==
  \A c \in Callers :
    ret[c].spi # NoSpi =>
      \/ ret[c].spi = ret[c].id
      \/ ret[c].late /\ ret[c].spi < ret[c].id

\* The mutex never stays with a caller: every way out of sendPfkeySocket and
\* sendNetlinkSocket gives it back, provided the kernel answers.
LockReleased == \A c \in Callers : mutex = c ~> mutex # c

\* An SPI is given to one caller only, and it is one the kernel allocated for
\* this process.
Service == INSTANCE SpiService WITH
  Spis <- Spis, None <- NoSpi,
  asking <- {c \in Callers : ~In(c, {"idle"}) /\ AsksSpi(c)},
  fresh <- Spis \ allocated,
  unclaimed <- allocated \ claimed,
  result <- [c \in Callers |-> ret[c].spi]
ImplementsSpiService == Service!Spec
=============================================================================
