---------------------------- MODULE KernelSocket ----------------------------
(***************************************************************************)
(* What xfrmKernelPfkey and xfrmKernelNetlink share                        *)
(* (library/xfrm/src): the two sockets of an object, the mutex a request   *)
(* holds until its reply was read, the callers of getSpi, and the kernel   *)
(* at the other end.                                                       *)
(*                                                                         *)
(* Requests are numbered in the order in which they reach the kernel, and  *)
(* the SPI the kernel allocates for request n is n: an SPI tells for whom  *)
(* it was allocated.  The program never sees these numbers as such.        *)
(***************************************************************************)
EXTENDS Integers, Sequences, FiniteSets

CONSTANTS
  Callers,      \* the threads that share the object
  Null,
  MaxRequests,  \* bound: GETSPI requests that reach the kernel
  MaxUpsets     \* bound: failed receptions and messages nobody asked for

ASSUME SocketAssumption ==
  /\ Null \notin Callers
  /\ MaxRequests \in Nat /\ MaxUpsets \in Nat

VARIABLES
  fd,         \* mSocket and mSocketEvents: "none" is 0, "bad" negative
  inbox,      \* what recv will read from each, oldest first
  wire,       \* requests sent that the kernel has not answered
  sent,       \* GETSPI requests that reached the kernel
  allocated,  \* SPIs the kernel allocated
  upsets,     \* failed receptions and stray messages so far
  mutex,      \* who holds mMutex
  call,       \* where each caller is, its request and its reply
  ret,        \* what the last getSpi of each caller gave back, and whether
              \* a reply was on the socket that nobody waited for
  claimed,    \* history: SPIs getSpi gave back
  gaveUp      \* history: a call failed and left its reply on the socket

vars == <<fd, inbox, wire, sent, allocated, upsets, mutex, call, ret,
          claimed, gaveUp>>

Sockets == {"main", "events"}
Spis == 1..MaxRequests
NoSpi == 0

Idle == [pc |-> "idle"]
In(c, pcs) == call[c].pc \in pcs
Returned(id, spi, late) == [id |-> id, spi |-> spi, late |-> late]

InitSockets ==
  /\ fd = [s \in Sockets |-> "none"]
  /\ inbox = [s \in Sockets |-> <<>>]
  /\ wire = <<>>
  /\ sent = 0
  /\ allocated = {}
  /\ upsets = 0
  /\ mutex = Null
  /\ call = [c \in Callers |-> Idle]
  /\ ret = [c \in Callers |-> Returned(0, NoSpi, FALSE)]
  /\ claimed = {}
  /\ gaveUp = FALSE
-----------------------------------------------------------------------------
(* The kernel. *)

\* It takes requests in order; one of the answers goes to the socket of the
\* request.
KernelAnswers(answers) ==
  /\ wire # <<>>
  /\ \E a \in answers :
       /\ inbox' = [inbox EXCEPT ![Head(wire).sock] = Append(@, a)]
       /\ allocated' = allocated \union ({a.spi} \ {NoSpi})
  /\ wire' = Tail(wire)
  /\ UNCHANGED <<fd, sent, upsets, mutex, call, ret, claimed, gaveUp>>

\* A message that answers no request of this object: for each socket, strays.
KernelTells(strays) ==
  /\ upsets < MaxUpsets
  /\ upsets' = upsets + 1
  /\ \E s \in Sockets :
       /\ fd[s] = "open"
       /\ \E m \in strays[s] : inbox' = [inbox EXCEPT ![s] = Append(@, m)]
  /\ UNCHANGED <<fd, wire, sent, allocated, mutex, call, ret, claimed, gaveUp>>
-----------------------------------------------------------------------------
(* A request: lock, send, receive, unlock. *)

Request(sock, in) == [pc |-> "lock", sock |-> sock, in |-> in, id |-> 0]

AsksSpi(c) == call[c].in.type = "GETSPI"

\* The call ends; getSpi gives back spi, which is 0 when it fails.
GiveBack(c, spi) ==
  /\ call' = [call EXCEPT ![c] = Idle]
  /\ ret' = IF AsksSpi(c) THEN [ret EXCEPT ![c] = Returned(call[c].id, spi, gaveUp)]
                          ELSE ret
  /\ claimed' = claimed \union ({spi} \ {NoSpi})

\* Seeded bug: the socket is used without waiting for the mutex.
Lock_NoWait(c) ==
  /\ In(c, {"lock"})
  /\ mutex' = c
  /\ call' = [call EXCEPT ![c].pc = "send"]
  /\ UNCHANGED <<fd, inbox, wire, sent, allocated, upsets, ret, claimed, gaveUp>>

Lock(c) ==
  /\ In(c, {"lock"})
  /\ mutex = Null
  /\ mutex' = c
  /\ call' = [call EXCEPT ![c].pc = "send"]
  /\ UNCHANGED <<fd, inbox, wire, sent, allocated, upsets, ret, claimed, gaveUp>>

\* The send loop, which repeats an interrupted send.
Send(c) ==
  LET cl == call[c]
      id == IF AsksSpi(c) THEN sent + 1 ELSE 0
  IN  /\ In(c, {"send"})
      /\ fd[cl.sock] = "open"
      /\ id <= MaxRequests
      /\ wire' = Append(wire, [sock |-> cl.sock, id |-> id, in |-> cl.in])
      /\ sent' = IF id = 0 THEN sent ELSE id
      /\ call' = [call EXCEPT ![c].pc = "recv", ![c].id = id]
      /\ UNCHANGED <<fd, inbox, allocated, upsets, mutex, ret, claimed, gaveUp>>

\* Seeded bug: the mutex is not given back.
SendFails_KeepsLock(c) ==
  /\ In(c, {"send"})
  /\ GiveBack(c, NoSpi)
  /\ UNCHANGED <<fd, inbox, wire, sent, allocated, upsets, mutex, gaveUp>>

SendFails(c) ==
  /\ In(c, {"send"})
  /\ mutex' = Null
  /\ GiveBack(c, NoSpi)
  /\ UNCHANGED <<fd, inbox, wire, sent, allocated, upsets, gaveUp>>

\* Seeded bug: the mutex is not given back.
RecvFails_KeepsLock(c) ==
  /\ In(c, {"recv"})
  /\ upsets < MaxUpsets
  /\ upsets' = upsets + 1
  /\ GiveBack(c, NoSpi)
  /\ gaveUp' = (gaveUp \/ AsksSpi(c))
  /\ UNCHANGED <<fd, inbox, wire, sent, allocated, mutex>>

\* An error of recv other than an interruption; the reply is still to come.
RecvFails(c) ==
  /\ In(c, {"recv"})
  /\ upsets < MaxUpsets
  /\ upsets' = upsets + 1
  /\ mutex' = Null
  /\ GiveBack(c, NoSpi)
  /\ gaveUp' = (gaveUp \/ AsksSpi(c))
  /\ UNCHANGED <<fd, inbox, wire, sent, allocated>>

\* What recv reads next.
NextMessage(c) == Head(inbox[call[c].sock])

\* recv takes the next message; the verdict is to keep it, to skip it or to
\* fail the call.  An interrupted recv is repeated.
Recv(c, verdict) ==
  LET cl == call[c]
      m == NextMessage(c)
  IN  /\ In(c, {"recv"})
      /\ inbox[cl.sock] # <<>>
      /\ inbox' = [inbox EXCEPT ![cl.sock] = Tail(@)]
      /\ \/ /\ verdict = "skip"
            /\ UNCHANGED <<mutex, call, ret, claimed, gaveUp>>
         \/ /\ verdict = "fail"
            /\ mutex' = Null
            /\ GiveBack(c, NoSpi)
            /\ gaveUp' = (gaveUp \/ AsksSpi(c))
         \/ /\ verdict = "keep"
            /\ mutex' = Null
            /\ call' = [call EXCEPT ![c] = [pc |-> "parse", sock |-> cl.sock,
                                            in |-> cl.in, id |-> cl.id, out |-> m]]
            /\ gaveUp' = (gaveUp \/ (AsksSpi(c) /\ m.spi = NoSpi /\ m.id # cl.id))
            /\ UNCHANGED <<ret, claimed>>
      /\ UNCHANGED <<fd, wire, sent, allocated, upsets>>

\* The end of getSpi, without the mutex: one of the spis that were received.
Parse(c, spis) ==
  /\ In(c, {"parse"})
  /\ AsksSpi(c)
  /\ \E spi \in spis : GiveBack(c, spi)
  /\ UNCHANGED <<fd, inbox, wire, sent, allocated, upsets, mutex, gaveUp>>

\* The destructor: whatever the sockets held is gone.
Destroy ==
  /\ \A c \in Callers : In(c, {"idle"})
  /\ fd # [s \in Sockets |-> "none"]
  /\ fd' = [s \in Sockets |-> "none"]
  /\ inbox' = [s \in Sockets |-> <<>>]
  /\ wire' = <<>>
  /\ gaveUp' = FALSE
  /\ UNCHANGED <<sent, allocated, upsets, mutex, call, ret, claimed>>
=============================================================================
