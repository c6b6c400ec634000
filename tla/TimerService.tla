---------------------------- MODULE TimerService ----------------------------
(***************************************************************************)
(* What a one-shot timer service promises its callers.  A request is made  *)
(* at some instant for a later one; once registered it is pending until    *)
(* its callback is called.  Times are in microseconds.                     *)
(***************************************************************************)
EXTENDS Integers, Sequences

CONSTANTS
  Adders,     \* those who make requests
  Delays,     \* how long from now a request may be for
  Tolerance,  \* how far the service's clock arithmetic may be off
  Boot,       \* the instant the service begins to exist
  NoRequest   \* "asks for nothing"

VARIABLES
  now,      \* the clock
  asked,    \* per adder: the instant of the request it is making
  due,      \* per registered request: its instant
  pending   \* the registered requests whose callback has not been called

vars == <<now, asked, due, pending>>

Init ==
  /\ now = Boot
  /\ asked = [a \in Adders |-> NoRequest]
  /\ due = <<>>
  /\ pending = {}

Advance ==
  /\ now' \in Nat /\ now' > now
  /\ UNCHANGED <<asked, due, pending>>

Ask(a) ==
  /\ asked[a] = NoRequest
  /\ \E d \in Delays : asked' = [asked EXCEPT ![a] = now + d]
  /\ UNCHANGED <<now, due, pending>>

Register(a) ==
  /\ asked[a] # NoRequest
  /\ due' = Append(due, asked[a])
  /\ pending' = pending \cup {Len(due) + 1}
  /\ asked' = [asked EXCEPT ![a] = NoRequest]
  /\ UNCHANGED now

\* The callback of a pending request whose instant has come and before which
\* no other pending request has to be served.
Fire(id) ==
  /\ id \in pending
  /\ now > due[id] - Tolerance
  /\ \A p \in pending : due[id] < due[p] + Tolerance
  /\ pending' = pending \ {id}
  /\ UNCHANGED <<now, asked, due>>

Next ==
  \/ Advance
  \/ \E a \in Adders : Ask(a) \/ Register(a)
  \/ \E id \in pending : Fire(id)

Spec == Init /\ [][Next]_vars
=============================================================================
