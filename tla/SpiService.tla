----------------------------- MODULE SpiService -----------------------------
(***************************************************************************)
(* What callers of xfrmKernelInterface may rely on: getSpi gives an SPI    *)
(* the kernel allocated for this process and gave to nobody before, or it  *)
(* fails.                                                                  *)
(***************************************************************************)
CONSTANTS
  Callers,
  Spis,     \* the SPIs the kernel may allocate
  None      \* what a call that failed gave back

VARIABLES
  asking,  \* the callers inside getSpi
  fresh,   \* SPIs not allocated yet
  unclaimed, \* SPIs allocated and given to nobody
  result   \* what the last call of each caller gave back

vars == <<asking, fresh, unclaimed, result>>

Init ==
  /\ asking = {}
  /\ fresh = Spis
  /\ unclaimed = {}
  /\ result = [c \in Callers |-> None]

Ask(c) ==
  /\ c \notin asking
  /\ asking' = asking \union {c}
  /\ UNCHANGED <<fresh, unclaimed, result>>

Allocate(s) ==
  /\ s \in fresh
  /\ fresh' = fresh \ {s}
  /\ unclaimed' = unclaimed \union {s}
  /\ UNCHANGED <<asking, result>>

Give(c, s) ==
  /\ c \in asking
  /\ s \in unclaimed
  /\ asking' = asking \ {c}
  /\ unclaimed' = unclaimed \ {s}
  /\ result' = [result EXCEPT ![c] = s]
  /\ UNCHANGED fresh

Fail(c) ==
  /\ c \in asking
  /\ asking' = asking \ {c}
  /\ result' = [result EXCEPT ![c] = None]
  /\ UNCHANGED <<fresh, unclaimed>>

Next ==
  \/ \E c \in Callers : Ask(c) \/ Fail(c)
  \/ \E s \in Spis : Allocate(s)
  \/ \E c \in Callers, s \in Spis : Give(c, s)

Spec == Init /\ [][Next]_vars
=============================================================================
