----------------------------- MODULE SerialLink -----------------------------
(***************************************************************************)
(* The serial line between rvsrv and the debug UART of the processor: two  *)
(* streams of packets.  A packet that fails its CRC is ignored by the      *)
(* receiver; packets are never reordered or duplicated, but may take       *)
(* arbitrarily long.                                                       *)
(***************************************************************************)
EXTENDS Integers, Sequences

CONSTANTS
  Depth,      \* packets in flight in either direction: 2 when only the two
              \* packet buffers at the processor's end hold one
  MaxLosses,  \* bound: how many packets are corrupted
  MaxLate     \* bound: how many timeouts come before the packets they wait for

ASSUME LinkAssumption == Depth \in Nat \ {0} /\ MaxLosses \in Nat /\ MaxLate \in Nat

VARIABLES
  toTarget,     \* commands on their way to the processor
  fromTarget,   \* replies on their way to rvsrv
  losses,       \* packets corrupted so far
  late          \* premature timeouts so far

linkVars == <<toTarget, fromTarget, losses, late>>

LinkInit ==
  /\ toTarget = <<>>
  /\ fromTarget = <<>>
  /\ losses = 0
  /\ late = 0

\* A command that arrives while the receive buffers are occupied is
\* discarded (bufferError).
Send(p) == toTarget' = IF Len(toTarget) < Depth THEN Append(toTarget, p) ELSE toTarget

\* The handler waits until the transmit buffer is ready.
CanReply == Len(fromTarget) < Depth

LoseCommand ==
  /\ losses < MaxLosses
  /\ toTarget # <<>>
  /\ toTarget' = Tail(toTarget)
  /\ losses' = losses + 1
  /\ UNCHANGED <<fromTarget, late>>

LoseReply ==
  /\ losses < MaxLosses
  /\ fromTarget # <<>>
  /\ fromTarget' = Tail(fromTarget)
  /\ losses' = losses + 1
  /\ UNCHANGED <<toTarget, late>>
=============================================================================
