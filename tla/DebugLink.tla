------------------------------ MODULE DebugLink -----------------------------
(***************************************************************************)
(* rvsrv, the serial line and the debug UART together.                     *)
(***************************************************************************)
EXTENDS DebugCommands, PacketHandler

ASSUME CompositionAssumption == Clients = Reqs

vars == <<hostVars, linkVars, targetVars>>

Init == HostInit /\ LinkInit /\ TargetInit

Host   == (QueueRequest \/ ReceivePacket \/ Expire \/ HostStep) /\ UNCHANGED targetVars
Line   == (LoseCommand \/ LoseReply) /\ UNCHANGED <<hostVars, targetVars>>
Target == HandlePacket /\ UNCHANGED hostVars

Next == Host \/ Line \/ Target

Spec == Init /\ [][Next]_vars

\* rvsrv's main loop goes round and reads, every time, what has arrived;
\* time passes; the packet handler answers.
FairSpec ==
  /\ Spec
  /\ WF_vars(HostStep /\ UNCHANGED targetVars)
  /\ SF_vars(ReceivePacket /\ UNCHANGED targetVars)
  /\ SF_vars(Expire /\ UNCHANGED targetVars)
  /\ WF_vars(Target)

-----------------------------------------------------------------------------
\* numIssuedPackets is the distance from rxSeqCounter to txSeqCounter, up to
\* the multiples of 16 that late replies take away, and never counts a
\* command nobody waits for: too high a count would stop the issuing of
\* commands for good.  While no timeout comes early it is exact and the
\* pipeline limit is kept, whatever is lost.
CounterSound ==
  /\ (numIssued - (txSeqCounter - rxSeqCounter)) % 16 = 0
  /\ numIssued <= Cardinality(DOMAIN slots)
  /\ late = 0 => /\ numIssued = Cardinality(DOMAIN slots)
                 /\ numIssued <= MaxIssued

\* An operation is in one place only: it is never issued twice at a time,
\* nor waiting both for its reply and to be sent again, so its callback is
\* called at most once.  When the client has been answered no operation of its
\* request is left to be replied to or repeated, whose callback would use the
\* request's data: it is freed by then.
CallbacksSafe ==
  LET places == opQueue \o reissueQueue \o SetToSeq({slots[s] : s \in DOMAIN slots})
  IN /\ IsInjective(places)
     /\ IsInjective(slots)
     /\ \A s \in DOMAIN slots : report[slots[s].req] = "none"
     /\ \A i \in DOMAIN reissueQueue : report[reissueQueue[i].req] = "none"

\* periph_uart_packetHandler.vhd: "When this completes, it is guaranteed
\* that the bus operation is performed exactly once", whatever packets are
\* lost, late or repeated; and the client gets the result of its own access.
ExactlyOnce ==
  \A r \in Reqs :
    /\ performed[r] <= 1
    /\ report[r] = "ok" => performed[r] = 1 /\ answer[r] = r

\* Bulk writes and volatile accesses go to the page they were meant for:
\* the page register is not changed while they may still be repeated.
OnOwnPage == astray = {}

\* debugCommands.h on barriers: "wait until all previous commands have been
\* executed".
BarrierWaits ==
  [][PassBarrier => slots = <<>>]_vars

\* Every client is answered, whatever is lost and however often a timeout
\* comes early, as long as this stops at some time.
RequestsAnswered == \A r \in Reqs : queued >= r ~> report[r] # "none"
=============================================================================
