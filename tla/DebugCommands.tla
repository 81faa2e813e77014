---------------------------- MODULE DebugCommands ---------------------------
(***************************************************************************)
(* The debug command sequencer of rvsrv (uart/debugCommands.c) and the     *)
(* requests it serves (uart/debugReadWrite.c).                             *)
(*                                                                         *)
(* rvsrv is single-threaded.  One turn of its main loop queues requests    *)
(* (phase "wait"), handles the replies that have arrived (phase            *)
(* "receive"), looks at the timer, and issues what it can (phase           *)
(* "transmit"); the line and the processor run concurrently with all of    *)
(* this, so every packet received or sent is a step of its own.            *)
(***************************************************************************)
EXTENDS SerialLink, SequencesExt

CONSTANTS
  Requests,    \* the clients' requests in order: [bulk : Nat, write : BOOLEAN]
  MaxIssued,   \* MAX_NUM_ISSUED_PACKETS
  Retries      \* TIMEOUT_RETRIES

ASSUME SequencerAssumption ==
  /\ Requests \in Seq([bulk : Nat, write : BOOLEAN])
  /\ MaxIssued \in Nat \ {0}
  /\ Retries \in Nat \ {0}

VARIABLES
  opQueue,        \* operations to be scheduled
  reissueQueue,   \* operations to be issued again
  slots,          \* slotsValid is the domain of slots
  txSeqCounter,
  rxSeqCounter,
  numIssued,      \* numIssuedPackets
  timeoutCount,
  expired,        \* whether timeoutTime lies more than TIMEOUT_USEC back
  phase,          \* "wait", "receive" (a packet was received), "transmit"
  queued,         \* how many requests were queued
  answer,         \* the result each request's volatile access returned
  report          \* what each client was told

seqVars  == <<slots, txSeqCounter, rxSeqCounter, numIssued>>
timeVars == <<timeoutCount, expired>>
cbVars   == <<answer, report>>
hostVars == <<opQueue, reissueQueue, seqVars, timeVars, phase, queued, cbVars>>

SeqNumbers == 0..15
Reqs       == 1..Len(Requests)

-----------------------------------------------------------------------------
(* Requests *)

\* The commands of an access that must not be repeated.
queueVolatile == <<"barrier", "prepare", "barrier", "execute", "barrier">>

\* The commands queued for a transfer of some bulk packets within one page
\* and a last word, which is always accessed by a volatile operation.
\* "complete" is the barrier whose callback answers the client.
handleRead(n) == [i \in 1..n |-> "read"] \o queueVolatile \o <<"complete">>

\* Seeded fault: bulk writes do not wait for the page to be set.
NoPageBarriers(n) ==
  (IF n > 0 THEN <<"page">> ELSE <<>>)
    \o [i \in 1..n |-> "write"] \o queueVolatile \o <<"complete">>

handleWrite(n) ==
  (IF n > 0 THEN <<"barrier", "page", "barrier">> ELSE <<>>)
    \o [i \in 1..n |-> "write"] \o queueVolatile \o <<"complete">>

Operations(r) ==
  LET coms == IF Requests[r].write THEN handleWrite(Requests[r].bulk)
              ELSE handleRead(Requests[r].bulk)
  IN [n \in 1..Len(coms) |-> [req |-> r, n |-> n, com |-> coms[n]]]

IsBarrier(op) == op.com \in {"barrier", "complete"}

HostInit ==
  /\ opQueue = <<>>
  /\ reissueQueue = <<>>
  /\ slots = <<>>
  /\ txSeqCounter = 0
  /\ rxSeqCounter = 0
  /\ numIssued = 0
  /\ timeoutCount = 0
  /\ expired = FALSE
  /\ phase = "wait"
  /\ queued = 0
  /\ answer = [r \in Reqs |-> 0]
  /\ report = [r \in Reqs |-> "none"]

QueueRequest ==
  /\ phase = "wait"
  /\ queued < Len(Requests)
  /\ queued' = queued + 1
  /\ opQueue' = opQueue \o Operations(queued + 1)
  /\ UNCHANGED <<reissueQueue, seqVars, timeVars, phase, cbVars, linkVars>>

-----------------------------------------------------------------------------
(* Sequencing *)

Successor(s) == (s + 1) % 16

\* How often requeueUntil increments rxSeqCounter, and through which numbers.
Distance(s) == (s - rxSeqCounter) % 16
Skipped(s)  == [i \in 1..Distance(s) |-> (rxSeqCounter + i - 1) % 16]

\* The operations requeueUntil pushes, in order, and the slots it leaves.
SkippedOps(s) ==
  FlattenSeq([i \in 1..Distance(s) |->
                IF Skipped(s)[i] \in DOMAIN slots THEN <<slots[Skipped(s)[i]]>> ELSE <<>>])
SlotsAfter(s) ==
  [k \in {x \in DOMAIN slots : \A i \in 1..Distance(s) : x # Skipped(s)[i]} |-> slots[k]]

Without(f, s) == [k \in DOMAIN f \ {s} |-> f[k]]

\* Seeded fault: commands that wait for a reply are forgotten.
IgnoresIssued == reissueQueue = <<>>

isIdle == numIssued = 0 /\ reissueQueue = <<>>

\* One round of the loop of receivePackets.  A reply to a slot that is no
\* longer valid calls no callback but moves the counters all the same.
ReceivePacket ==
  /\ phase \in {"wait", "receive"}
  /\ fromTarget # <<>>
  /\ LET p == Head(fromTarget)
     IN /\ reissueQueue' = reissueQueue \o SkippedOps(p.seq)
        /\ slots' = Without(SlotsAfter(p.seq), p.seq)
        /\ rxSeqCounter' = Successor(p.seq)
        /\ numIssued' = numIssued - Distance(p.seq) - 1
        /\ answer' = IF p.seq \in DOMAIN slots /\ slots[p.seq].com = "execute"
                     THEN [answer EXCEPT ![slots[p.seq].req] = p.result]
                     ELSE answer
  /\ fromTarget' = Tail(fromTarget)
  /\ phase' = "receive"
  /\ UNCHANGED <<opQueue, txSeqCounter, timeVars, queued, report, toTarget, losses, late>>

\* The timer is restarted when something was received or nothing is expected.
RestartTimer ==
  /\ phase = "receive" \/ (phase = "wait" /\ isIdle)
  /\ expired' = FALSE
  /\ timeoutCount' = 0
  /\ phase' = "transmit"
  /\ UNCHANGED <<opQueue, reissueQueue, seqVars, queued, cbVars, linkVars>>

KeepWaiting ==
  /\ phase = "wait"
  /\ ~isIdle
  /\ ~expired
  /\ phase' = "transmit"
  /\ UNCHANGED <<opQueue, reissueQueue, seqVars, timeVars, queued, cbVars, linkVars>>

\* A timeout is handled: because there is no packet on its way, or too early.
Timeout ==
  LET early == toTarget # <<>> \/ fromTarget # <<>>
  IN /\ early => late < MaxLate
     /\ late' = IF early THEN late + 1 ELSE late
     /\ UNCHANGED <<toTarget, fromTarget, losses>>

\* The commands in the pipeline are sent again.  The timer is not restarted.
RetryTimeout ==
  /\ phase = "wait"
  /\ ~isIdle
  /\ expired
  /\ timeoutCount + 1 < Retries
  /\ Timeout
  /\ timeoutCount' = timeoutCount + 1
  /\ reissueQueue' = reissueQueue \o SkippedOps(txSeqCounter)
  /\ slots' = SlotsAfter(txSeqCounter)
  /\ rxSeqCounter' = txSeqCounter
  /\ numIssued' = numIssued - Distance(txSeqCounter)
  /\ phase' = "transmit"
  /\ UNCHANGED <<opQueue, txSeqCounter, expired, queued, cbVars>>

\* Seeded fault: the commands to be sent again survive.
KeepsReissueQueue ==
  /\ phase = "wait"
  /\ ~isIdle
  /\ expired
  /\ timeoutCount + 1 >= Retries
  /\ Timeout
  /\ timeoutCount' = timeoutCount + 1
  /\ opQueue' = <<>>
  /\ slots' = <<>>
  /\ reissueQueue' = reissueQueue \o SkippedOps(txSeqCounter)
  /\ rxSeqCounter' = txSeqCounter
  /\ numIssued' = 0
  /\ report' = [r \in Reqs |->
                  IF \E i \in DOMAIN opQueue : opQueue[i].req = r THEN "error" ELSE report[r]]
  /\ phase' = "transmit"
  /\ UNCHANGED <<txSeqCounter, expired, queued, answer>>

\* Seeded fault: the queue is freed without calling callbacks.
FailsSilently ==
  /\ phase = "wait"
  /\ ~isIdle
  /\ expired
  /\ timeoutCount + 1 >= Retries
  /\ Timeout
  /\ timeoutCount' = timeoutCount + 1
  /\ opQueue' = <<>>
  /\ reissueQueue' = <<>>
  /\ slots' = <<>>
  /\ rxSeqCounter' = txSeqCounter
  /\ numIssued' = 0
  /\ phase' = "transmit"
  /\ UNCHANGED <<txSeqCounter, expired, queued, cbVars>>

\* resetQueue: only the operations in opQueue have their callbacks called.
GiveUp ==
  /\ phase = "wait"
  /\ ~isIdle
  /\ expired
  /\ timeoutCount + 1 >= Retries
  /\ Timeout
  /\ timeoutCount' = timeoutCount + 1
  /\ opQueue' = <<>>
  /\ reissueQueue' = <<>>
  /\ slots' = <<>>
  /\ rxSeqCounter' = txSeqCounter
  /\ numIssued' = 0
  /\ report' = [r \in Reqs |->
                  IF \E i \in DOMAIN opQueue :
                       opQueue[i].req = r /\ opQueue[i].com = "complete"
                  THEN "error" ELSE report[r]]
  /\ phase' = "transmit"
  /\ UNCHANGED <<txSeqCounter, expired, queued, answer>>

\* Seeded fault: one packet too many.
CanIssueOneMore == numIssued <= MaxIssued /\ txSeqCounter \notin DOMAIN slots

CanIssue == numIssued < MaxIssued /\ txSeqCounter \notin DOMAIN slots

\* issueCommandOperation.  An error of the serial port is not noticed
\* (transmitPacket returns -1, the test is for less than -1): the packet is
\* lost on the way.
Issue(op) ==
  /\ CanIssue
  /\ Send([seq |-> txSeqCounter, com |-> op.com, req |-> op.req])
  /\ slots' = [k \in DOMAIN slots \cup {txSeqCounter} |->
                  IF k = txSeqCounter THEN op ELSE slots[k]]
  /\ txSeqCounter' = Successor(txSeqCounter)
  /\ numIssued' = numIssued + 1
  /\ UNCHANGED <<rxSeqCounter, fromTarget, losses, late>>

Reissue ==
  /\ phase = "transmit"
  /\ reissueQueue # <<>>
  /\ Issue(Head(reissueQueue))
  /\ reissueQueue' = Tail(reissueQueue)
  /\ UNCHANGED <<opQueue, timeVars, phase, queued, cbVars>>

IssueCommand ==
  /\ phase = "transmit"
  /\ reissueQueue = <<>>
  /\ opQueue # <<>>
  /\ ~IsBarrier(Head(opQueue))
  /\ Issue(Head(opQueue))
  /\ opQueue' = Tail(opQueue)
  /\ UNCHANGED <<reissueQueue, timeVars, phase, queued, cbVars>>

PassBarrier ==
  /\ phase = "transmit"
  /\ reissueQueue = <<>>
  /\ opQueue # <<>>
  /\ IsBarrier(Head(opQueue))
  /\ isIdle
  /\ opQueue' = Tail(opQueue)
  /\ report' = IF Head(opQueue).com = "complete"
               THEN [report EXCEPT ![Head(opQueue).req] = "ok"]
               ELSE report
  /\ UNCHANGED <<reissueQueue, seqVars, timeVars, phase, queued, answer, linkVars>>

\* Nothing more can be issued: the end of debugCommands_update.
EndUpdate ==
  /\ phase = "transmit"
  /\ \/ reissueQueue # <<>> /\ ~CanIssue
     \/ reissueQueue = <<>> /\ opQueue = <<>>
     \/ /\ reissueQueue = <<>> /\ opQueue # <<>>
        /\ IF IsBarrier(Head(opQueue)) THEN ~isIdle ELSE ~CanIssue
  /\ phase' = "wait"
  /\ UNCHANGED <<opQueue, reissueQueue, seqVars, timeVars, queued, cbVars, linkVars>>

\* Time passes while a reply is expected.
Expire ==
  /\ phase = "wait"
  /\ ~isIdle
  /\ ~expired
  /\ expired' = TRUE
  /\ UNCHANGED <<opQueue, reissueQueue, seqVars, timeoutCount, phase, queued, cbVars, linkVars>>

HostStep ==
  \/ RestartTimer \/ KeepWaiting \/ RetryTimeout \/ GiveUp
  \/ Reissue \/ IssueCommand \/ PassBarrier \/ EndUpdate
=============================================================================
