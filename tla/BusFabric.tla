------------------------------ MODULE BusFabric -----------------------------
(***************************************************************************)
(* The bus between several masters and several slaves: the arbiter         *)
(* (bus_arbiter.vhd), optionally a pipeline stage (bus_stage.vhd), and the *)
(* demultiplexer for slaves with disjoint ranges (bus_demux.vhd).          *)
(*                                                                         *)
(* A state is one clock cycle: the registers, what the masters ask for in  *)
(* this cycle and which slaves are done in it.  Every other signal is an   *)
(* operator.  Tick is the rising edge together with the inputs of the next *)
(* cycle.                                                                  *)
(***************************************************************************)
EXTENDS Integers

CONSTANTS
  NumMasters,
  NumSlaves,
  Requests      \* Requests[m]: what master m may ask for: the slave whose range
                \* holds the address (NumSlaves if there is none), and the lock flag

Masters == 0..(NumMasters - 1)
Slaves  == 0..(NumSlaves - 1)

ASSUME FabricAssumption ==
  /\ NumMasters \in Nat \ {0} /\ NumSlaves \in Nat \ {0}
  /\ \A m \in Masters : Requests[m] \subseteq [mst : {m}, slave : 0..NumSlaves, lock : BOOLEAN]

VARIABLES
  staged,        \* whether there is a stage between arbiter and demux
  req,           \* mst2arb: what each master asks for, or Nop
  asked,         \* requesting_r, with the request itself
  locked,
  resultSelect,
  stageReq,      \* mst2stage_r
  stageAns,      \* slv2stage_r
  selectResult,  \* of the demux
  cmd,           \* cmd[s]: the request the slave s works on, or Nop
  ready,         \* the slaves that are done with theirs
  wait           \* history: transfers of others since a master began to ask

vars == <<staged, req, asked, locked, resultSelect, stageReq, stageAns, selectResult, cmd, ready,
          wait>>

Nop == [mst |-> -1, slave |-> 0, lock |-> FALSE]
AnyRequest == {Nop} \cup UNION {Requests[m] : m \in Masters}
Wishes == {wish \in [Masters -> AnyRequest] :
             \A m \in Masters : wish[m] \in {Nop} \cup Requests[m]}

\* Bus results: whether the transfer is in progress or done, for which request
\* (the data), or for none if the demux raises the fault.
Idle     == [busy |-> FALSE, ack |-> FALSE, data |-> Nop, fault |-> FALSE]
OutOfRange == [busy |-> FALSE, ack |-> TRUE, data |-> Nop, fault |-> TRUE]

-----------------------------------------------------------------------------
(* From the slaves up to the masters. *)

slv2demux(s) ==
  IF cmd[s] = Nop THEN Idle
  ELSE [busy |-> s \notin ready, ack |-> s \in ready, data |-> cmd[s], fault |-> FALSE]

demux2mst == IF selectResult < NumSlaves THEN slv2demux(selectResult) ELSE OutOfRange

stage2mst ==
  [busy |-> stageReq # Nop /\ ~stageAns.ack, ack |-> stageAns.ack, data |-> stageAns.data,
   fault |-> stageAns.fault]

slv2arb == IF staged THEN stage2mst ELSE demux2mst

ackTo(m)  == resultSelect = m /\ slv2arb.ack
busyTo(m) == asked[m] # Nop /\ ~ackTo(m)

-----------------------------------------------------------------------------
(* From the masters down to the slaves. *)

\* Seeded fault: the scan starts with the master that was served last.
StartsAtSame(idx, vect) ==
  IF vect = {} THEN idx
  ELSE CHOOSE m \in vect :
         \A n \in vect : (m - idx) % NumMasters <= (n - idx) % NumMasters

\* The next master after idx, in cyclic order, that asks for something.
getNextSetIndex(idx, vect) ==
  IF vect = {} THEN idx
  ELSE CHOOSE m \in vect :
         \A n \in vect : (m - idx - 1) % NumMasters <= (n - idx - 1) % NumMasters

MayMove == ~locked /\ ~slv2arb.busy

requestSelect ==
  IF MayMove THEN getNextSetIndex(resultSelect, {m \in Masters : req[m] # Nop})
             ELSE resultSelect

arb2slv == req[requestSelect]

\* Seeded fault: the stage repeats a request in the cycle after its result.
GatesLate == IF stageAns.ack THEN Nop ELSE stageReq

\* The stage takes the request away when either bus acknowledges it.
stage2slv == IF stageAns.ack \/ demux2mst.ack THEN Nop ELSE stageReq

mst2demux == IF staged THEN stage2slv ELSE arb2slv

demux2slv(s) == IF mst2demux.slave = s THEN mst2demux ELSE Nop

-----------------------------------------------------------------------------
Init ==
  /\ staged \in BOOLEAN
  /\ req = [m \in Masters |-> Nop]
  /\ asked = req
  /\ locked = FALSE
  /\ resultSelect = 0
  /\ stageReq = Nop
  /\ stageAns = Idle
  /\ selectResult = 0
  /\ cmd = [s \in Slaves |-> Nop]
  /\ ready = {}
  /\ wait = [m \in Masters |-> 0]

\* Seeded fault: the lock is not looked at.
NeverLocked == FALSE

LockNext == arb2slv.lock

\* Seeded fault: an idle bus keeps the old selection for the result.
FollowsAck == IF slv2arb.ack THEN requestSelect ELSE resultSelect

ResultNext == IF slv2arb.busy THEN resultSelect ELSE requestSelect

\* The arbiter's registers.
ArbiterEdge ==
  /\ asked' = req
  /\ locked' = LockNext
  /\ resultSelect' = ResultNext

StageEdge ==
  /\ stageReq' = IF staged THEN arb2slv ELSE Nop
  /\ stageAns' = IF staged THEN demux2mst ELSE Idle

SelectNext == IF demux2mst.busy THEN selectResult ELSE mst2demux.slave

DemuxEdge == selectResult' = SelectNext

\* A slave that is not busy takes what it is asked to do.
SlaveEdge ==
  cmd' = [s \in Slaves |-> IF slv2demux(s).busy THEN cmd[s] ELSE demux2slv(s)]

\* In the next cycle slaves finish their work, and each master that is not
\* kept waiting asks for something or for nothing; the others hold their
\* request.
NextInputs ==
  /\ ready' \in SUBSET {s \in Slaves : cmd'[s] # Nop}
  /\ \E held \in {{m \in Masters : busyTo(m)'}} :
       req' \in {[m \in Masters |-> IF m \in held THEN asked'[m] ELSE wish[m]] : wish \in Wishes}

\* Transfers within a locked sequence count as one.
CountWaits ==
  wait' = [m \in Masters |->
             IF ~busyTo(m) THEN 0
             ELSE IF slv2arb.ack /\ ~locked THEN wait[m] + 1
             ELSE wait[m]]

Tick ==
  /\ UNCHANGED staged
  /\ ArbiterEdge /\ StageEdge /\ DemuxEdge /\ SlaveEdge
  /\ NextInputs
  /\ CountWaits

Spec == Init /\ [][Tick]_vars

\* The clock ticks, slaves do not work for ever on a request, and a master does
\* not keep the bus locked for ever.
FairSpec ==
  /\ Spec
  /\ WF_vars(Tick)
  /\ \A s \in Slaves : []<>(~slv2demux(s).busy)
  /\ []<>(~locked)

-----------------------------------------------------------------------------
\* An acknowledge reaches the master whose request was carried out, with the
\* result of the slave it had addressed, or with the fault if there is none.
RightAnswer ==
  \A m \in Masters :
    ackTo(m) => /\ asked[m] # Nop
                /\ IF asked[m].slave = NumSlaves THEN slv2arb.fault
                   ELSE slv2arb.data = asked[m] /\ ~slv2arb.fault

\* bus_pkg.vhd: "The bus request signals must remain valid while busy is
\* high": what a slave works on stays on its bus.  And no slave does what no
\* master waits for: one transfer at a time, and never one twice.
RequestHeld ==
  /\ \A s \in Slaves : slv2demux(s).busy => demux2slv(s) = cmd[s]
  /\ \A s, t \in Slaves : cmd[s] # Nop /\ cmd[t] # Nop => s = t
  /\ \A s \in Slaves : cmd[s] # Nop => \E m \in Masters : asked[m] = cmd[s] \/ stageReq = cmd[s]

\* bus_pkg.vhd: "While the master which has access over the bus asserts this
\* signal, arbiters may not grant access to another master", whatever the
\* others ask for and however long its transfers take.
LockKept == [][arb2slv.lock => requestSelect' = requestSelect]_vars

\* Nobody waits for more than one transfer, or locked sequence of transfers, of
\* each of the other masters.
BoundedWait == \A m \in Masters : wait[m] <= NumMasters - 1

\* Every request is answered.
Served == \A m \in Masters : req[m] # Nop ~> ackTo(m)
=============================================================================
