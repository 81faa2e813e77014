-------------------------- MODULE BusFabricProofs ---------------------------
(***************************************************************************)
(* Proofs about the bus fabric for every number of masters and slaves and  *)
(* every set of requests, with and without the pipeline stage.             *)
(***************************************************************************)
EXTENDS BusFabric, TLAPS, WellFoundedInduction

\* What the registers and inputs hold.
Answer == [busy : BOOLEAN, ack : BOOLEAN, data : AnyRequest, fault : BOOLEAN]

TypeOK ==
  /\ staged \in BOOLEAN
  /\ req \in Wishes
  /\ asked \in Wishes
  /\ locked \in BOOLEAN
  /\ resultSelect \in Masters
  /\ stageReq \in AnyRequest
  /\ stageAns \in Answer
  /\ selectResult \in 0..NumSlaves
  /\ cmd \in [Slaves -> AnyRequest]
  /\ ready \in SUBSET Slaves
  /\ wait \in [Masters -> Nat]

\* The request the arbiter forwards answers to.
Owner == asked[resultSelect]

\* The demultiplexer and its slaves work on r and on nothing else.
OnDemux(r) ==
  /\ selectResult = r.slave
  /\ cmd = [s \in Slaves |-> IF r.slave = s THEN r ELSE Nop]

\* The result ans belongs to the request r.
Carries(ans, r) ==
  /\ r # Nop
  /\ IF r.slave = NumSlaves THEN ans.fault ELSE ans.data = r /\ ~ans.fault

\* A master that is kept waiting holds its request.
Holding == \A m \in Masters : busyTo(m) => req[m] = asked[m]

\* Nothing but the owner's request is ever below the arbiter.  Without the
\* stage it is there from the edge at which the arbiter grants it; with the
\* stage it arrives a cycle later and has left when its result is registered.
OneTransfer ==
  \E r \in {Nop, Owner} :
    /\ OnDemux(r)
    /\ ~staged => r = Owner
    /\ staged /\ stageAns.ack => r = Nop

\* The stage holds the owner's request, and its result once there is one.
StageFollows ==
  staged => /\ stageReq = Owner
            /\ stageAns.ack => Carries(stageAns, stageReq)

\* The masters strictly between i and m in cyclic order.
Between(i, m) == (m - i - 1) % NumMasters

\* A master has waited for no more transfers than masters have had their turn
\* since: those that are still before it have not been counted.
TurnComes ==
  \A m \in Masters :
    wait[m] <= IF m = resultSelect THEN NumMasters - 1
               ELSE NumMasters - 2 - Between(resultSelect, m)

FabricInv == TypeOK /\ Holding /\ OneTransfer /\ StageFollows

-----------------------------------------------------------------------------
(* Facts about the operators. *)

\* A non-empty set of naturals has a least element.
LEMMA LeastNatural ==
  ASSUME NEW S \in SUBSET Nat, S # {}
  PROVE  \E n \in S : \A k \in S : n <= k
<1> DEFINE R == OpToRel(<, Nat)
<1>1. IsWellFoundedOn(R, Nat)
  BY NatLessThanWellFounded
<1>2. \A x, y \in Nat : y < x => <<y, x>> \in R
  BY DEF OpToRel
<1> HIDE DEF R
<1>3. PICK x \in S : \A y \in S : ~ (<<y, x>> \in R)
  BY <1>1, WFMin
<1>4. ASSUME NEW y \in S
      PROVE  x <= y
  <2>1. x \in Nat /\ y \in Nat
    OBVIOUS
  <2>2. ~ (y < x)
    BY <1>2, <1>3, <2>1, Zenon
  <2>3. QED
    BY <2>1, <2>2
<1>5. QED
  BY <1>4

\* The cyclic distance without the remainder.
LEMMA BetweenValue ==
  ASSUME NEW i \in Masters, NEW m \in Masters
  PROVE  /\ Between(i, m) = IF m > i THEN m - i - 1 ELSE m - i - 1 + NumMasters
         /\ Between(i, m) \in 0..(NumMasters - 1)
         /\ m # i => Between(i, m) <= NumMasters - 2
<1>1. \A x \in Int : 0 <= x /\ x < NumMasters => x % NumMasters = x
  BY FabricAssumption
<1>2. \A x \in Int : -NumMasters <= x /\ x < 0 => x % NumMasters = x + NumMasters
  BY FabricAssumption
<1>3. Between(i, m) = IF m > i THEN m - i - 1 ELSE m - i - 1 + NumMasters
  BY <1>1, <1>2, FabricAssumption DEF Between, Masters
<1>4. QED
  BY <1>3, FabricAssumption DEF Masters

\* The scan finds the first asking master after idx: a master that asks is not
\* passed over.
LEMMA NextSetIndex ==
  ASSUME NEW idx \in Masters, NEW vect \in SUBSET Masters
  PROVE  /\ getNextSetIndex(idx, vect) \in Masters
         /\ vect # {} => getNextSetIndex(idx, vect) \in vect
         /\ \A n \in vect : Between(idx, getNextSetIndex(idx, vect)) <= Between(idx, n)
<1>1. CASE vect = {}
  BY <1>1 DEF getNextSetIndex
<1>2. CASE vect # {}
  <2> DEFINE D == {Between(idx, n) : n \in vect}
  <2>1. D \in SUBSET Nat /\ D # {}
    BY <1>2, BetweenValue
  <2>2. PICK d \in D : \A k \in D : d <= k
    BY <2>1, LeastNatural
  <2>3. PICK m \in vect : d = Between(idx, m)
    BY <2>2
  <2>4. \A n \in vect : Between(idx, m) <= Between(idx, n)
    BY <2>2, <2>3
  <2>5. \E x \in vect : \A n \in vect : (x - idx - 1) % NumMasters <= (n - idx - 1) % NumMasters
    BY <2>4 DEF Between
  <2>6. QED
    BY <1>2, <2>5 DEF getNextSetIndex, Between
<1>3. QED
  BY <1>1, <1>2

\* The shape of a request.
LEMMA RequestShape ==
  /\ Nop \in AnyRequest /\ Nop.slave = 0 /\ Nop.lock = FALSE
  /\ \A r \in AnyRequest : r.slave \in 0..NumSlaves /\ r.lock \in BOOLEAN
  /\ \A w \in Wishes : w \in [Masters -> AnyRequest]
  /\ 0 \in Slaves /\ 0 < NumSlaves
  /\ \A r \in AnyRequest : r.slave \in Slaves \/ r.slave = NumSlaves
<1>1. Nop \in AnyRequest /\ Nop.slave = 0 /\ Nop.lock = FALSE
  BY DEF Nop, AnyRequest
<1>2. \A r \in AnyRequest : r.slave \in 0..NumSlaves /\ r.lock \in BOOLEAN
  <2>1. \A r \in AnyRequest : r = Nop \/ \E m \in Masters : r \in Requests[m]
    BY DEF AnyRequest
  <2>2. ASSUME NEW m \in Masters, NEW r \in Requests[m]
        PROVE  r.slave \in 0..NumSlaves /\ r.lock \in BOOLEAN
    <3>1. r \in [mst : {m}, slave : 0..NumSlaves, lock : BOOLEAN]
      BY FabricAssumption
    <3>2. QED
      BY <3>1
  <2>3. Nop.slave \in 0..NumSlaves /\ Nop.lock \in BOOLEAN
    BY FabricAssumption DEF Nop
  <2>4. QED
    BY <2>1, <2>2, <2>3, Zenon
<1>3. QED
  BY <1>1, <1>2, FabricAssumption DEF Wishes, Slaves

-----------------------------------------------------------------------------
(* One clock cycle. *)

\* The signals of a cycle have the widths of their declarations.
LEMMA CycleTypes ==
  ASSUME TypeOK
  PROVE  /\ requestSelect \in Masters
         /\ arb2slv \in AnyRequest
         /\ Owner \in AnyRequest
         /\ \A s \in Slaves : slv2demux(s) \in Answer
         /\ demux2mst \in Answer
         /\ slv2arb \in Answer
         /\ mst2demux \in AnyRequest
<1> USE RequestShape DEF TypeOK
<1>1. requestSelect \in Masters
  BY NextSetIndex DEF requestSelect
<1>2. arb2slv \in AnyRequest /\ Owner \in AnyRequest
  BY <1>1 DEF arb2slv, Owner
<1>3. \A s \in Slaves : slv2demux(s) \in Answer
  BY DEF slv2demux, Idle, Answer
<1>4. demux2mst \in Answer
  BY <1>3, FabricAssumption DEF demux2mst, OutOfRange, Answer, Slaves
<1>5. slv2arb \in Answer
  BY <1>4 DEF slv2arb, stage2mst, Answer
<1>6. mst2demux \in AnyRequest
  BY <1>2 DEF mst2demux, stage2slv
<1>7. QED
  BY <1>1, <1>2, <1>3, <1>4, <1>5, <1>6

\* What the demultiplexer answers when it and its slaves work on r.
LEMMA DemuxAnswer ==
  ASSUME TypeOK, NEW r \in AnyRequest, OnDemux(r)
  PROVE  /\ r = Nop => demux2mst = Idle
         /\ r # Nop => demux2mst.ack \/ demux2mst.busy
         /\ ~(demux2mst.busy /\ demux2mst.ack)
         /\ demux2mst.ack => Carries(demux2mst, r)
         /\ \A s \in Slaves : slv2demux(s).busy => s = r.slave /\ demux2mst.busy
<1> USE RequestShape DEF TypeOK
<1>1. CASE r.slave \in Slaves
  <2>1. selectResult = r.slave /\ cmd[selectResult] = r /\ selectResult < NumSlaves
    BY <1>1, FabricAssumption DEF OnDemux, Slaves
  <2>2. demux2mst = slv2demux(r.slave)
    BY <2>1 DEF demux2mst
  <2>3. r = Nop => demux2mst = Idle
    BY <2>1, <2>2 DEF slv2demux
  <2>4. r # Nop => demux2mst = [busy |-> r.slave \notin ready, ack |-> r.slave \in ready,
                                 data |-> r, fault |-> FALSE]
    BY <2>1, <2>2 DEF slv2demux
  <2>5. r.slave # NumSlaves
    BY <2>1
  <2>6. \A s \in Slaves : s # r.slave => ~slv2demux(s).busy
    BY DEF OnDemux, slv2demux, Idle
  <2>7. CASE r = Nop
    <3>1. ~demux2mst.busy /\ ~demux2mst.ack
      BY <2>3, <2>7 DEF Idle
    <3>2. \A s \in Slaves : ~slv2demux(s).busy
      BY <2>2, <2>6, <3>1
    <3>3. QED
      BY <2>3, <2>7, <3>1, <3>2
  <2>8. CASE r # Nop
    <3>1. (demux2mst.ack \/ demux2mst.busy) /\ ~(demux2mst.busy /\ demux2mst.ack)
      <4>1. CASE r.slave \in ready
        <5>1. (r.slave \notin ready) = FALSE /\ (r.slave \in ready) = TRUE
          BY <4>1
        <5>2. demux2mst = [busy |-> FALSE, ack |-> TRUE, data |-> r, fault |-> FALSE]
          BY <2>4, <2>8, <5>1
        <5>3. QED
          BY <5>2
      <4>2. CASE r.slave \notin ready
        <5>1. (r.slave \notin ready) = TRUE /\ (r.slave \in ready) = FALSE
          BY <4>2
        <5>2. demux2mst = [busy |-> TRUE, ack |-> FALSE, data |-> r, fault |-> FALSE]
          BY <2>4, <2>8, <5>1
        <5>3. QED
          BY <5>2
      <4>3. QED
        BY <4>1, <4>2
    <3>2. Carries(demux2mst, r)
      BY <2>4, <2>5, <2>8 DEF Carries
    <3>3. \A s \in Slaves : slv2demux(s).busy => s = r.slave /\ demux2mst.busy
      BY <2>2, <2>6
    <3>4. QED
      BY <2>8, <3>1, <3>2, <3>3
  <2>9. QED
    BY <2>7, <2>8
<1>2. CASE r.slave = NumSlaves
  <2>1. demux2mst = OutOfRange
    BY <1>2, FabricAssumption DEF OnDemux, demux2mst
  <2>2. r # Nop
    BY <1>2
  <2>3. \A s \in Slaves : ~slv2demux(s).busy
    BY <1>2, FabricAssumption DEF OnDemux, slv2demux, Idle, Slaves
  <2>4. QED
    BY <1>2, <2>1, <2>2, <2>3 DEF OutOfRange, Carries
<1>3. QED
  BY <1>1, <1>2

\* What the arbiter sees: the owner's answer, or none.
LEMMA ArbiterView ==
  ASSUME FabricInv
  PROVE  /\ slv2arb.ack => Carries(slv2arb, Owner) /\ ~slv2arb.busy
         /\ slv2arb.busy => Owner # Nop
         /\ Owner # Nop => slv2arb.busy \/ slv2arb.ack
<1> USE DEF FabricInv
<1>1. PICK r \in {Nop, Owner} : /\ OnDemux(r)
                                /\ ~staged => r = Owner
                                /\ staged /\ stageAns.ack => r = Nop
  BY DEF OneTransfer
<1>2. r \in AnyRequest /\ Owner \in AnyRequest
  BY <1>1, CycleTypes, RequestShape
<1>3. CASE ~staged
  <2>1. slv2arb = demux2mst
    BY <1>3, Zenon DEF slv2arb
  <2>2. r = Owner
    BY <1>1, <1>3, Zenon
  <2>3. demux2mst.busy \in BOOLEAN /\ demux2mst.ack \in BOOLEAN
    BY CycleTypes DEF Answer
  <2>4. /\ Owner = Nop => demux2mst = Idle
        /\ Owner # Nop => demux2mst.ack \/ demux2mst.busy
        /\ ~(demux2mst.busy /\ demux2mst.ack)
        /\ demux2mst.ack => Carries(demux2mst, Owner)
    BY <1>1, <1>2, <2>2, DemuxAnswer
  <2>5. Owner = Nop => ~demux2mst.busy /\ ~demux2mst.ack
    BY <2>4 DEF Idle
  <2>6. QED
    BY <2>1, <2>3, <2>4, <2>5
<1>4. CASE staged
  <2>3. /\ slv2arb.busy = (stageReq # Nop /\ ~stageAns.ack)
        /\ slv2arb.ack = stageAns.ack
        /\ slv2arb.data = stageAns.data
        /\ slv2arb.fault = stageAns.fault
    BY <1>4 DEF slv2arb, stage2mst
  <2>4. stageReq = Owner /\ (stageAns.ack => Carries(stageAns, Owner))
    BY <1>4 DEF StageFollows
  <2>5. QED
    BY <2>3, <2>4 DEF Carries
<1>5. QED
  BY <1>3, <1>4

\* While the transfer of the owner is in progress, nothing moves: the grant
\* stays and the owner's request is still there.
LEMMA BusyHolds ==
  ASSUME FabricInv, slv2arb.busy
  PROVE  requestSelect = resultSelect /\ arb2slv = Owner
<1>1. requestSelect = resultSelect
  BY DEF requestSelect, MayMove
<1>2. Owner # Nop /\ ~slv2arb.ack /\ resultSelect \in Masters
  BY ArbiterView DEF FabricInv, TypeOK
<1>3. busyTo(resultSelect)
  BY <1>2 DEF busyTo, ackTo, Owner
<1>4. QED
  BY <1>1, <1>2, <1>3 DEF FabricInv, Holding, arb2slv, Owner

-----------------------------------------------------------------------------
(* The clock edge. *)

\* The arbiter's registers follow the request it forwards.
LEMMA OwnerNext ==
  ASSUME TypeOK, Tick
  PROVE  resultSelect' = requestSelect /\ Owner' = arb2slv
<1>1. resultSelect' = requestSelect
  BY DEF Tick, ArbiterEdge, ResultNext, requestSelect, MayMove
<1>2. QED
  BY <1>1 DEF Tick, ArbiterEdge, Owner, arb2slv

\* The demultiplexer and its slaves take the request q that is on its bus,
\* provided that the one in progress stays there.
LEMMA DemuxNext ==
  ASSUME TypeOK, Tick, NEW r \in AnyRequest, OnDemux(r),
         NEW q \in AnyRequest, q = mst2demux, demux2mst.busy => q = r
  PROVE  OnDemux(q)'
<1>1. selectResult' = q.slave
  <2>1. CASE demux2mst.busy
    BY <2>1 DEF Tick, DemuxEdge, SelectNext, OnDemux
  <2>2. CASE ~demux2mst.busy
    BY <2>2 DEF Tick, DemuxEdge, SelectNext
  <2>3. QED
    BY <2>1, <2>2
<1>2. ASSUME NEW s \in Slaves
      PROVE  (IF slv2demux(s).busy THEN cmd[s] ELSE demux2slv(s))
                = (IF q.slave = s THEN q ELSE Nop)
  <2>1. CASE slv2demux(s).busy
    BY <2>1, DemuxAnswer DEF OnDemux
  <2>2. CASE ~slv2demux(s).busy
    BY <2>2 DEF demux2slv
  <2>3. QED
    BY <2>1, <2>2
<1>3. cmd' = [s \in Slaves |-> IF q.slave = s THEN q ELSE Nop]
  BY <1>2 DEF Tick, SlaveEdge
<1>4. QED
  BY <1>1, <1>3 DEF OnDemux

\* A clock cycle keeps every register within its type.
LEMMA TypeNext ==
  ASSUME TypeOK, Tick
  PROVE  TypeOK'
<1> USE DEF TypeOK
<1>1. staged' \in BOOLEAN /\ asked' \in Wishes
  BY DEF Tick, ArbiterEdge
<1>2. locked' \in BOOLEAN
  BY CycleTypes, RequestShape DEF Tick, ArbiterEdge, LockNext
<1>3. resultSelect' \in Masters
  BY OwnerNext, CycleTypes
<1>4. stageReq' \in AnyRequest
  BY CycleTypes, RequestShape DEF Tick, StageEdge
<1>5. stageAns' \in Answer
  <2>1. Idle \in Answer
    BY RequestShape DEF Idle, Answer
  <2>2. QED
    BY <2>1, CycleTypes DEF Tick, StageEdge
<1>6. selectResult' \in 0..NumSlaves
  BY CycleTypes, RequestShape DEF Tick, DemuxEdge, SelectNext
<1>7. cmd' \in [Slaves -> AnyRequest]
  <2>1. ASSUME NEW s \in Slaves
        PROVE  (IF slv2demux(s).busy THEN cmd[s] ELSE demux2slv(s)) \in AnyRequest
    BY CycleTypes, RequestShape DEF demux2slv
  <2>2. QED
    BY <2>1 DEF Tick, SlaveEdge
<1>8. ready' \in SUBSET Slaves
  BY DEF Tick, NextInputs
<1>9. req' \in Wishes
  <2>1. PICK held \in {{m \in Masters : busyTo(m)'}} :
          req' \in {[m \in Masters |-> IF m \in held THEN asked'[m] ELSE wish[m]] : wish \in Wishes}
    BY DEF Tick, NextInputs
  <2>2. PICK wish \in Wishes :
          req' = [m \in Masters |-> IF m \in held THEN asked'[m] ELSE wish[m]]
    BY <2>1
  <2>3. QED
    BY <1>1, <2>2 DEF Wishes
<1>10. wait' \in [Masters -> Nat]
  <2>1. ASSUME NEW m \in Masters
        PROVE  (IF ~busyTo(m) THEN 0
                ELSE IF slv2arb.ack /\ ~locked THEN wait[m] + 1
                ELSE wait[m]) \in Nat
    OBVIOUS
  <2>2. QED
    BY <2>1 DEF Tick, CountWaits
<1>11. QED
  BY <1>1, <1>2, <1>3, <1>4, <1>5, <1>6, <1>7, <1>8, <1>9, <1>10

\* A master that the fabric keeps busy holds its request.
LEMMA HoldingNext ==
  ASSUME Tick
  PROVE  Holding'
<1>1. PICK held \in {{m \in Masters : busyTo(m)'}} :
        req' \in {[m \in Masters |-> IF m \in held THEN asked'[m] ELSE wish[m]] : wish \in Wishes}
  BY DEF Tick, NextInputs
<1>2. ASSUME NEW m \in Masters, busyTo(m)'
      PROVE  req'[m] = asked'[m]
  BY <1>1, <1>2
<1>3. QED
  BY <1>2 DEF Holding

\* Without the stage the slaves get what the arbiter forwards.
LEMMA UnstagedNext ==
  ASSUME FabricInv, Tick, ~staged
  PROVE  OneTransfer' /\ StageFollows'
<1> USE DEF FabricInv
<1>1. OnDemux(Owner) /\ Owner \in AnyRequest
  BY CycleTypes DEF OneTransfer
<1>2. mst2demux = arb2slv /\ slv2arb = demux2mst
  BY Zenon DEF mst2demux, slv2arb
<1>3. demux2mst.busy => arb2slv = Owner
  BY <1>2, BusyHolds
<1>4. PICK q \in AnyRequest : q = arb2slv
  BY CycleTypes
<1>5. OnDemux(q)'
  BY <1>1, <1>2, <1>3, <1>4, DemuxNext
<1>6. q = Owner'
  BY <1>4, OwnerNext
<1>7. ~staged'
  BY DEF Tick
<1>8. OneTransfer'
  BY <1>5, <1>6, <1>7 DEF OneTransfer
<1>9. QED
  BY <1>7, <1>8 DEF StageFollows

\* With the stage, a request reaches the slaves a cycle later, its result
\* reaches the arbiter a cycle later, and the request is gone by then.
LEMMA StagedNext ==
  ASSUME FabricInv, Tick, staged
  PROVE  OneTransfer' /\ StageFollows'
<1> USE DEF FabricInv
<1>1. PICK r \in {Nop, Owner} : OnDemux(r) /\ (stageAns.ack => r = Nop)
  BY DEF OneTransfer
<1>2. r \in AnyRequest /\ Owner \in AnyRequest /\ Nop \in AnyRequest
  BY <1>1, CycleTypes, RequestShape
<1>3. /\ staged' = staged
      /\ stageReq' = arb2slv
      /\ stageAns' = demux2mst
      /\ Owner' = arb2slv
      /\ mst2demux = stage2slv
  BY OwnerNext, Zenon DEF Tick, StageEdge, mst2demux
<1>4. stageReq = Owner
  BY DEF StageFollows
<1>5. CASE stageAns.ack \/ stageReq = Nop
  <2>1. r = Nop
    BY <1>1, <1>4, <1>5
  <2>2. demux2mst = Idle
    BY <1>1, <1>2, <2>1, DemuxAnswer
  <2>3. mst2demux = Nop
    BY <1>3, <1>5 DEF stage2slv
  <2>4. OnDemux(Nop)'
    BY <1>1, <1>2, <2>1, <2>3, DemuxNext
  <2>5. ~stageAns'.ack
    BY <1>3, <2>2 DEF Idle
  <2>6. OneTransfer'
    BY <1>3, <2>4 DEF OneTransfer
  <2>7. QED
    BY <1>3, <2>5, <2>6 DEF StageFollows
<1>6. CASE ~stageAns.ack /\ stageReq # Nop
  <2>1. slv2arb.busy
    BY <1>6 DEF slv2arb, stage2mst
  <2>2. arb2slv = Owner
    BY <2>1, BusyHolds
  <2>3. CASE demux2mst.ack
    <3>1. ~demux2mst.busy /\ Carries(demux2mst, r)
      BY <1>1, <1>2, <2>3, DemuxAnswer
    <3>2. r = Owner
      BY <1>1, <3>1 DEF Carries
    <3>3. mst2demux = Nop
      BY <1>3, <2>3 DEF stage2slv
    <3>4. OnDemux(Nop)'
      BY <1>1, <1>2, <3>1, <3>3, DemuxNext
    <3>5. OneTransfer'
      BY <1>3, <3>4 DEF OneTransfer
    <3>6. Carries(stageAns, stageReq)'
      BY <1>3, <2>2, <3>1, <3>2 DEF Carries
    <3>7. QED
      BY <1>3, <3>5, <3>6 DEF StageFollows
  <2>4. CASE ~demux2mst.ack
    <3>1. mst2demux = stageReq
      BY <1>3, <1>6, <2>4 DEF stage2slv
    <3>2. demux2mst.busy => stageReq = r
      <4>1. r = Nop => ~demux2mst.busy
        BY <1>1, <1>2, DemuxAnswer DEF Idle
      <4>2. QED
        BY <1>1, <1>4, <4>1
    <3>3. PICK q \in AnyRequest : q = stageReq
      BY <1>2, <1>4
    <3>4. OnDemux(q)'
      BY <1>1, <1>2, <3>1, <3>2, <3>3, DemuxNext
    <3>5. q = Owner' /\ ~stageAns'.ack
      BY <1>3, <1>4, <2>2, <2>4, <3>3
    <3>6. OneTransfer'
      BY <1>3, <3>4, <3>5 DEF OneTransfer
    <3>7. QED
      BY <1>3, <3>5, <3>6 DEF StageFollows
  <2>5. QED
    BY <2>3, <2>4
<1>7. QED
  BY <1>5, <1>6

-----------------------------------------------------------------------------
\* The registers of arbiter, stage, demultiplexer and slaves always agree on
\* the one transfer that is in progress.
THEOREM FabricInvariant == Spec => []FabricInv
<1>1. Init => FabricInv
  <2> SUFFICES ASSUME Init
               PROVE  FabricInv
    OBVIOUS
  <2>1. req \in Wishes /\ asked \in Wishes
    BY RequestShape DEF Init, Wishes
  <2>2. Idle \in Answer
    BY RequestShape DEF Idle, Answer
  <2>3. 0 \in Masters
    BY FabricAssumption DEF Masters
  <2>4. TypeOK
    BY <2>1, <2>2, <2>3, RequestShape DEF Init, TypeOK
  <2>5. \A m \in Masters : asked[m] = Nop
    BY DEF Init
  <2>6. OnDemux(Nop) /\ Owner = Nop
    BY <2>3, <2>5, RequestShape DEF Init, OnDemux, Owner
  <2>7. ~stageAns.ack /\ stageReq = Nop
    BY DEF Init, Idle
  <2>8. QED
    BY <2>4, <2>5, <2>6, <2>7 DEF FabricInv, Holding, busyTo, OneTransfer, StageFollows
<1>2. FabricInv /\ [Tick]_vars => FabricInv'
  <2> SUFFICES ASSUME FabricInv, [Tick]_vars
               PROVE  FabricInv'
    OBVIOUS
  <2>1. CASE Tick
    <3>1. TypeOK' /\ Holding'
      BY <2>1, TypeNext, HoldingNext DEF FabricInv
    <3>2. OneTransfer' /\ StageFollows'
      BY <2>1, UnstagedNext, StagedNext
    <3>3. QED
      BY <3>1, <3>2 DEF FabricInv
  <2>2. CASE UNCHANGED vars
    BY <2>2 DEF vars, FabricInv, TypeOK, Holding, busyTo, ackTo, slv2arb, stage2mst, demux2mst,
                slv2demux, OneTransfer, OnDemux, Owner, StageFollows, Carries
  <2>3. QED
    BY <2>1, <2>2
<1>3. QED
  BY <1>1, <1>2, PTL DEF Spec

\* Every acknowledge reaches the master whose request was carried out, with
\* the result of the slave it addressed or with the fault, for every number of
\* masters and slaves, with and without the stage.
THEOREM EveryAnswerRight == Spec => []RightAnswer
<1>1. FabricInv => RightAnswer
  <2> SUFFICES ASSUME FabricInv, NEW m \in Masters, ackTo(m)
               PROVE  Carries(slv2arb, asked[m])
    BY DEF RightAnswer, Carries
  <2>1. QED
    BY ArbiterView DEF ackTo, Owner
<1>2. QED
  BY <1>1, FabricInvariant, PTL

\* A slave sees its request until it is done with it, only one slave works at
\* a time, and only on what a master still waits for.
THEOREM EveryRequestHeld == Spec => []RequestHeld
<1>1. FabricInv => RequestHeld
  <2> SUFFICES ASSUME FabricInv
               PROVE  RequestHeld
    OBVIOUS
  <2> USE DEF FabricInv
  <2>1. PICK r \in {Nop, Owner} : /\ OnDemux(r)
                                  /\ ~staged => r = Owner
                                  /\ staged /\ stageAns.ack => r = Nop
    BY DEF OneTransfer
  <2>2. r \in AnyRequest /\ Owner \in AnyRequest
    BY <2>1, CycleTypes, RequestShape
  <2>3. ASSUME NEW s \in Slaves, slv2demux(s).busy
        PROVE  demux2slv(s) = cmd[s]
    <3>1. s = r.slave /\ demux2mst.busy /\ ~demux2mst.ack /\ r # Nop
      BY <2>1, <2>2, <2>3, DemuxAnswer DEF Idle
    <3>2. r = Owner /\ cmd[s] = r
      BY <2>1, <3>1 DEF OnDemux
    <3>3. CASE ~staged
      <4>1. slv2arb.busy /\ mst2demux = arb2slv
        BY <3>1, <3>3, Zenon DEF slv2arb, mst2demux
      <4>2. QED
        BY <3>1, <3>2, <4>1, BusyHolds DEF demux2slv
    <3>4. CASE staged
      <4>1. ~stageAns.ack /\ stageReq = r
        BY <2>1, <3>1, <3>2, <3>4 DEF StageFollows
      <4>2. mst2demux = r
        BY <3>1, <3>4, <4>1 DEF mst2demux, stage2slv
      <4>3. QED
        BY <3>1, <3>2, <4>2 DEF demux2slv
    <3>5. QED
      BY <3>3, <3>4
  <2>4. ASSUME NEW s \in Slaves, cmd[s] # Nop
        PROVE  s = r.slave /\ cmd[s] = Owner
    BY <2>1, <2>4 DEF OnDemux
  <2>5. resultSelect \in Masters
    BY DEF TypeOK
  <2>6. QED
    BY <2>3, <2>4, <2>5 DEF RequestHeld, Owner
<1>2. QED
  BY <1>1, FabricInvariant, PTL

\* While a master that has the bus asserts lock, the arbiter forwards no other
\* master's request in the next cycle.
THEOREM LockIsKept == Spec => LockKept
<1>1. [Tick]_vars => [arb2slv.lock => requestSelect' = requestSelect]_vars
  <2> SUFFICES ASSUME Tick, arb2slv.lock
               PROVE  requestSelect' = requestSelect
    OBVIOUS
  <2>1. resultSelect' = requestSelect
    BY DEF Tick, ArbiterEdge, ResultNext, requestSelect, MayMove
  <2>2. locked'
    BY DEF Tick, ArbiterEdge, LockNext
  <2>3. requestSelect' = resultSelect'
    BY <2>2 DEF requestSelect, MayMove
  <2>4. QED
    BY <2>1, <2>3
<1>2. QED
  BY <1>1, PTL DEF Spec, LockKept

-----------------------------------------------------------------------------
(* How long a master waits. *)

\* A master that the scan stops at before m is nearer to m.
LEMMA Nearer ==
  ASSUME NEW i \in Masters, NEW q \in Masters, NEW m \in Masters,
         m # i, q # m, Between(i, q) <= Between(i, m)
  PROVE  Between(q, m) <= Between(i, m) - 1
<1>1. /\ NumMasters \in Nat /\ i \in Int /\ q \in Int /\ m \in Int
      /\ 0 <= i /\ i < NumMasters /\ 0 <= q /\ q < NumMasters /\ 0 <= m /\ m < NumMasters
  BY FabricAssumption DEF Masters
<1>2. /\ Between(i, q) = IF q > i THEN q - i - 1 ELSE q - i - 1 + NumMasters
      /\ Between(i, m) = IF m > i THEN m - i - 1 ELSE m - i - 1 + NumMasters
      /\ Between(q, m) = IF m > q THEN m - q - 1 ELSE m - q - 1 + NumMasters
  BY BetweenValue
<1>3. QED
  BY <1>1, <1>2

\* A transfer that a master waits for is one of a master before it in turn.
LEMMA TurnComesNext ==
  ASSUME FabricInv, TurnComes, Tick
  PROVE  TurnComes'
<1> USE DEF FabricInv
<1>1. resultSelect' = requestSelect /\ requestSelect \in Masters /\ resultSelect \in Masters
  BY OwnerNext, CycleTypes DEF TypeOK
<1>2. SUFFICES ASSUME NEW m \in Masters
               PROVE  wait'[m] <= IF m = requestSelect THEN NumMasters - 1
                                  ELSE NumMasters - 2 - Between(requestSelect, m)
  BY <1>1 DEF TurnComes, Between
<1>3. wait'[m] = IF ~busyTo(m) THEN 0
                 ELSE IF slv2arb.ack /\ ~locked THEN wait[m] + 1
                 ELSE wait[m]
  BY DEF Tick, CountWaits
<1>4. /\ wait[m] \in Nat /\ NumMasters \in Nat \ {0}
      /\ wait[m] <= IF m = resultSelect THEN NumMasters - 1
                    ELSE NumMasters - 2 - Between(resultSelect, m)
  BY FabricAssumption DEF TypeOK, TurnComes
<1>5. /\ Between(requestSelect, m) \in Int /\ Between(resultSelect, m) \in Nat
      /\ m # requestSelect => Between(requestSelect, m) <= NumMasters - 2
  BY <1>1, FabricAssumption, BetweenValue
<1>6. CASE ~busyTo(m)
  BY <1>3, <1>4, <1>5, <1>6
<1>7. CASE busyTo(m) /\ m = resultSelect
  <2>1. slv2arb.busy /\ ~slv2arb.ack
    BY <1>7, ArbiterView DEF busyTo, ackTo, Owner
  <2>2. requestSelect = m
    BY <1>7, <2>1, BusyHolds
  <2>3. wait'[m] = wait[m]
    BY <1>3, <1>7, <2>1
  <2>4. QED
    BY <1>4, <1>7, <2>2, <2>3
<1>8. CASE busyTo(m) /\ m # resultSelect /\ ~MayMove
  <2>1. requestSelect = resultSelect
    BY <1>8 DEF requestSelect
  <2>2. ~(slv2arb.ack /\ ~locked)
    BY <1>8, ArbiterView DEF MayMove
  <2>3. QED
    BY <1>3, <1>4, <1>8, <2>1, <2>2
<1>9. CASE busyTo(m) /\ m # resultSelect /\ MayMove
  <2>1. req[m] # Nop
    BY <1>9 DEF Holding, busyTo
  <2>2. requestSelect = getNextSetIndex(resultSelect, {n \in Masters : req[n] # Nop})
    BY <1>9 DEF requestSelect
  <2>3. Between(resultSelect, requestSelect) <= Between(resultSelect, m)
    BY <1>1, <2>1, <2>2, NextSetIndex
  <2>4. wait'[m] <= wait[m] + 1 /\ wait'[m] \in Nat
    BY <1>3, <1>4
  <2>5. m # requestSelect => Between(requestSelect, m) <= Between(resultSelect, m) - 1
    BY <1>1, <1>9, <2>3, Nearer
  <2>6. QED
    BY <1>4, <1>5, <1>9, <2>4, <2>5
<1>10. QED
  BY <1>6, <1>7, <1>8, <1>9

\* Nobody waits for more than one transfer, or locked sequence of transfers, of
\* each of the other masters: the arbiter is fair for every number of masters.
THEOREM WaitIsBounded == Spec => []BoundedWait
<1>1. Init => TurnComes
  <2> SUFFICES ASSUME Init, NEW m \in Masters
               PROVE  wait[m] <= IF m = resultSelect THEN NumMasters - 1
                                 ELSE NumMasters - 2 - Between(resultSelect, m)
    BY DEF TurnComes
  <2>1. wait[m] = 0 /\ resultSelect \in Masters
    BY FabricAssumption DEF Init, Masters
  <2>2. Between(resultSelect, m) \in Int
        /\ (m # resultSelect => Between(resultSelect, m) <= NumMasters - 2)
    BY <2>1, FabricAssumption, BetweenValue
  <2>3. QED
    BY <2>1, <2>2, FabricAssumption
<1>2. FabricInv /\ TurnComes /\ [Tick]_vars => TurnComes'
  <2>1. CASE Tick
    BY <2>1, TurnComesNext
  <2>2. CASE UNCHANGED vars
    BY <2>2 DEF vars, TurnComes, Between
  <2>3. QED
    BY <2>1, <2>2
<1>3. FabricInv /\ TurnComes => BoundedWait
  <2> SUFFICES ASSUME FabricInv, TurnComes, NEW m \in Masters
               PROVE  wait[m] <= NumMasters - 1
    BY DEF BoundedWait
  <2>1. wait[m] \in Nat /\ resultSelect \in Masters
    BY DEF FabricInv, TypeOK
  <2>2. Between(resultSelect, m) \in Nat
    BY <2>1, FabricAssumption, BetweenValue
  <2>3. QED
    BY <2>1, <2>2, FabricAssumption DEF TurnComes
<1>4. QED
  BY <1>1, <1>2, <1>3, FabricInvariant, PTL DEF Spec
=============================================================================
