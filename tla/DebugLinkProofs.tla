--------------------------- MODULE DebugLinkProofs --------------------------
(***************************************************************************)
(* Proofs about the debug link, for every sequence of requests, every      *)
(* pipeline limit, every depth of the line and any number of lost packets. *)
(***************************************************************************)
EXTENDS DebugLink, SequenceFacts

-----------------------------------------------------------------------------
(* Types *)

Coms     == {"page", "write", "read", "prepare", "execute", "barrier", "complete"}
Ops      == [req : Nat, n : Nat, com : Coms]
Commands == [seq : SeqNumbers, com : Coms, req : Nat]
Replies  == [seq : SeqNumbers, result : Nat]

LinkTypes ==
  /\ opQueue \in Seq(Ops) /\ reissueQueue \in Seq(Ops)
  /\ DOMAIN slots \subseteq SeqNumbers /\ \A s \in DOMAIN slots : slots[s] \in Ops
  /\ txSeqCounter \in SeqNumbers /\ rxSeqCounter \in SeqNumbers /\ numIssued \in Int
  /\ queued \in Nat
  /\ toTarget \in Seq(Commands) /\ fromTarget \in Seq(Replies)
  /\ late \in Nat
  /\ prepared \in Nat /\ result \in Nat

-----------------------------------------------------------------------------
(* The counters, however often a timeout comes early.                       *)

Counted ==
  /\ (numIssued - (txSeqCounter - rxSeqCounter)) % 16 = 0
  /\ numIssued <= Cardinality(DOMAIN slots)

-----------------------------------------------------------------------------
(* The window of slots, while no timeout has come early.                    *)

\* The slots in use are the numIssued ones from rxSeqCounter on.
Window ==
  /\ numIssued \in 0 .. 16 /\ numIssued <= MaxIssued
  /\ \A s \in SeqNumbers : s \in DOMAIN slots <=> Distance(s) < numIssued

\* A later packet of a stream is of a later slot.
Ascending(packets) ==
  \A i, j \in 1 .. Len(packets) : i < j => Distance(packets[i].seq) < Distance(packets[j].seq)

\* Every packet on the line is of a slot in use, and replies are of earlier
\* slots than the commands that have still to be handled.
Flight ==
  /\ \A i \in 1 .. Len(toTarget) : Distance(toTarget[i].seq) < numIssued
  /\ \A i \in 1 .. Len(fromTarget) : Distance(fromTarget[i].seq) < numIssued
  /\ Ascending(toTarget) /\ Ascending(fromTarget)
  /\ \A i \in 1 .. Len(fromTarget), j \in 1 .. Len(toTarget) :
       Distance(fromTarget[i].seq) < Distance(toTarget[j].seq)

\* slots is a function, so that it is <<>> when it has no elements.
SlotFunction == slots = [s \in DOMAIN slots |-> slots[s]]

LinkInv == LinkTypes /\ SlotFunction /\ late <= MaxLate /\ Counted /\ (late = 0 => Window /\ Flight)

-----------------------------------------------------------------------------
(* Sequence numbers *)

\* The numbers requeueUntil goes through are the ones closer to rxSeqCounter.
LEMMA SkippedNumbers ==
  ASSUME rxSeqCounter \in SeqNumbers, NEW k \in 0 .. 16, NEW x \in SeqNumbers
  PROVE  /\ Distance(x) \in 0 .. 15
         /\ (\E i \in 1 .. k : x = (rxSeqCounter + i - 1) % 16) <=> Distance(x) < k
<1>1. \A r \in 0 .. 15, y \in 0 .. 15 : (y - r) % 16 \in 0 .. 15
  OBVIOUS
<1>2. \A r \in 0 .. 15, y \in 0 .. 15, i \in 1 .. 16 : y = (r + i - 1) % 16 => (y - r) % 16 = i - 1
  OBVIOUS
<1>3. \A r \in 0 .. 15, y \in 0 .. 15 : y = (r + (((y - r) % 16) + 1) - 1) % 16
  OBVIOUS
<1>4. Distance(x) \in 0 .. 15
  BY <1>1 DEF Distance, SeqNumbers
<1>5. ASSUME NEW i \in 1 .. k, x = (rxSeqCounter + i - 1) % 16 PROVE Distance(x) < k
  <2>1. i \in 1 .. 16
    OBVIOUS
  <2>2. Distance(x) = i - 1
    BY <1>2, <1>5, <2>1 DEF Distance, SeqNumbers
  <2> QED BY <2>2
<1>6. ASSUME Distance(x) < k PROVE \E i \in 1 .. k : x = (rxSeqCounter + i - 1) % 16
  <2>1. Distance(x) + 1 \in 1 .. k
    BY <1>4, <1>6
  <2>2. x = (rxSeqCounter + (Distance(x) + 1) - 1) % 16
    BY <1>3 DEF Distance, SeqNumbers
  <2> QED BY <2>1, <2>2
<1> QED BY <1>4, <1>5, <1>6

\* Different numbers are at different distances.
LEMMA DistanceInjective ==
  ASSUME rxSeqCounter \in SeqNumbers, NEW x \in SeqNumbers, NEW y \in SeqNumbers,
         Distance(x) = Distance(y)
  PROVE  x = y
<1>1. \A r \in 0 .. 15, a \in 0 .. 15, b \in 0 .. 15 : (a - r) % 16 = (b - r) % 16 => a = b
  OBVIOUS
<1> QED BY <1>1 DEF Distance, SeqNumbers

\* The slots requeueUntil leaves.
LEMMA SlotsLeft ==
  ASSUME rxSeqCounter \in SeqNumbers, DOMAIN slots \subseteq SeqNumbers, NEW s \in SeqNumbers
  PROVE  /\ DOMAIN SlotsAfter(s) = {x \in DOMAIN slots : Distance(x) >= Distance(s)}
         /\ \A x \in DOMAIN SlotsAfter(s) : SlotsAfter(s)[x] = slots[x]
<1>1. Distance(s) \in 0 .. 15
  BY SkippedNumbers
<1>2. \A i \in 1 .. Distance(s) : Skipped(s)[i] = (rxSeqCounter + i - 1) % 16
  BY DEF Skipped
<1>3. ASSUME NEW x \in DOMAIN slots
      PROVE  (\A i \in 1 .. Distance(s) : x # Skipped(s)[i]) <=> Distance(x) >= Distance(s)
  <2>1. x \in SeqNumbers /\ Distance(s) \in 0 .. 16
    BY <1>1
  <2>2. /\ Distance(x) \in 0 .. 15
        /\ (\E i \in 1 .. Distance(s) : x = (rxSeqCounter + i - 1) % 16) <=> Distance(x) < Distance(s)
    BY <2>1, SkippedNumbers
  <2> QED BY <1>1, <1>2, <2>2
<1> QED BY <1>3 DEF SlotsAfter

\* No more than k of the numbers are closer than k.
LEMMA CloseNumbers ==
  ASSUME rxSeqCounter \in SeqNumbers, NEW k \in 0 .. 16
  PROVE  LET T == {x \in SeqNumbers : Distance(x) < k}
         IN  IsFiniteSet(T) /\ Cardinality(T) <= k
<1> DEFINE T == {x \in SeqNumbers : Distance(x) < k}
           f == [i \in 1 .. k |-> (rxSeqCounter + i - 1) % 16]
<1>1. f \in Surjection(1 .. k, T)
  <2>1. \A i \in 1 .. k : f[i] \in SeqNumbers
    BY DEF SeqNumbers
  <2>2. \A i \in 1 .. k : Distance(f[i]) < k
    BY <2>1, SkippedNumbers
  <2>3. \A t \in T : \E i \in 1 .. k : f[i] = t
    BY SkippedNumbers
  <2> QED BY <2>1, <2>2, <2>3 DEF Surjection
<1>2. IsFiniteSet(1 .. k) /\ Cardinality(1 .. k) = k
  <2>1. PICK a \in Int, b \in Int : a = 1 /\ b = k
    OBVIOUS
  <2>2. IsFiniteSet(a .. b) /\ Cardinality(a .. b) = IF a > b THEN 0 ELSE b - a + 1
    BY FS_Interval
  <2> QED BY <2>1, <2>2
<1> HIDE DEF T, f
<1>3. IsFiniteSet(T) /\ Cardinality(T) <= Cardinality(1 .. k)
  BY <1>1, <1>2, FS_Surjection
<1> QED BY <1>2, <1>3 DEF T

\* Dropping the slots closer than k drops k of them at the most.
LEMMA SlotsDropped ==
  ASSUME rxSeqCounter \in SeqNumbers, NEW D \in SUBSET SeqNumbers, NEW k \in 0 .. 16
  PROVE  LET E == {x \in D : Distance(x) >= k}
         IN  Cardinality(E) \in Nat /\ Cardinality(D) \in Nat /\ Cardinality(E) >= Cardinality(D) - k
<1> DEFINE T == {x \in SeqNumbers : Distance(x) < k}
           E == {x \in D : Distance(x) >= k}
<1>1. IsFiniteSet(SeqNumbers)
  <2>1. PICK a \in Int, b \in Int : a = 0 /\ b = 15
    OBVIOUS
  <2>2. IsFiniteSet(a .. b)
    BY FS_Interval
  <2> QED BY <2>1, <2>2 DEF SeqNumbers
<1>2. IsFiniteSet(D)
  BY <1>1, FS_Subset
<1>3. IsFiniteSet(T) /\ Cardinality(T) <= k
  BY CloseNumbers
<1>4. E = D \ T
  <2>1. \A x \in D : Distance(x) \in 0 .. 15
    BY SkippedNumbers
  <2> QED BY <2>1
<1> HIDE DEF E, T
<1>5. IsFiniteSet(E) /\ Cardinality(E) = Cardinality(D) - Cardinality(D \cap T)
  BY <1>2, <1>4, FS_Difference
<1>6. D \cap T \in SUBSET T /\ IsFiniteSet(D \cap T) /\ Cardinality(D \cap T) <= Cardinality(T)
  <2>1. D \cap T \in SUBSET T
    OBVIOUS
  <2> QED BY <1>3, <2>1, FS_Subset
<1>7. Cardinality(E) \in Nat /\ Cardinality(D) \in Nat /\ Cardinality(T) \in Nat
      /\ Cardinality(D \cap T) \in Nat
  BY <1>2, <1>3, <1>5, <1>6, FS_CardinalityType
<1>8. Cardinality(E) >= Cardinality(D) - k
  BY <1>3, <1>5, <1>6, <1>7
<1> QED BY <1>7, <1>8 DEF E

\* The slots of the pipeline can be counted.
LEMMA SlotsFinite ==
  ASSUME NEW D, D \subseteq SeqNumbers
  PROVE  IsFiniteSet(D) /\ Cardinality(D) \in Nat
<1>1. IsFiniteSet(SeqNumbers)
  <2>1. PICK a \in Int, b \in Int : a = 0 /\ b = 15
    OBVIOUS
  <2>2. IsFiniteSet(a .. b)
    BY FS_Interval
  <2> QED BY <2>1, <2>2 DEF SeqNumbers
<1>2. IsFiniteSet(D)
  BY <1>1, FS_Subset
<1> QED BY <1>2, FS_CardinalityType

\* The slots that are left when a reply has been handled.
LEMMA ReceivedSlots ==
  ASSUME rxSeqCounter \in SeqNumbers, DOMAIN slots \subseteq SeqNumbers, NEW s \in SeqNumbers
  PROVE  /\ DOMAIN Without(SlotsAfter(s), s) = {x \in DOMAIN slots : Distance(x) >= Distance(s) + 1}
         /\ \A x \in DOMAIN Without(SlotsAfter(s), s) : Without(SlotsAfter(s), s)[x] = slots[x]
<1>1. /\ DOMAIN SlotsAfter(s) = {x \in DOMAIN slots : Distance(x) >= Distance(s)}
      /\ \A x \in DOMAIN SlotsAfter(s) : SlotsAfter(s)[x] = slots[x]
  BY SlotsLeft
<1>2. Distance(s) \in 0 .. 15 /\ \A x \in DOMAIN slots : Distance(x) \in 0 .. 15
  BY SkippedNumbers
<1>3. \A x \in DOMAIN slots : Distance(x) = Distance(s) <=> x = s
  BY DistanceInjective
<1> QED BY <1>1, <1>2, <1>3 DEF Without

\* Packets on the line carry sequence numbers.
LEMMA LineDistances ==
  ASSUME rxSeqCounter \in SeqNumbers, toTarget \in Seq(Commands), fromTarget \in Seq(Replies)
  PROVE  /\ \A i \in 1 .. Len(toTarget) :
              toTarget[i].seq \in SeqNumbers /\ Distance(toTarget[i].seq) \in 0 .. 15
         /\ \A i \in 1 .. Len(fromTarget) :
              fromTarget[i].seq \in SeqNumbers /\ Distance(fromTarget[i].seq) \in 0 .. 15
<1>1. \A i \in 1 .. Len(toTarget) : toTarget[i].seq \in SeqNumbers
  <2> TAKE i \in 1 .. Len(toTarget)
  <2>1. toTarget[i] \in Commands
    BY ElementOfSeq
  <2> QED BY <2>1 DEF Commands
<1>2. \A i \in 1 .. Len(fromTarget) : fromTarget[i].seq \in SeqNumbers
  <2> TAKE i \in 1 .. Len(fromTarget)
  <2>1. fromTarget[i] \in Replies
    BY ElementOfSeq
  <2> QED BY <2>1 DEF Replies
<1>3. \A x \in SeqNumbers : Distance(x) \in 0 .. 15
  BY SkippedNumbers
<1> QED BY ONLY <1>1, <1>2, <1>3

\* What requeueUntil pushes are operations of the slots it empties, each once.
LEMMA SkippedOperations ==
  ASSUME rxSeqCounter \in SeqNumbers, DOMAIN slots \subseteq SeqNumbers,
         \A x \in DOMAIN slots : slots[x] \in Ops, NEW s \in SeqNumbers
  PROVE  /\ SkippedOps(s) \in Seq(Ops)
         /\ \A k \in 1 .. Len(SkippedOps(s)) : \E x \in DOMAIN slots :
              Distance(x) < Distance(s) /\ SkippedOps(s)[k] = slots[x]
         /\ IsInjective(slots) =>
              \A k, l \in 1 .. Len(SkippedOps(s)) : SkippedOps(s)[k] = SkippedOps(s)[l] => k = l
<1> DEFINE at(i) == (rxSeqCounter + i - 1) % 16
           piece(i) == IF at(i) \in DOMAIN slots THEN <<slots[at(i)]>> ELSE <<>>
           seqs == [i \in 1 .. Distance(s) |-> piece(i)]
<1>1. Distance(s) \in 0 .. 15 /\ Distance(s) \in Nat
  <2>1. Distance(s) \in 0 .. 15
    BY SkippedNumbers
  <2> QED BY <2>1
<1>2. SkippedOps(s) = FlattenSeq(seqs)
  BY DEF SkippedOps, Skipped
<1>3. \A i \in 1 .. Distance(s) : piece(i) \in Seq(Ops)
  OBVIOUS
<1>4. seqs \in Seq(Seq(Ops)) /\ Len(seqs) = Distance(s)
  <2> HIDE DEF piece
  <2> QED BY <1>1, <1>3
<1>5. \A i \in 1 .. Distance(s) :
        /\ seqs[i] = piece(i) /\ Len(piece(i)) <= 1
        /\ Len(piece(i)) = 1 => at(i) \in DOMAIN slots /\ piece(i)[1] = slots[at(i)]
  OBVIOUS
<1>6. \A i \in 1 .. Distance(s) : at(i) \in SeqNumbers /\ Distance(at(i)) < Distance(s)
  <2> TAKE i \in 1 .. Distance(s)
  <2>1. at(i) \in SeqNumbers
    BY <1>1 DEF SeqNumbers
  <2>2. Distance(s) \in 0 .. 16 /\ \E j \in 1 .. Distance(s) : at(i) = (rxSeqCounter + j - 1) % 16
    BY <1>1
  <2> HIDE DEF at
  <2> QED BY <2>1, <2>2, SkippedNumbers
<1>7. IsInjective(slots) => Different(seqs)
  <2> SUFFICES ASSUME IsInjective(slots), NEW i \in 1 .. Distance(s), NEW j \in 1 .. Distance(s),
                      Len(seqs[i]) = 1, Len(seqs[j]) = 1, seqs[i][1] = seqs[j][1]
               PROVE  i = j
    BY <1>4 DEF Different
  <2>1. at(i) \in DOMAIN slots /\ at(j) \in DOMAIN slots /\ slots[at(i)] = slots[at(j)]
    <3> HIDE DEF seqs, piece, at
    <3> QED BY <1>5
  <2>2. at(i) = at(j)
    BY <2>1 DEF IsInjective
  <2>3. \A r \in 0 .. 15, a \in 1 .. 15, b \in 1 .. 15 : (r + a - 1) % 16 = (r + b - 1) % 16 => a = b
    OBVIOUS
  <2>4. i \in 1 .. 15 /\ j \in 1 .. 15
    <3>1. \A d \in 0 .. 15 : \A k \in 1 .. d : k \in 1 .. 15
      OBVIOUS
    <3> QED BY ONLY <1>1, <3>1, i \in 1 .. Distance(s), j \in 1 .. Distance(s)
  <2>5. rxSeqCounter \in 0 .. 15
    BY DEF SeqNumbers
  <2> QED BY ONLY <2>2, <2>3, <2>4, <2>5
<1> HIDE DEF seqs, piece, at
<1>8. PICK q : q = FlattenSeq(seqs)
  OBVIOUS
<1>9. /\ q \in Seq(Ops)
      /\ \A k \in 1 .. Len(q) : \E i \in 1 .. Len(seqs) : Len(seqs[i]) = 1 /\ q[k] = seqs[i][1]
      /\ Different(seqs) => \A k, l \in 1 .. Len(q) : q[k] = q[l] => k = l
  <2>1. \A i \in 1 .. Len(seqs) : Len(seqs[i]) <= 1
    BY <1>4, <1>5
  <2>2. seqs \in Seq(Seq(Ops))
    BY <1>4
  <2>3. /\ FlattenSeq(seqs) \in Seq(Ops)
        /\ \A k \in 1 .. Len(FlattenSeq(seqs)) : \E i \in 1 .. Len(seqs) :
             Len(seqs[i]) = 1 /\ FlattenSeq(seqs)[k] = seqs[i][1]
        /\ Different(seqs) => \A k, l \in 1 .. Len(FlattenSeq(seqs)) :
                               FlattenSeq(seqs)[k] = FlattenSeq(seqs)[l] => k = l
    BY ONLY <2>1, <2>2, FlattenOptions, Zenon
  <2> QED BY ONLY <1>8, <2>3
<1>10. \A k \in 1 .. Len(q) : \E x \in DOMAIN slots : Distance(x) < Distance(s) /\ q[k] = slots[x]
  <2> TAKE k \in 1 .. Len(q)
  <2>1. PICK i \in 1 .. Distance(s) : Len(seqs[i]) = 1 /\ q[k] = seqs[i][1]
    BY <1>4, <1>9
  <2>2. at(i) \in DOMAIN slots /\ q[k] = slots[at(i)]
    BY <1>5, <2>1
  <2> QED BY <1>6, <2>2
<1> QED BY <1>2, <1>7, <1>8, <1>9, <1>10

-----------------------------------------------------------------------------
(* Types *)

\* The commands of a request are operations of that request, all different,
\* the answer to the client being the last.
LEMMA RequestOperations ==
  ASSUME NEW r \in Reqs
  PROVE  /\ Operations(r) \in Seq(Ops)
         /\ \A i \in 1 .. Len(Operations(r)) :
              Operations(r)[i].req = r /\ Operations(r)[i].n = i
         /\ \A i \in 1 .. Len(Operations(r)) :
              Operations(r)[i].com = "complete" => i = Len(Operations(r))
<1> DEFINE Plain == Coms \ {"complete"}
<1>1. Requests[r].bulk \in Nat /\ r \in Nat
  <2>1. r \in 1 .. Len(Requests) /\ Requests \in Seq([bulk : Nat, write : BOOLEAN])
    BY SequencerAssumption DEF Reqs
  <2>2. Requests[r] \in [bulk : Nat, write : BOOLEAN]
    BY <2>1, ElementOfSeq
  <2>3. Len(Requests) \in Nat
    BY <2>1, LenProperties
  <2> QED BY <2>1, <2>2, <2>3
<1>2. <<>> \in Seq(Plain) /\ <<"barrier", "page", "barrier">> \in Seq(Plain) /\ queueVolatile \in Seq(Plain)
  BY DEF queueVolatile, Coms
<1>3. ASSUME NEW n \in Nat
      PROVE  [i \in 1 .. n |-> "read"] \in Seq(Plain) /\ [i \in 1 .. n |-> "write"] \in Seq(Plain)
  <2>1. "read" \in Plain /\ "write" \in Plain
    BY DEF Coms
  <2> HIDE DEF Plain
  <2> QED BY <2>1
<1> HIDE DEF Plain
<1>4. \E b \in Seq(Plain) :
        (IF Requests[r].write THEN handleWrite(Requests[r].bulk) ELSE handleRead(Requests[r].bulk))
          = b \o <<"complete">>
  <2>1. CASE Requests[r].write
    <3>1. PICK x, y, z \in Seq(Plain) : handleWrite(Requests[r].bulk) = (x \o y \o z) \o <<"complete">>
      BY <1>1, <1>2, <1>3, Zenon DEF handleWrite
    <3>2. x \o y \o z \in Seq(Plain)
      OBVIOUS
    <3> QED BY ONLY <2>1, <3>1, <3>2, Zenon
  <2>2. CASE ~Requests[r].write
    <3>1. PICK x, y \in Seq(Plain) : handleRead(Requests[r].bulk) = (x \o y) \o <<"complete">>
      BY <1>1, <1>2, <1>3, Zenon DEF handleRead
    <3>2. x \o y \in Seq(Plain)
      OBVIOUS
    <3> QED BY ONLY <2>2, <3>1, <3>2, Zenon
  <2> QED BY <2>1, <2>2
<1>5. PICK b, coms :
        /\ b \in Seq(Plain) /\ coms = b \o <<"complete">>
        /\ Operations(r) = [n \in 1 .. Len(coms) |-> [req |-> r, n |-> n, com |-> coms[n]]]
  BY <1>4, Zenon DEF Operations
<1>6. /\ Len(coms) = Len(b) + 1 /\ Len(b) \in Nat
      /\ \A i \in 1 .. Len(b) : coms[i] # "complete" /\ coms[i] \in Coms
      /\ coms[Len(b) + 1] = "complete"
  BY <1>5 DEF Plain, Coms
<1>7. PICK m \in Nat : m = Len(b)
  BY <1>6
<1>8. Operations(r) = [n \in 1 .. (m + 1) |-> [req |-> r, n |-> n, com |-> coms[n]]]
  BY ONLY <1>5, <1>6, <1>7
<1>9. \A i \in 1 .. (m + 1) : coms[i] \in Coms /\ (coms[i] = "complete" => i = m + 1)
  <2>1. \A i \in 1 .. (m + 1) : i \in 1 .. m \/ i = m + 1
    OBVIOUS
  <2>2. "complete" \in Coms
    BY DEF Coms
  <2> QED BY ONLY <1>6, <1>7, <2>1, <2>2
<1>10. Operations(r) \in Seq(Ops) /\ Len(Operations(r)) = m + 1
  <2>1. \A i \in 1 .. (m + 1) : [req |-> r, n |-> i, com |-> coms[i]] \in Ops
    BY <1>1, <1>9 DEF Ops
  <2> QED BY ONLY <1>8, <2>1, m \in Nat
<1> QED BY <1>8, <1>9, <1>10

USE DEF seqVars, timeVars, cbVars, hostVars, linkVars, targetVars

LEMMA TypesInit == Init => LinkTypes
BY DEF Init, HostInit, LinkInit, TargetInit, LinkTypes, SeqNumbers

\* Sending a command types the line and the slots.
LEMMA IssueTypes ==
  ASSUME LinkTypes, NEW op \in Ops, Issue(op)
  PROVE  /\ DOMAIN slots' = DOMAIN slots \cup {txSeqCounter}
         /\ DOMAIN slots' \subseteq SeqNumbers /\ \A s \in DOMAIN slots' : slots'[s] \in Ops
         /\ txSeqCounter' \in SeqNumbers /\ rxSeqCounter' \in SeqNumbers /\ numIssued' \in Int
         /\ toTarget' \in Seq(Commands) /\ fromTarget' = fromTarget /\ late' = late
<1> USE DEF LinkTypes
<1>1. [seq |-> txSeqCounter, com |-> op.com, req |-> op.req] \in Commands
  BY DEF Ops, Commands
<1>2. toTarget' \in Seq(Commands)
  BY <1>1, AppendProperties DEF Issue, Send
<1>3. txSeqCounter' \in SeqNumbers
  BY DEF Issue, Successor, SeqNumbers
<1>4. /\ DOMAIN slots' = DOMAIN slots \cup {txSeqCounter}
      /\ \A s \in DOMAIN slots' : slots'[s] \in Ops
  BY DEF Issue
<1> QED BY <1>2, <1>3, <1>4 DEF Issue

LEMMA TypesKept == LinkTypes /\ [Next]_vars => LinkTypes'
<1> SUFFICES ASSUME LinkTypes, [Next]_vars PROVE LinkTypes'
  OBVIOUS
<1> USE DEF LinkTypes
<1>1. CASE QueueRequest /\ UNCHANGED targetVars
  <2>1. queued + 1 \in Reqs
    <3>1. Len(Requests) \in Nat
      BY SequencerAssumption, LenProperties
    <3> QED BY <1>1, <3>1 DEF QueueRequest, Reqs
  <2>2. Operations(queued + 1) \in Seq(Ops)
    BY <2>1, RequestOperations
  <2>3. opQueue' \in Seq(Ops)
    BY <1>1, <2>2, ConcatProperties DEF QueueRequest
  <2> QED BY <1>1, <2>3 DEF QueueRequest
<1>2. CASE ReceivePacket /\ UNCHANGED targetVars
  <2>1. /\ Head(fromTarget) \in Replies /\ Tail(fromTarget) \in Seq(Replies)
    BY <1>2, HeadTail DEF ReceivePacket
  <2>2. PICK s \in SeqNumbers : s = Head(fromTarget).seq
    BY <2>1 DEF Replies
  <2>3. Distance(s) \in 0 .. 15 /\ SkippedOps(s) \in Seq(Ops)
    <3>1. Distance(s) \in 0 .. 15
      BY SkippedNumbers
    <3> QED BY <3>1, SkippedOperations
  <2>4. /\ DOMAIN SlotsAfter(s) \subseteq DOMAIN slots
        /\ \A x \in DOMAIN SlotsAfter(s) : SlotsAfter(s)[x] = slots[x]
    BY SlotsLeft
  <2>5. /\ reissueQueue' = reissueQueue \o SkippedOps(s)
        /\ slots' = Without(SlotsAfter(s), s)
        /\ rxSeqCounter' = Successor(s)
        /\ numIssued' = numIssued - Distance(s) - 1
    BY <1>2, <2>2 DEF ReceivePacket
  <2>6. reissueQueue' \in Seq(Ops)
    BY <2>3, <2>5, ConcatProperties
  <2>7. DOMAIN slots' \subseteq SeqNumbers /\ \A x \in DOMAIN slots' : slots'[x] \in Ops
    BY <2>4, <2>5 DEF Without
  <2>8. rxSeqCounter' \in SeqNumbers /\ numIssued' \in Int
    BY <2>3, <2>5 DEF Successor, SeqNumbers
  <2> QED BY <1>2, <2>1, <2>6, <2>7, <2>8 DEF ReceivePacket
<1>3. CASE RetryTimeout /\ UNCHANGED targetVars
  <2>1. PICK s \in SeqNumbers : s = txSeqCounter
    OBVIOUS
  <2>2. Distance(s) \in 0 .. 15 /\ SkippedOps(s) \in Seq(Ops)
    <3>1. Distance(s) \in 0 .. 15
      BY SkippedNumbers
    <3> QED BY <3>1, SkippedOperations
  <2>3. /\ DOMAIN SlotsAfter(s) \subseteq DOMAIN slots
        /\ \A x \in DOMAIN SlotsAfter(s) : SlotsAfter(s)[x] = slots[x]
    BY SlotsLeft
  <2>4. /\ reissueQueue' = reissueQueue \o SkippedOps(s)
        /\ slots' = SlotsAfter(s)
        /\ rxSeqCounter' = s
        /\ numIssued' = numIssued - Distance(s)
    BY <1>3, <2>1 DEF RetryTimeout
  <2>5. reissueQueue' \in Seq(Ops)
    BY <2>2, <2>4, ConcatProperties
  <2>6. DOMAIN slots' \subseteq SeqNumbers /\ \A x \in DOMAIN slots' : slots'[x] \in Ops
    BY <2>3, <2>4
  <2>7. numIssued' \in Int /\ late' \in Nat
    <3>1. numIssued' \in Int
      BY <2>2, <2>4
    <3>2. late' \in Nat
      BY <1>3 DEF RetryTimeout, Timeout
    <3> QED BY <3>1, <3>2
  <2> QED BY <1>3, <2>4, <2>5, <2>6, <2>7 DEF RetryTimeout, Timeout
<1>4. CASE GiveUp /\ UNCHANGED targetVars
  BY <1>4 DEF GiveUp, Timeout
<1>5. CASE Reissue /\ UNCHANGED targetVars
  <2>1. Head(reissueQueue) \in Ops /\ Tail(reissueQueue) \in Seq(Ops) /\ Issue(Head(reissueQueue))
    BY <1>5, HeadTail DEF Reissue
  <2> QED BY <1>5, <2>1, IssueTypes DEF Reissue
<1>6. CASE IssueCommand /\ UNCHANGED targetVars
  <2>1. Head(opQueue) \in Ops /\ Tail(opQueue) \in Seq(Ops) /\ Issue(Head(opQueue))
    BY <1>6, HeadTail DEF IssueCommand
  <2> QED BY <1>6, <2>1, IssueTypes DEF IssueCommand
<1>7. CASE PassBarrier /\ UNCHANGED targetVars
  <2>1. Tail(opQueue) \in Seq(Ops)
    BY <1>7, HeadTail DEF PassBarrier
  <2> QED BY <1>7, <2>1 DEF PassBarrier
<1>8. CASE (RestartTimer \/ KeepWaiting \/ EndUpdate \/ Expire) /\ UNCHANGED targetVars
  BY <1>8 DEF RestartTimer, KeepWaiting, EndUpdate, Expire
<1>9. CASE Line
  <2>1. CASE LoseCommand
    BY <1>9, <2>1, HeadTail DEF Line, LoseCommand
  <2>2. CASE LoseReply
    BY <1>9, <2>2, HeadTail DEF Line, LoseReply
  <2> QED BY <1>9, <2>1, <2>2 DEF Line
<1>10. CASE Target
  <2>1. toTarget # <<>> /\ \E data \in Nat : Answer(data)
    BY <1>10 DEF Target, HandlePacket, HandleSetPage, HandleBulkWrite, HandleBulkRead,
                 HandlePrepare, HandleExecute, HandleExecuteAgain, Incoming
  <2>2. Head(toTarget) \in Commands /\ Tail(toTarget) \in Seq(Commands)
    BY <2>1, HeadTail
  <2>3. fromTarget' \in Seq(Replies) /\ toTarget' \in Seq(Commands) /\ late' = late
    <3>1. PICK data \in Nat : Answer(data)
      BY <2>1
    <3>2. [seq |-> Head(toTarget).seq, result |-> data] \in Replies
      BY <2>2 DEF Commands, Replies
    <3> QED BY <2>2, <3>1, <3>2, AppendProperties DEF Answer
  <2>4. prepared' \in Nat /\ result' \in Nat
    <3>1. Client \in Nat
      BY <2>2 DEF Client, Commands
    <3> QED BY <1>10, <3>1 DEF Target, HandlePacket, HandleSetPage, HandleBulkWrite,
                HandleBulkRead, HandlePrepare, HandleExecute, HandleExecuteAgain
  <2> QED BY <1>10, <2>3, <2>4 DEF Target
<1>11. CASE UNCHANGED vars
  BY <1>11 DEF vars
<1> QED BY <1>1, <1>2, <1>3, <1>4, <1>5, <1>6, <1>7, <1>8, <1>9, <1>10, <1>11
        DEF Next, Host, HostStep

-----------------------------------------------------------------------------
(* The counters *)

\* A step that leaves the sequencer's counters and slots and the line alone.
Quiet == UNCHANGED <<seqVars, linkVars>>

LEMMA QuietSteps ==
  ASSUME QueueRequest \/ RestartTimer \/ KeepWaiting \/ PassBarrier \/ EndUpdate \/ Expire
         \/ UNCHANGED vars
  PROVE  Quiet
BY DEF QueueRequest, RestartTimer, KeepWaiting, PassBarrier, EndUpdate, Expire, vars, Quiet

LEMMA CountedInit == Init => Counted
<1>1. DOMAIN <<>> = {} /\ Cardinality({}) = 0
  BY FS_EmptySet
<1> QED BY <1>1 DEF Init, HostInit, Counted

\* Issuing counts the command and fills an empty slot.
LEMMA CountedIssue ==
  ASSUME LinkTypes, Counted, NEW op \in Ops, Issue(op)
  PROVE  Counted'
<1>1. /\ DOMAIN slots \subseteq SeqNumbers /\ txSeqCounter \in SeqNumbers
      /\ rxSeqCounter \in SeqNumbers /\ numIssued \in Int
  BY DEF LinkTypes
<1>2. /\ txSeqCounter \notin DOMAIN slots /\ DOMAIN slots' = DOMAIN slots \cup {txSeqCounter}
      /\ txSeqCounter' = (txSeqCounter + 1) % 16
      /\ numIssued' = numIssued + 1 /\ rxSeqCounter' = rxSeqCounter
  BY DEF Issue, CanIssue, Successor
<1>3. IsFiniteSet(DOMAIN slots) /\ Cardinality(DOMAIN slots) \in Nat
  BY <1>1, SlotsFinite
<1>4. Cardinality(DOMAIN slots') = Cardinality(DOMAIN slots) + 1
  BY <1>2, <1>3, FS_AddElement
<1>5. \A t \in 0 .. 15, r \in 0 .. 15, n \in Int :
        (n - (t - r)) % 16 = 0 => ((n + 1) - (((t + 1) % 16) - r)) % 16 = 0
  OBVIOUS
<1>6. (numIssued' - (txSeqCounter' - rxSeqCounter')) % 16 = 0
  BY <1>1, <1>2, <1>5 DEF Counted, SeqNumbers
<1>7. numIssued' <= Cardinality(DOMAIN slots')
  BY <1>1, <1>2, <1>3, <1>4 DEF Counted
<1> QED BY <1>6, <1>7 DEF Counted

\* A reply takes as many from the count as it passes numbers, and no more
\* slots than that are emptied.
LEMMA CountedReceive ==
  ASSUME LinkTypes, Counted, ReceivePacket
  PROVE  Counted'
<1>1. /\ DOMAIN slots \subseteq SeqNumbers /\ txSeqCounter \in SeqNumbers
      /\ rxSeqCounter \in SeqNumbers /\ numIssued \in Int
  BY DEF LinkTypes
<1>2. PICK s \in SeqNumbers :
        /\ s = Head(fromTarget).seq
        /\ slots' = Without(SlotsAfter(s), s)
        /\ rxSeqCounter' = (s + 1) % 16 /\ txSeqCounter' = txSeqCounter
        /\ numIssued' = numIssued - Distance(s) - 1
  <2>1. Head(fromTarget) \in Replies
    BY HeadTail DEF LinkTypes, ReceivePacket
  <2>2. Head(fromTarget).seq \in SeqNumbers
    BY <2>1 DEF Replies
  <2> QED BY <2>2 DEF ReceivePacket, Successor
<1>3. Distance(s) \in 0 .. 15
  BY <1>1, SkippedNumbers
<1>4. PICK d \in 0 .. 15 : d = Distance(s)
  BY <1>3
<1>5. DOMAIN slots' = {x \in DOMAIN slots : Distance(x) >= d + 1}
  BY <1>1, <1>2, <1>4, ReceivedSlots
<1>6. PICK D \in SUBSET SeqNumbers : D = DOMAIN slots
  BY <1>1
<1>7. /\ Cardinality(DOMAIN slots') \in Nat /\ Cardinality(DOMAIN slots) \in Nat
      /\ Cardinality(DOMAIN slots') >= Cardinality(DOMAIN slots) - (d + 1)
  <2>1. d + 1 \in 0 .. 16
    OBVIOUS
  <2>2. DOMAIN slots' = {x \in D : Distance(x) >= d + 1}
    BY <1>5, <1>6
  <2> QED BY <1>1, <1>6, <2>1, <2>2, SlotsDropped
<1>8. numIssued' <= Cardinality(DOMAIN slots')
  BY <1>1, <1>2, <1>4, <1>7 DEF Counted
<1>9. \A t \in 0 .. 15, r \in 0 .. 15, y \in 0 .. 15, n \in Int :
        (n - (t - r)) % 16 = 0 => ((n - ((y - r) % 16) - 1) - (t - ((y + 1) % 16))) % 16 = 0
  OBVIOUS
<1>10. (numIssued' - (txSeqCounter' - rxSeqCounter')) % 16 = 0
  <2>1. PICK t \in 0 .. 15, r \in 0 .. 15, y \in 0 .. 15, n \in Int :
          t = txSeqCounter /\ r = rxSeqCounter /\ y = s /\ n = numIssued
    BY <1>1 DEF SeqNumbers
  <2>2. (n - (t - r)) % 16 = 0
    BY <2>1 DEF Counted
  <2>3. ((n - ((y - r) % 16) - 1) - (t - ((y + 1) % 16))) % 16 = 0
    BY <1>9, <2>2
  <2>4. numIssued' = n - ((y - r) % 16) - 1 /\ txSeqCounter' = t /\ rxSeqCounter' = (y + 1) % 16
    BY <1>2, <2>1 DEF Distance
  <2> QED BY <2>3, <2>4
<1> QED BY <1>8, <1>10 DEF Counted

LEMMA CountedRetry ==
  ASSUME LinkTypes, Counted, RetryTimeout
  PROVE  Counted'
<1>1. /\ DOMAIN slots \subseteq SeqNumbers /\ txSeqCounter \in SeqNumbers
      /\ rxSeqCounter \in SeqNumbers /\ numIssued \in Int
  BY DEF LinkTypes
<1>2. /\ slots' = SlotsAfter(txSeqCounter)
      /\ rxSeqCounter' = txSeqCounter /\ txSeqCounter' = txSeqCounter
      /\ numIssued' = numIssued - Distance(txSeqCounter)
  BY DEF RetryTimeout
<1>3. Distance(txSeqCounter) \in 0 .. 15
  BY <1>1, SkippedNumbers
<1>4. PICK d \in 0 .. 16 : d = Distance(txSeqCounter)
  BY <1>3
<1>5. PICK D \in SUBSET SeqNumbers : D = DOMAIN slots
  BY <1>1
<1>6. DOMAIN slots' = {x \in D : Distance(x) >= d}
  BY <1>1, <1>2, <1>4, <1>5, SlotsLeft
<1>7. /\ Cardinality(DOMAIN slots') \in Nat /\ Cardinality(DOMAIN slots) \in Nat
      /\ Cardinality(DOMAIN slots') >= Cardinality(DOMAIN slots) - d
  BY <1>1, <1>5, <1>6, SlotsDropped
<1>8. numIssued' <= Cardinality(DOMAIN slots')
  BY <1>1, <1>2, <1>4, <1>7 DEF Counted
<1>9. \A t \in 0 .. 15, r \in 0 .. 15, n \in Int :
        (n - (t - r)) % 16 = 0 => ((n - ((t - r) % 16)) - (t - t)) % 16 = 0
  OBVIOUS
<1>10. (numIssued' - (txSeqCounter' - rxSeqCounter')) % 16 = 0
  BY <1>1, <1>2, <1>9 DEF Counted, SeqNumbers, Distance
<1> QED BY <1>8, <1>10 DEF Counted

LEMMA CountedKept == LinkTypes /\ Counted /\ [Next]_vars => Counted'
<1> SUFFICES ASSUME LinkTypes, Counted, [Next]_vars PROVE Counted'
  OBVIOUS
<1>1. CASE Quiet
  BY <1>1 DEF Quiet, Counted
<1>2. CASE Reissue
  <2>1. Head(reissueQueue) \in Ops /\ Issue(Head(reissueQueue))
    BY <1>2, HeadTail DEF Reissue, LinkTypes
  <2> QED BY <2>1, CountedIssue
<1>3. CASE IssueCommand
  <2>1. Head(opQueue) \in Ops /\ Issue(Head(opQueue))
    BY <1>3, HeadTail DEF IssueCommand, LinkTypes
  <2> QED BY <2>1, CountedIssue
<1>4. CASE GiveUp
  <2>1. DOMAIN <<>> = {} /\ Cardinality({}) = 0
    BY FS_EmptySet
  <2> QED BY <1>4, <2>1 DEF GiveUp, Counted, LinkTypes, SeqNumbers
<1>5. CASE Line \/ Target
  BY <1>5 DEF Line, Target, Counted
<1> QED BY <1>1, <1>2, <1>3, <1>4, <1>5, QuietSteps, CountedReceive, CountedRetry
        DEF Next, Host, HostStep

-----------------------------------------------------------------------------
(* The window *)

LEMMA WindowInit == Init => Window /\ Flight
<1>2. DOMAIN <<>> = {} /\ Len(<<>>) = 0
  OBVIOUS
<1>3. MaxIssued \in Nat
  BY SequencerAssumption
<1> SUFFICES ASSUME Init PROVE Window /\ Flight
  OBVIOUS
<1>4. Window
  <2>1. \A s \in SeqNumbers : ~(Distance(s) < 0)
    <3>1. rxSeqCounter \in SeqNumbers
      BY DEF Init, HostInit, SeqNumbers
    <3>2. \A s \in SeqNumbers : Distance(s) \in 0 .. 15
      BY <3>1, SkippedNumbers
    <3> QED BY <3>2
  <2> QED BY <1>2, <1>3, <2>1 DEF Init, HostInit, Window
<1>5. Flight
  BY <1>2 DEF Init, LinkInit, Flight, Ascending
<1> QED BY <1>4, <1>5

\* A full pipeline has a slot for every number, so that CanIssue means that
\* txSeqCounter is the first number that is not in use.
LEMMA NextSlot ==
  ASSUME LinkTypes, Counted, Window, CanIssue
  PROVE  numIssued \in 0 .. 15 /\ Distance(txSeqCounter) = numIssued
<1>1. txSeqCounter \in SeqNumbers /\ rxSeqCounter \in SeqNumbers
  BY DEF LinkTypes
<1>2. ~(Distance(txSeqCounter) < numIssued)
  BY <1>1 DEF Window, CanIssue
<1>3. \A t \in 0 .. 15, r \in 0 .. 15, n \in 0 .. 16 :
        (n - (t - r)) % 16 = 0 /\ ~((t - r) % 16 < n) => n \in 0 .. 15 /\ (t - r) % 16 = n
  OBVIOUS
<1> QED BY <1>1, <1>2, <1>3 DEF Counted, Window, Distance, SeqNumbers

LEMMA WindowIssue ==
  ASSUME LinkTypes, Counted, Window, Flight, NEW op \in Ops, Issue(op)
  PROVE  Window' /\ Flight'
<1>1. /\ DOMAIN slots \subseteq SeqNumbers /\ txSeqCounter \in SeqNumbers
      /\ rxSeqCounter \in SeqNumbers
      /\ toTarget \in Seq(Commands) /\ fromTarget \in Seq(Replies)
  BY DEF LinkTypes
<1>2. /\ DOMAIN slots' = DOMAIN slots \cup {txSeqCounter}
      /\ numIssued' = numIssued + 1 /\ numIssued < MaxIssued
      /\ rxSeqCounter' = rxSeqCounter /\ fromTarget' = fromTarget
  BY DEF Issue, CanIssue
<1>3. numIssued \in 0 .. 15 /\ Distance(txSeqCounter) = numIssued
  BY NextSlot DEF Issue
<1>4. \A a \in 0 .. 15, n \in 0 .. 15 : a < n => a < n + 1
  OBVIOUS
<1>5. Window'
  <2>1. ASSUME NEW s \in SeqNumbers
        PROVE  s \in DOMAIN slots' <=> Distance(s) < numIssued + 1
    <3>1. Distance(s) \in 0 .. 15
      BY <1>1, SkippedNumbers
    <3>2. Distance(s) = numIssued <=> s = txSeqCounter
      BY <1>1, <1>3, DistanceInjective
    <3>3. s \in DOMAIN slots <=> Distance(s) < numIssued
      BY DEF Window
    <3> QED BY <1>2, <1>3, <3>1, <3>2, <3>3
  <2>2. numIssued' \in 0 .. 16 /\ numIssued' <= MaxIssued
    BY <1>2, <1>3, SequencerAssumption
  <2> QED BY <1>2, <2>1, <2>2 DEF Window, Distance
<1> DEFINE p == [seq |-> txSeqCounter, com |-> op.com, req |-> op.req]
<1>6. ASSUME toTarget' = toTarget PROVE Flight'
  <2>1. /\ \A i \in 1 .. Len(toTarget) : Distance(toTarget[i].seq) < numIssued + 1
        /\ \A i \in 1 .. Len(fromTarget) : Distance(fromTarget[i].seq) < numIssued + 1
    BY <1>1, <1>3, <1>4, LineDistances DEF Flight
  <2> QED BY <1>2, <1>6, <2>1 DEF Flight, Ascending, Distance
<1>7. ASSUME toTarget' = Append(toTarget, p) PROVE Flight'
  <2>1. PICK m \in Nat : m = Len(toTarget)
    BY <1>1, LenProperties
  <2>2. /\ Len(toTarget') = m + 1
        /\ toTarget'[m + 1].seq = txSeqCounter
        /\ \A i \in 1 .. m : toTarget'[i] = toTarget[i]
    <3>1. p \in Commands
      BY <1>1 DEF Commands, Ops
    <3> QED BY <1>1, <1>7, <2>1, <3>1, AppendProperties
  <2>3. \A i \in 1 .. (m + 1) : i \in 1 .. m \/ i = m + 1
    OBVIOUS
  <2>4. /\ \A i \in 1 .. m : Distance(toTarget[i].seq) < numIssued
        /\ \A i \in 1 .. Len(fromTarget) : Distance(fromTarget[i].seq) < numIssued
        /\ \A i, j \in 1 .. m : i < j => Distance(toTarget[i].seq) < Distance(toTarget[j].seq)
        /\ Ascending(fromTarget)
        /\ \A i \in 1 .. Len(fromTarget), j \in 1 .. m :
             Distance(fromTarget[i].seq) < Distance(toTarget[j].seq)
    BY <2>1 DEF Flight, Ascending
  <2>5. /\ \A i \in 1 .. m : Distance(toTarget[i].seq) \in 0 .. 15
        /\ \A i \in 1 .. Len(fromTarget) : Distance(fromTarget[i].seq) \in 0 .. 15
    BY <1>1, <2>1, LineDistances
  <2>6. \A i \in 1 .. (m + 1) : Distance(toTarget'[i].seq) < numIssued + 1
    <3>1. \A i \in 1 .. m : Distance(toTarget'[i].seq) < numIssued + 1
      BY <1>3, <1>4, <2>2, <2>4, <2>5
    <3>2. Distance(toTarget'[m + 1].seq) < numIssued + 1
      BY <1>3, <2>2
    <3> QED BY <2>3, <3>1, <3>2
  <2>7. \A i \in 1 .. Len(fromTarget) : Distance(fromTarget[i].seq) < numIssued + 1
    BY <1>3, <1>4, <2>4, <2>5
  <2>8. \A i, j \in 1 .. (m + 1) : i < j => Distance(toTarget'[i].seq) < Distance(toTarget'[j].seq)
    <3> SUFFICES ASSUME NEW i \in 1 .. (m + 1), NEW j \in 1 .. (m + 1), i < j
                 PROVE  Distance(toTarget'[i].seq) < Distance(toTarget'[j].seq)
      OBVIOUS
    <3>1. i \in 1 .. m
      OBVIOUS
    <3>2. CASE j \in 1 .. m
      BY <2>2, <2>4, <3>1, <3>2
    <3>3. CASE j = m + 1
      BY <1>3, <2>2, <2>4, <3>1, <3>3
    <3> QED BY <2>3, <3>2, <3>3
  <2>9. \A i \in 1 .. Len(fromTarget), j \in 1 .. (m + 1) :
          Distance(fromTarget[i].seq) < Distance(toTarget'[j].seq)
    BY <1>3, <2>2, <2>3, <2>4
  <2> QED BY <1>2, <2>2, <2>4, <2>6, <2>7, <2>8, <2>9 DEF Flight, Ascending, Distance
<1> QED BY <1>5, <1>6, <1>7 DEF Issue, Send

\* A stream stays ascending when its first packet is taken.
LEMMA TailAscending ==
  ASSUME NEW S, NEW q \in Seq(S), q # <<>>, Ascending(q)
  PROVE  Ascending(Tail(q))
<1>1. PICK m \in Nat : m = Len(q) /\ m >= 1 /\ Len(Tail(q)) = m - 1
  BY HeadTail
<1>2. \A i \in 1 .. (m - 1) : Tail(q)[i] = q[i + 1] /\ i + 1 \in 1 .. m
  BY <1>1, HeadTail
<1>3. \A i, j \in 1 .. (m - 1) : i < j => i + 1 < j + 1
  OBVIOUS
<1>4. \A i, j \in 1 .. m : i < j => Distance(q[i].seq) < Distance(q[j].seq)
  BY <1>1 DEF Ascending
<1>5. \A i, j \in 1 .. (m - 1) : i < j => Distance(Tail(q)[i].seq) < Distance(Tail(q)[j].seq)
  BY ONLY <1>2, <1>3, <1>4
<1> QED BY ONLY <1>1, <1>5 DEF Ascending

\* After a reply to s the numbers beyond s are that much closer.
LEMMA DistanceAfter ==
  ASSUME rxSeqCounter \in SeqNumbers, NEW s \in SeqNumbers, NEW x \in SeqNumbers,
         rxSeqCounter' = (s + 1) % 16
  PROVE  /\ Distance(x) > Distance(s) => Distance(x)' = Distance(x) - Distance(s) - 1
         /\ Distance(x) <= Distance(s) => Distance(x)' = Distance(x) - Distance(s) + 15
<1>1. \A r \in 0 .. 15, a \in 0 .. 15, b \in 0 .. 15 :
        /\ (b - r) % 16 > (a - r) % 16 =>
             (b - ((a + 1) % 16)) % 16 = ((b - r) % 16) - ((a - r) % 16) - 1
        /\ (b - r) % 16 <= (a - r) % 16 =>
             (b - ((a + 1) % 16)) % 16 = ((b - r) % 16) - ((a - r) % 16) + 15
  OBVIOUS
<1>2. Distance(x)' = (x - ((s + 1) % 16)) % 16
  BY DEF Distance
<1>3. rxSeqCounter \in 0 .. 15 /\ s \in 0 .. 15 /\ x \in 0 .. 15
  BY DEF SeqNumbers
<1>4. PICK r \in 0 .. 15 : r = rxSeqCounter
  BY <1>3
<1>5. Distance(x) = (x - r) % 16 /\ Distance(s) = (s - r) % 16
  BY <1>4 DEF Distance
<1> QED BY ONLY <1>1, <1>2, <1>3, <1>5

LEMMA WindowReceive ==
  ASSUME LinkTypes, Window, Flight, ReceivePacket
  PROVE  Window' /\ Flight'
<1>1. /\ DOMAIN slots \subseteq SeqNumbers /\ rxSeqCounter \in SeqNumbers
      /\ toTarget \in Seq(Commands) /\ fromTarget \in Seq(Replies) /\ fromTarget # <<>>
  BY DEF LinkTypes, ReceivePacket
<1>2. /\ fromTarget[1] = Head(fromTarget) /\ 1 \in 1 .. Len(fromTarget)
      /\ \A i \in 1 .. Len(Tail(fromTarget)) :
           Tail(fromTarget)[i] = fromTarget[i + 1] /\ i + 1 \in 1 .. Len(fromTarget)
  <2>1. Len(fromTarget) \in Nat /\ Len(fromTarget) >= 1
    BY <1>1, HeadTail
  <2>2. 1 \in 1 .. Len(fromTarget)
    BY <2>1
  <2> QED BY <1>1, <2>2, HeadTail
<1>3. PICK s \in SeqNumbers :
        /\ s = fromTarget[1].seq
        /\ slots' = Without(SlotsAfter(s), s)
        /\ rxSeqCounter' = (s + 1) % 16
        /\ numIssued' = numIssued - Distance(s) - 1
        /\ fromTarget' = Tail(fromTarget) /\ toTarget' = toTarget
  <2>1. fromTarget[1].seq \in SeqNumbers
    BY <1>1, <1>2, LineDistances
  <2> QED BY <1>2, <2>1 DEF ReceivePacket, Successor
<1>4. PICK d \in 0 .. 15, n \in 0 .. 16 : d = Distance(s) /\ n = numIssued
  BY <1>1, SkippedNumbers DEF Window
<1>5. d < n /\ numIssued' = n - d - 1
  BY <1>2, <1>3, <1>4 DEF Flight
<1>6. \A x \in SeqNumbers : Distance(x) \in 0 .. 15
  BY <1>1, SkippedNumbers
<1>7. ASSUME NEW x \in SeqNumbers
      PROVE  /\ Distance(x) > d => Distance(x)' = Distance(x) - d - 1
             /\ Distance(x) <= d => Distance(x)' = Distance(x) - d + 15
  BY <1>1, <1>3, <1>4, DistanceAfter
<1>8. Window'
  <2>1. n - d - 1 \in 0 .. 16 /\ n - d - 1 <= MaxIssued
    <3>1. n <= MaxIssued /\ MaxIssued \in Int
      BY <1>4, SequencerAssumption DEF Window
    <3>2. \A m \in Int : n <= m => n - d - 1 \in 0 .. 16 /\ n - d - 1 <= m
      BY <1>5
    <3> QED BY ONLY <3>1, <3>2
  <2>2. ASSUME NEW x \in SeqNumbers
        PROVE  x \in DOMAIN slots' <=> Distance(x)' < n - d - 1
    <3>1. x \in DOMAIN slots <=> Distance(x) < n
      BY <1>4 DEF Window
    <3>2. x \in DOMAIN slots' <=> x \in DOMAIN slots /\ Distance(x) >= d + 1
      BY <1>1, <1>3, <1>4, ReceivedSlots
    <3>3. PICK e \in 0 .. 15 : e = Distance(x)
      BY <1>6
    <3>4. \A a \in 0 .. 15, y \in Int :
            /\ a > d => y = a - d - 1
            /\ a <= d => y = a - d + 15
            => (a < n /\ a >= d + 1 <=> y < n - d - 1)
      BY <1>5
    <3>5. Distance(x)' \in Int /\ (e > d => Distance(x)' = e - d - 1)
          /\ (e <= d => Distance(x)' = e - d + 15)
      BY <1>7, <3>3
    <3> QED BY ONLY <3>1, <3>2, <3>3, <3>4, <3>5
  <2> QED BY <1>5, <2>1, <2>2 DEF Window
<1>9. /\ \A i \in 1 .. Len(toTarget) :
           /\ toTarget[i].seq \in SeqNumbers /\ Distance(toTarget[i].seq) \in 0 .. 15
           /\ Distance(toTarget[i].seq) > d /\ Distance(toTarget[i].seq) < n
      /\ \A i \in 1 .. Len(Tail(fromTarget)) :
           /\ Tail(fromTarget)[i].seq \in SeqNumbers /\ Distance(Tail(fromTarget)[i].seq) \in 0 .. 15
           /\ Distance(Tail(fromTarget)[i].seq) > d /\ Distance(Tail(fromTarget)[i].seq) < n
  <2>1. ASSUME NEW i \in 1 .. Len(toTarget)
        PROVE  /\ toTarget[i].seq \in SeqNumbers /\ Distance(toTarget[i].seq) \in 0 .. 15
               /\ Distance(toTarget[i].seq) > d /\ Distance(toTarget[i].seq) < n
    <3>1. toTarget[i].seq \in SeqNumbers /\ Distance(toTarget[i].seq) \in 0 .. 15
      BY <1>1, LineDistances
    <3>2. d < Distance(toTarget[i].seq) /\ Distance(toTarget[i].seq) < n
      BY <1>2, <1>3, <1>4 DEF Flight
    <3> QED BY <3>1, <3>2
  <2>2. ASSUME NEW i \in 1 .. Len(Tail(fromTarget))
        PROVE  /\ Tail(fromTarget)[i].seq \in SeqNumbers /\ Distance(Tail(fromTarget)[i].seq) \in 0 .. 15
               /\ Distance(Tail(fromTarget)[i].seq) > d /\ Distance(Tail(fromTarget)[i].seq) < n
    <3>1. PICK k \in 1 .. Len(fromTarget) : k = i + 1 /\ Tail(fromTarget)[i] = fromTarget[k]
      BY <1>2
    <3>2. 1 < k
      <4>1. \A l, u \in Int : \A j \in 1 .. u : 1 < j + 1
        OBVIOUS
      <4>2. Len(Tail(fromTarget)) \in Int
        BY <1>1, HeadTail
      <4> QED BY <3>1, <4>1, <4>2
    <3>3. fromTarget[k].seq \in SeqNumbers /\ Distance(fromTarget[k].seq) \in 0 .. 15
      BY <1>1, LineDistances
    <3>4. d < Distance(fromTarget[k].seq) /\ Distance(fromTarget[k].seq) < n
      BY <1>2, <1>3, <1>4, <3>2 DEF Flight, Ascending
    <3> QED BY <3>1, <3>3, <3>4
  <2> QED BY <2>1, <2>2
<1>10. PICK q : q = Tail(fromTarget)
  OBVIOUS
<1>11. Flight'
  <2>1. ASSUME NEW x \in SeqNumbers, Distance(x) > d, Distance(x) < n
        PROVE  Distance(x)' < n - d - 1
    BY <1>6, <1>7, <2>1
  <2>2. ASSUME NEW x \in SeqNumbers, NEW y \in SeqNumbers, Distance(x) > d, Distance(y) > d,
               Distance(x) < Distance(y)
        PROVE  Distance(x)' < Distance(y)'
    BY <1>6, <1>7, <2>2
  <2>3. \A i \in 1 .. Len(toTarget) : (toTarget[i].seq - rxSeqCounter') % 16 < n - d - 1
    BY <1>9, <2>1 DEF Distance
  <2>4. \A i \in 1 .. Len(q) : (q[i].seq - rxSeqCounter') % 16 < n - d - 1
    BY <1>9, <1>10, <2>1 DEF Distance
  <2>5. \A i, j \in 1 .. Len(toTarget) : i < j =>
          (toTarget[i].seq - rxSeqCounter') % 16 < (toTarget[j].seq - rxSeqCounter') % 16
    BY <1>9, <2>2 DEF Distance, Flight, Ascending
  <2>6. \A i, j \in 1 .. Len(q) : i < j => (q[i].seq - rxSeqCounter') % 16 < (q[j].seq - rxSeqCounter') % 16
    <3>1. \A i, j \in 1 .. Len(q) : i < j => Distance(q[i].seq) < Distance(q[j].seq)
      <4>1. Ascending(fromTarget)
        BY DEF Flight
      <4>2. Ascending(Tail(fromTarget))
        BY <1>1, <4>1, TailAscending
      <4> QED BY <1>10, <4>2 DEF Ascending
    <3> QED BY <1>9, <1>10, <2>2, <3>1 DEF Distance
  <2>7. \A i \in 1 .. Len(q), j \in 1 .. Len(toTarget) :
          (q[i].seq - rxSeqCounter') % 16 < (toTarget[j].seq - rxSeqCounter') % 16
    <3>1. \A i \in 1 .. Len(q), j \in 1 .. Len(toTarget) : Distance(q[i].seq) < Distance(toTarget[j].seq)
      BY <1>2, <1>10 DEF Flight
    <3> QED BY <1>9, <1>10, <2>2, <3>1 DEF Distance
  <2> QED BY <1>3, <1>5, <1>10, <2>3, <2>4, <2>5, <2>6, <2>7 DEF Flight, Ascending, Distance
<1> QED BY <1>8, <1>11

\* Premature timeouts are only ever added.
LEMMA LateGrows ==
  ASSUME LinkTypes, [Next]_vars
  PROVE  late' >= late /\ (late <= MaxLate => late' <= MaxLate)
<1>1. late \in Nat
  BY DEF LinkTypes
<1>2. CASE late' = late
  BY <1>1, <1>2
<1>3. CASE Timeout
  BY <1>1, <1>3, LinkAssumption DEF Timeout
<1> QED
  BY <1>2, <1>3 DEF Next, vars, Host, HostStep, Line, Target, QueueRequest, ReceivePacket,
     Expire, RestartTimer, KeepWaiting, RetryTimeout, GiveUp, Reissue, IssueCommand, Issue,
     PassBarrier, EndUpdate, LoseCommand, LoseReply, HandlePacket, HandleSetPage,
     HandleBulkWrite, HandleBulkRead, HandlePrepare, HandleExecute, HandleExecuteAgain, Answer

\* Sending everything again empties the window; nothing is on the line then.
LEMMA WindowRetry ==
  ASSUME LinkTypes, Counted, Window, RetryTimeout \/ GiveUp, late = 0, late' = 0
  PROVE  Window' /\ Flight'
<1>1. /\ DOMAIN slots \subseteq SeqNumbers /\ rxSeqCounter \in SeqNumbers
      /\ txSeqCounter \in SeqNumbers
  BY DEF LinkTypes
<1>2. toTarget' = <<>> /\ fromTarget' = <<>>
  BY DEF RetryTimeout, GiveUp, Timeout
<1>3. Len(<<>>) = 0 /\ DOMAIN <<>> = {}
  OBVIOUS
<1>4. Flight'
  BY <1>2, <1>3 DEF Flight, Ascending
<1>5. MaxIssued \in Nat
  BY SequencerAssumption
<1>6. CASE GiveUp
  <2>1. /\ slots' = <<>> /\ numIssued' = 0 /\ rxSeqCounter' = txSeqCounter
    BY <1>6 DEF GiveUp
  <2>2. ASSUME NEW s \in SeqNumbers PROVE ~(Distance(s)' < 0)
    <3>1. \A t \in 0 .. 15, x \in 0 .. 15 : ~((x - t) % 16 < 0)
      OBVIOUS
    <3> QED BY <1>1, <2>1, <3>1 DEF Distance, SeqNumbers
  <2>3. Window'
    BY <1>3, <1>5, <2>1, <2>2 DEF Window
  <2> QED BY <1>4, <2>3
<1>7. CASE RetryTimeout
  <2>1. PICK d \in 0 .. 15 : d = Distance(txSeqCounter)
    BY <1>1, SkippedNumbers
  <2>2. PICK n \in 0 .. 16 : n = numIssued
    BY DEF Window
  <2>3. slots' = SlotsAfter(txSeqCounter) /\ numIssued' = n - d /\ rxSeqCounter' = txSeqCounter
    BY <1>7, <2>1, <2>2 DEF RetryTimeout
  <2>4. d = n \/ (d = 0 /\ n = 16)
    <3>1. \A t \in 0 .. 15, r \in 0 .. 15, m \in 0 .. 16 : (m - (t - r)) % 16 = 0 =>
            (t - r) % 16 = m \/ ((t - r) % 16 = 0 /\ m = 16)
      OBVIOUS
    <3> QED BY <1>1, <2>1, <2>2, <3>1 DEF Counted, Distance, SeqNumbers
  <2>5. ASSUME NEW s \in SeqNumbers
        PROVE  s \in DOMAIN slots' <=> Distance(s)' < n - d
    <3>1. PICK e \in 0 .. 15 : e = Distance(s)
      BY <1>1, SkippedNumbers
    <3>2. s \in DOMAIN slots <=> e < n
      BY <2>2, <3>1 DEF Window
    <3>3. s \in DOMAIN slots' <=> s \in DOMAIN slots /\ e >= d
      BY <1>1, <2>1, <2>3, <3>1, SlotsLeft
    <3>4. Distance(s)' \in 0 .. 15
      <4>1. \A t \in 0 .. 15, x \in 0 .. 15 : (x - t) % 16 \in 0 .. 15
        OBVIOUS
      <4> QED BY <1>1, <2>3, <4>1 DEF Distance, SeqNumbers
    <3>5. CASE d = n
      BY <3>2, <3>3, <3>4, <3>5
    <3>6. CASE d = 0 /\ n = 16
      BY <3>2, <3>3, <3>4, <3>6
    <3> QED BY <2>4, <3>5, <3>6
  <2>6. n - d \in 0 .. 16 /\ n - d <= MaxIssued
    <3>1. n <= MaxIssued
      BY <2>2 DEF Window
    <3> QED BY <1>5, <2>4, <3>1
  <2>7. Window'
    BY <2>3, <2>5, <2>6 DEF Window
  <2> QED BY <1>4, <2>7
<1> QED BY <1>6, <1>7

LEMMA WindowLoss ==
  ASSUME LinkTypes, Window, Flight, Line
  PROVE  Window' /\ Flight'
<1>1. UNCHANGED <<slots, numIssued, rxSeqCounter>>
  BY DEF Line
<1>2. toTarget \in Seq(Commands) /\ fromTarget \in Seq(Replies)
  BY DEF LinkTypes
<1>3. Window'
  BY <1>1 DEF Window, Distance
<1>4. CASE LoseCommand
  <2>1. toTarget # <<>> /\ toTarget' = Tail(toTarget) /\ fromTarget' = fromTarget
    BY <1>4 DEF LoseCommand
  <2>2. Ascending(Tail(toTarget))
    BY <1>2, <2>1, TailAscending DEF Flight
  <2>3. \A i \in 1 .. Len(Tail(toTarget)) :
          Tail(toTarget)[i] = toTarget[i + 1] /\ i + 1 \in 1 .. Len(toTarget)
    BY <1>2, <2>1, HeadTail
  <2>4. Flight'
    <3>1. /\ \A i \in 1 .. Len(Tail(toTarget)) : Distance(Tail(toTarget)[i].seq) < numIssued
          /\ \A i \in 1 .. Len(fromTarget), j \in 1 .. Len(Tail(toTarget)) :
               Distance(fromTarget[i].seq) < Distance(Tail(toTarget)[j].seq)
      BY <2>3 DEF Flight
    <3> QED BY <1>1, <2>1, <2>2, <3>1 DEF Flight, Ascending, Distance
  <2> QED BY <1>3, <2>4
<1>5. CASE LoseReply
  <2>1. fromTarget # <<>> /\ fromTarget' = Tail(fromTarget) /\ toTarget' = toTarget
    BY <1>5 DEF LoseReply
  <2>2. Ascending(Tail(fromTarget))
    BY <1>2, <2>1, TailAscending DEF Flight
  <2>3. \A i \in 1 .. Len(Tail(fromTarget)) :
          Tail(fromTarget)[i] = fromTarget[i + 1] /\ i + 1 \in 1 .. Len(fromTarget)
    BY <1>2, <2>1, HeadTail
  <2>4. Flight'
    <3>1. /\ \A i \in 1 .. Len(Tail(fromTarget)) : Distance(Tail(fromTarget)[i].seq) < numIssued
          /\ \A i \in 1 .. Len(Tail(fromTarget)), j \in 1 .. Len(toTarget) :
               Distance(Tail(fromTarget)[i].seq) < Distance(toTarget[j].seq)
      BY <2>3 DEF Flight
    <3> QED BY <1>1, <2>1, <2>2, <3>1 DEF Flight, Ascending, Distance
  <2> QED BY <1>3, <2>4
<1> QED BY <1>4, <1>5 DEF Line

\* A handled command becomes the last reply: it was ahead of the commands.
LEMMA WindowHandle ==
  ASSUME LinkTypes, Window, Flight, NEW data \in Nat, toTarget # <<>>, Answer(data),
         UNCHANGED <<slots, numIssued, rxSeqCounter>>
  PROVE  Window' /\ Flight'
<1>1. toTarget \in Seq(Commands) /\ fromTarget \in Seq(Replies)
  BY DEF LinkTypes
<1>2. Window'
  BY DEF Window, Distance
<1>3. PICK c : c = toTarget[1] /\ c \in Commands /\ Head(toTarget) = c
  BY <1>1, HeadTail
<1>4. toTarget' = Tail(toTarget) /\ fromTarget' = Append(fromTarget, [seq |-> c.seq, result |-> data])
  BY <1>3 DEF Answer
<1>5. PICK m \in Nat : m = Len(fromTarget)
  BY <1>1, LenProperties
<1>6. /\ Len(fromTarget') = m + 1 /\ fromTarget'[m + 1].seq = c.seq
      /\ \A i \in 1 .. m : fromTarget'[i] = fromTarget[i]
  <2>1. [seq |-> c.seq, result |-> data] \in Replies
    BY <1>3 DEF Commands, Replies
  <2> QED BY <1>1, <1>4, <1>5, <2>1, AppendProperties
<1>7. PICK k \in Nat : k = Len(toTarget) /\ k >= 1 /\ Len(toTarget') = k - 1
  BY <1>1, <1>4, HeadTail
<1>8. \A i \in 1 .. (k - 1) : toTarget'[i] = toTarget[i + 1] /\ i + 1 \in 1 .. k /\ 1 < i + 1
  <2>1. \A i \in 1 .. (k - 1) : toTarget'[i] = toTarget[i + 1]
    BY <1>1, <1>4, <1>7, HeadTail
  <2> QED BY <2>1
<1>9. Ascending(toTarget')
  BY <1>1, <1>4, TailAscending DEF Flight
<1>10. 1 \in 1 .. k /\ \A i \in 1 .. (m + 1) : i \in 1 .. m \/ i = m + 1
  BY <1>7
<1>11. /\ \A i \in 1 .. k : Distance(toTarget[i].seq) < numIssued
       /\ \A i \in 1 .. m : Distance(fromTarget[i].seq) < numIssued
       /\ \A i, j \in 1 .. k : i < j => Distance(toTarget[i].seq) < Distance(toTarget[j].seq)
       /\ \A i, j \in 1 .. m : i < j => Distance(fromTarget[i].seq) < Distance(fromTarget[j].seq)
       /\ \A i \in 1 .. m, j \in 1 .. k : Distance(fromTarget[i].seq) < Distance(toTarget[j].seq)
  BY <1>5, <1>7 DEF Flight, Ascending
<1>12. \A i \in 1 .. (k - 1) : Distance(toTarget'[i].seq) < numIssued
  BY <1>8, <1>11
<1>13. \A i \in 1 .. (m + 1) : Distance(fromTarget'[i].seq) < numIssued
  BY <1>3, <1>6, <1>10, <1>11
<1>14. \A i, j \in 1 .. (m + 1) : i < j => Distance(fromTarget'[i].seq) < Distance(fromTarget'[j].seq)
  <2> SUFFICES ASSUME NEW i \in 1 .. (m + 1), NEW j \in 1 .. (m + 1), i < j
               PROVE  Distance(fromTarget'[i].seq) < Distance(fromTarget'[j].seq)
    OBVIOUS
  <2>1. i \in 1 .. m
    OBVIOUS
  <2>2. CASE j \in 1 .. m
    BY <1>6, <1>11, <2>1, <2>2
  <2>3. CASE j = m + 1
    BY <1>3, <1>6, <1>10, <1>11, <2>1, <2>3
  <2> QED BY <1>10, <2>2, <2>3
<1>15. \A i \in 1 .. (m + 1), j \in 1 .. (k - 1) :
         Distance(fromTarget'[i].seq) < Distance(toTarget'[j].seq)
  <2> TAKE i \in 1 .. (m + 1), j \in 1 .. (k - 1)
  <2>1. CASE i \in 1 .. m
    BY <1>6, <1>8, <1>11, <2>1
  <2>2. CASE i = m + 1
    BY <1>3, <1>6, <1>8, <1>10, <1>11, <2>2
  <2> QED BY <1>10, <2>1, <2>2
<1> QED BY <1>2, <1>6, <1>7, <1>9, <1>12, <1>13, <1>14, <1>15 DEF Flight, Ascending, Distance

LEMMA WindowKept ==
  LinkTypes /\ Counted /\ Window /\ Flight /\ late = 0 /\ late' = 0 /\ [Next]_vars
    => Window' /\ Flight'
<1> SUFFICES ASSUME LinkTypes, Counted, Window, Flight, late = 0, late' = 0, [Next]_vars
             PROVE  Window' /\ Flight'
  OBVIOUS
<1>1. CASE Quiet
  BY <1>1 DEF Quiet, Window, Flight, Ascending, Distance
<1>2. CASE Reissue
  <2>1. Head(reissueQueue) \in Ops /\ Issue(Head(reissueQueue))
    BY <1>2, HeadTail DEF Reissue, LinkTypes
  <2> QED BY <2>1, WindowIssue
<1>3. CASE IssueCommand
  <2>1. Head(opQueue) \in Ops /\ Issue(Head(opQueue))
    BY <1>3, HeadTail DEF IssueCommand, LinkTypes
  <2> QED BY <2>1, WindowIssue
<1>4. CASE RetryTimeout \/ GiveUp
  BY <1>4, WindowRetry
<1>5. CASE Target
  <2>1. UNCHANGED <<slots, numIssued, rxSeqCounter>>
    BY <1>5 DEF Target
  <2>2. toTarget # <<>> /\ \E data \in Nat : Answer(data)
    BY <1>5 DEF Target, HandlePacket, HandleSetPage, HandleBulkWrite, HandleBulkRead,
                HandlePrepare, HandleExecute, HandleExecuteAgain, Incoming, LinkTypes
  <2> QED BY <2>1, <2>2, WindowHandle
<1> QED BY <1>1, <1>2, <1>3, <1>4, <1>5, QuietSteps, WindowReceive, WindowLoss
        DEF Next, Host, HostStep

-----------------------------------------------------------------------------
(* Theorems about the counters *)

LEMMA FunctionKept == SlotFunction /\ [Next]_vars => SlotFunction'
<1> SUFFICES ASSUME SlotFunction, [Next]_vars PROVE SlotFunction'
  OBVIOUS
<1>1. CASE slots' = slots
  BY <1>1 DEF SlotFunction
<1>2. CASE slots' = <<>>
  BY <1>2 DEF SlotFunction
<1>3. CASE \E op : Issue(op)
  BY <1>3 DEF Issue, SlotFunction
<1>4. CASE ReceivePacket
  BY <1>4 DEF ReceivePacket, Without, SlotFunction
<1>5. CASE RetryTimeout
  BY <1>5 DEF RetryTimeout, SlotsAfter, SlotFunction
<1> QED
  BY <1>1, <1>2, <1>3, <1>4, <1>5 DEF Next, vars, Host, HostStep, Line, Target, QueueRequest,
     Expire, RestartTimer, KeepWaiting, GiveUp, Reissue, IssueCommand, PassBarrier, EndUpdate

LEMMA InitGivesLinkInv == Init => LinkInv
<1> SUFFICES ASSUME Init PROVE LinkInv
  OBVIOUS
<1>1. slots = <<>> /\ late = 0
  BY DEF Init, HostInit, LinkInit
<1>2. SlotFunction
  BY <1>1 DEF SlotFunction
<1>3. late <= MaxLate
  BY <1>1, LinkAssumption
<1> QED BY <1>2, <1>3, TypesInit, CountedInit, WindowInit DEF LinkInv

LEMMA LinkInvKept == LinkInv /\ [Next]_vars => LinkInv'
<1> SUFFICES ASSUME LinkInv, [Next]_vars PROVE LinkInv'
  OBVIOUS
<1>1. LinkTypes
  BY DEF LinkInv
<1>2. LinkTypes' /\ Counted'
  BY TypesKept, CountedKept DEF LinkInv
<1>3. late' = 0 => late = 0
  <2>1. late' >= late
    BY <1>1, LateGrows
  <2>2. late' \in Nat /\ late \in Nat
    BY <1>1, <1>2 DEF LinkTypes
  <2> QED BY <2>1, <2>2
<1>4. late' = 0 => Window' /\ Flight'
  BY <1>3, WindowKept DEF LinkInv
<1>5. SlotFunction' /\ late' <= MaxLate
  BY <1>1, FunctionKept, LateGrows DEF LinkInv
<1> QED BY <1>2, <1>4, <1>5 DEF LinkInv

\* The inductive invariant of the sequence counters.
THEOREM LinkInvariant == Spec => []LinkInv
<1>1. Init => LinkInv
  BY InitGivesLinkInv
<1> QED BY <1>1, LinkInvKept, PTL DEF Spec

\* The window is as large as numIssued says.
LEMMA InvGivesCounterSound == LinkInv => CounterSound
<1> SUFFICES ASSUME LinkInv PROVE CounterSound
  OBVIOUS
<1>1. ASSUME late = 0 PROVE numIssued = Cardinality(DOMAIN slots) /\ numIssued <= MaxIssued
  <2>1. PICK n \in 0 .. 16 : n = numIssued
    BY <1>1 DEF LinkInv, Window
  <2>2. DOMAIN slots \subseteq SeqNumbers /\ rxSeqCounter \in SeqNumbers
    BY DEF LinkInv, LinkTypes
  <2>3. DOMAIN slots = {x \in SeqNumbers : Distance(x) < n}
    BY <1>1, <2>1, <2>2 DEF LinkInv, Window
  <2>4. Cardinality(DOMAIN slots) <= n
    BY <2>2, <2>3, CloseNumbers
  <2>5. Cardinality(DOMAIN slots) \in Nat
    BY <2>2, SlotsFinite
  <2>6. n <= Cardinality(DOMAIN slots)
    BY <2>1 DEF LinkInv, Counted
  <2> QED BY <1>1, <2>1, <2>4, <2>5, <2>6 DEF LinkInv, Window
<1> QED BY <1>1 DEF LinkInv, Counted, CounterSound

\* numIssuedPackets is sound for any number of requests, any pipeline limit,
\* any losses and any number of premature timeouts, and exact until the first
\* of these.
THEOREM CountersAreSound == Spec => []CounterSound
BY LinkInvariant, InvGivesCounterSound, PTL

-----------------------------------------------------------------------------
(* Where the operations are                                                 *)

Waiting == {slots[s] : s \in DOMAIN slots}
Held    == Elems(opQueue) \cup Elems(reissueQueue) \cup Waiting

\* Every operation is in one place only, and belongs to a request that was
\* queued; the answer to the client is queued behind the other operations of
\* its request.
Placed ==
  /\ Distinct(opQueue) /\ Distinct(reissueQueue) /\ IsInjective(slots)
  /\ Elems(opQueue) \cap Elems(reissueQueue) = {}
  /\ Elems(opQueue) \cap Waiting = {}
  /\ Elems(reissueQueue) \cap Waiting = {}
  /\ queued \in 0 .. Len(Requests)
  /\ \A op \in Held : op.req \in 1 .. queued
  /\ \A i, j \in 1 .. Len(opQueue) :
       i < j /\ opQueue[i].req = opQueue[j].req => opQueue[i].com # "complete"

LEMMA PlacedInit == Init => Placed
<1> SUFFICES ASSUME Init PROVE Placed
  OBVIOUS
<1>1. Len(<<>>) = 0 /\ DOMAIN <<>> = {} /\ Elems(<<>>) = {}
  BY DEF Elems
<1>2. opQueue = <<>> /\ reissueQueue = <<>> /\ slots = <<>> /\ queued = 0
  BY DEF Init, HostInit
<1>3. Waiting = {} /\ Held = {}
  BY <1>1, <1>2 DEF Waiting, Held
<1>4. Len(Requests) \in Nat
  BY SequencerAssumption, LenProperties
<1> QED BY <1>1, <1>2, <1>3, <1>4 DEF Placed, Distinct, IsInjective

\* The operations of a new request are new, and come after the others.
LEMMA PlacedQueue ==
  ASSUME LinkTypes, Placed, QueueRequest
  PROVE  /\ Placed'
         /\ \A op \in Held' : op \in Held \/ op.req = queued + 1
         /\ queued + 1 \in Reqs /\ queued' = queued + 1
<1>1. PICK r \in Reqs : r = queued + 1 /\ queued < Len(Requests) /\ queued' = r
  <2>1. Len(Requests) \in Nat /\ queued \in Nat
    BY SequencerAssumption, LenProperties DEF LinkTypes
  <2> QED BY <2>1 DEF QueueRequest, Reqs
<1>2. PICK ops : ops = Operations(r)
  OBVIOUS
<1>3. /\ ops \in Seq(Ops)
      /\ \A i \in 1 .. Len(ops) : ops[i].req = r /\ ops[i].n = i
      /\ \A i \in 1 .. Len(ops) : ops[i].com = "complete" => i = Len(ops)
  BY <1>2, RequestOperations
<1>4. opQueue \in Seq(Ops) /\ opQueue' = opQueue \o ops
      /\ UNCHANGED <<reissueQueue, slots>>
  BY <1>1, <1>2 DEF LinkTypes, QueueRequest
<1>5. Distinct(ops) /\ \A op \in Elems(ops) : op.req = r
  <2>1. Distinct(ops)
    BY <1>3 DEF Distinct
  <2>2. \A op \in Elems(ops) : op.req = r
    BY <1>3 DEF Elems
  <2> QED BY <2>1, <2>2
<1>6. queued \in Nat /\ \A op \in Held : op.req # r
  BY <1>1 DEF Placed, LinkTypes
<1>7. Elems(ops) \cap Held = {}
  BY <1>5, <1>6
<1>8. Distinct(opQueue') /\ Elems(opQueue') = Elems(opQueue) \cup Elems(ops)
  BY <1>3, <1>4, <1>5, <1>7, DistinctConcat DEF Placed, Held
<1>9. Waiting' = Waiting /\ Held' = Held \cup Elems(ops)
  BY <1>4, <1>8 DEF Waiting, Held
<1>10. queued' \in 0 .. Len(Requests) /\ \A op \in Held' : op.req \in 1 .. queued'
  <2>1. Len(Requests) \in Nat
    BY SequencerAssumption, LenProperties
  <2>2. r \in 0 .. Len(Requests) /\ r \in 1 .. r /\ \A k \in 1 .. queued : k \in 1 .. r
    BY <1>1, <1>6, <2>1
  <2>3. \A op \in Held : op.req \in 1 .. queued
    BY DEF Placed
  <2> QED BY <1>1, <1>5, <1>9, <2>2, <2>3
<1>11. \A i, j \in 1 .. Len(opQueue') :
         i < j /\ opQueue'[i].req = opQueue'[j].req => opQueue'[i].com # "complete"
  <2>1. PICK m \in Nat, n \in Nat : m = Len(opQueue) /\ n = Len(ops)
    BY <1>3, <1>4, LenProperties
  <2>2. /\ Len(opQueue') = m + n
        /\ \A i \in 1 .. (m + n) : opQueue'[i] = IF i <= m THEN opQueue[i] ELSE ops[i - m]
    BY <1>3, <1>4, <2>1, ConcatProperties
  <2> SUFFICES ASSUME NEW i \in 1 .. (m + n), NEW j \in 1 .. (m + n), i < j,
                      opQueue'[i].req = opQueue'[j].req, opQueue'[i].com = "complete"
               PROVE  FALSE
    BY <2>2
  <2>3. CASE j <= m
    <3>1. i \in 1 .. m /\ j \in 1 .. m /\ opQueue'[i] = opQueue[i] /\ opQueue'[j] = opQueue[j]
      BY <2>2, <2>3
    <3> QED BY <2>1, <3>1 DEF Placed
  <2>4. CASE i <= m /\ j > m
    <3>1. i \in 1 .. m /\ j - m \in 1 .. n /\ opQueue'[i] = opQueue[i] /\ opQueue'[j] = ops[j - m]
      BY <2>2, <2>4
    <3>2. opQueue[i] \in Held
      BY <2>1, <3>1 DEF Held, Elems
    <3> QED BY <1>3, <1>6, <2>1, <3>1, <3>2
  <2>5. CASE i > m
    <3>1. i - m \in 1 .. n /\ i - m # n /\ opQueue'[i] = ops[i - m]
      BY <2>2, <2>5
    <3> QED BY <1>3, <2>1, <3>1
  <2> QED BY <2>3, <2>4, <2>5
<1>12. /\ Elems(opQueue') \cap Elems(reissueQueue') = {}
       /\ Elems(opQueue') \cap Waiting' = {}
       /\ Elems(reissueQueue') \cap Waiting' = {}
  BY <1>4, <1>7, <1>8, <1>9 DEF Placed, Held
<1>13. Distinct(reissueQueue') /\ IsInjective(slots')
  BY <1>4 DEF Placed
<1>14. Placed'
  BY <1>8, <1>10, <1>11, <1>12, <1>13 DEF Placed
<1> QED BY <1>1, <1>5, <1>9, <1>14

\* Taking the head of the queue keeps the answers behind.
LEMMA LastStaysLast ==
  ASSUME opQueue \in Seq(Ops), opQueue # <<>>, Placed
  PROVE  \A i, j \in 1 .. Len(Tail(opQueue)) :
           i < j /\ Tail(opQueue)[i].req = Tail(opQueue)[j].req => Tail(opQueue)[i].com # "complete"
<1>1. PICK m \in Nat : m = Len(opQueue) /\ Len(Tail(opQueue)) = m - 1
  BY HeadTail
<1>2. \A i \in 1 .. (m - 1) : Tail(opQueue)[i] = opQueue[i + 1] /\ i + 1 \in 1 .. m
  BY <1>1, HeadTail
<1>3. \A i, j \in 1 .. m : i < j /\ opQueue[i].req = opQueue[j].req => opQueue[i].com # "complete"
  BY <1>1 DEF Placed
<1>4. \A i, j \in 1 .. (m - 1) : i < j => i + 1 < j + 1
  OBVIOUS
<1> QED BY ONLY <1>1, <1>2, <1>3, <1>4

\* An issued operation moves from its queue to its slot.
LEMMA SlotFilled ==
  ASSUME LinkTypes, Placed, NEW op \in Ops, Issue(op), op \notin Waiting
  PROVE  IsInjective(slots') /\ Waiting' = Waiting \cup {op}
<1>1. /\ txSeqCounter \notin DOMAIN slots
      /\ slots' = [k \in DOMAIN slots \cup {txSeqCounter} |-> IF k = txSeqCounter THEN op ELSE slots[k]]
  BY DEF Issue, CanIssue
<1>2. /\ DOMAIN slots' = DOMAIN slots \cup {txSeqCounter} /\ slots'[txSeqCounter] = op
      /\ \A k \in DOMAIN slots : slots'[k] = slots[k]
  BY <1>1
<1>3. Waiting' = Waiting \cup {op}
  BY <1>2 DEF Waiting
<1>4. \A k \in DOMAIN slots : slots[k] # op
  BY DEF Waiting
<1>5. IsInjective(slots')
  <2>1. \A a, b \in DOMAIN slots : slots[a] = slots[b] => a = b
    BY DEF Placed, IsInjective
  <2>2. \A a, b \in DOMAIN slots' : slots'[a] = slots'[b] => a = b
    BY <1>2, <1>4, <2>1
  <2> QED BY <2>2 DEF IsInjective
<1> QED BY <1>3, <1>5

LEMMA PlacedReissue ==
  ASSUME LinkTypes, Placed, Reissue
  PROVE  Placed' /\ Held' = Held
<1>1. PICK op : op = Head(reissueQueue)
  OBVIOUS
<1>2. /\ reissueQueue \in Seq(Ops) /\ reissueQueue # <<>> /\ op \in Ops /\ Issue(op)
      /\ reissueQueue' = Tail(reissueQueue) /\ UNCHANGED <<opQueue, queued>>
  BY <1>1, HeadTail DEF LinkTypes, Reissue
<1>3. /\ Distinct(reissueQueue') /\ op \in Elems(reissueQueue)
      /\ Elems(reissueQueue') = Elems(reissueQueue) \ {op}
  BY <1>1, <1>2, DistinctTail DEF Placed
<1>4. IsInjective(slots') /\ Waiting' = Waiting \cup {op}
  <2>1. op \notin Waiting
    BY <1>3 DEF Placed
  <2> QED BY <1>2, <2>1, SlotFilled
<1>5. Held' = Held
  BY <1>2, <1>3, <1>4 DEF Held
<1> QED BY <1>2, <1>3, <1>4, <1>5 DEF Placed

LEMMA PlacedIssue ==
  ASSUME LinkTypes, Placed, IssueCommand
  PROVE  Placed' /\ Held' = Held
<1>1. PICK op : op = Head(opQueue)
  OBVIOUS
<1>2. /\ opQueue \in Seq(Ops) /\ opQueue # <<>> /\ op \in Ops /\ Issue(op)
      /\ opQueue' = Tail(opQueue) /\ UNCHANGED <<reissueQueue, queued>>
  BY <1>1, HeadTail DEF LinkTypes, IssueCommand
<1>3. /\ Distinct(opQueue') /\ op \in Elems(opQueue) /\ Elems(opQueue') = Elems(opQueue) \ {op}
  BY <1>1, <1>2, DistinctTail DEF Placed
<1>4. IsInjective(slots') /\ Waiting' = Waiting \cup {op}
  <2>1. op \notin Waiting
    BY <1>3 DEF Placed
  <2> QED BY <1>2, <2>1, SlotFilled
<1>5. Held' = Held
  BY <1>2, <1>3, <1>4 DEF Held
<1>6. \A i, j \in 1 .. Len(opQueue') :
        i < j /\ opQueue'[i].req = opQueue'[j].req => opQueue'[i].com # "complete"
  BY <1>2, LastStaysLast
<1> QED BY <1>2, <1>3, <1>4, <1>5, <1>6 DEF Placed

LEMMA PlacedBarrier ==
  ASSUME LinkTypes, Placed, PassBarrier
  PROVE  Placed'
<1>1. /\ opQueue \in Seq(Ops) /\ opQueue # <<>>
      /\ opQueue' = Tail(opQueue) /\ UNCHANGED <<reissueQueue, slots, queued>>
  BY DEF LinkTypes, PassBarrier
<1>2. Distinct(opQueue') /\ Elems(opQueue') \subseteq Elems(opQueue)
  BY <1>1, DistinctTail DEF Placed
<1>3. Waiting' = Waiting /\ Held' \subseteq Held
  BY <1>1, <1>2 DEF Held, Waiting
<1>4. \A i, j \in 1 .. Len(opQueue') :
        i < j /\ opQueue'[i].req = opQueue'[j].req => opQueue'[i].com # "complete"
  BY <1>1, LastStaysLast
<1> QED BY <1>1, <1>2, <1>3, <1>4 DEF Placed

\* What requeueUntil moves leaves its slot.
LEMMA PlacedRequeue ==
  ASSUME LinkTypes, Placed, NEW s \in SeqNumbers,
         reissueQueue' = reissueQueue \o SkippedOps(s),
         DOMAIN slots' \subseteq {x \in DOMAIN slots : Distance(x) >= Distance(s)},
         \A x \in DOMAIN slots' : slots'[x] = slots[x],
         UNCHANGED <<opQueue, queued>>
  PROVE  Placed' /\ Held' \subseteq Held
<1>1. PICK q : q = SkippedOps(s)
  OBVIOUS
<1>2. /\ q \in Seq(Ops) /\ Distinct(q)
      /\ \A op \in Elems(q) : \E x \in DOMAIN slots : Distance(x) < Distance(s) /\ op = slots[x]
  <2>1. IsInjective(slots)
    BY DEF Placed
  <2>2. /\ SkippedOps(s) \in Seq(Ops)
        /\ \A k \in 1 .. Len(SkippedOps(s)) : \E x \in DOMAIN slots :
             Distance(x) < Distance(s) /\ SkippedOps(s)[k] = slots[x]
        /\ \A k, l \in 1 .. Len(SkippedOps(s)) : SkippedOps(s)[k] = SkippedOps(s)[l] => k = l
    BY <2>1, SkippedOperations DEF LinkTypes
  <2> QED BY <1>1, <2>2 DEF Distinct, Elems
<1>3. Distance(s) \in 0 .. 15 /\ \A x \in DOMAIN slots : Distance(x) \in 0 .. 15
  BY SkippedNumbers DEF LinkTypes
<1>4. Elems(q) \subseteq Waiting
  BY <1>2 DEF Waiting
<1>5. Elems(q) \cap Waiting' = {}
  <2> SUFFICES ASSUME NEW x \in DOMAIN slots, Distance(x) < Distance(s),
                      NEW y \in DOMAIN slots', slots[x] = slots'[y]
               PROVE  FALSE
    BY <1>2 DEF Waiting
  <2>1. x = y
    BY DEF Placed, IsInjective
  <2>2. y \in {z \in DOMAIN slots : Distance(z) >= Distance(s)}
    OBVIOUS
  <2>3. Distance(x) >= Distance(s) /\ Distance(x) < Distance(s)
    BY ONLY <2>1, <2>2, Distance(x) < Distance(s), Zenon
  <2>4. PICK a, b : a = Distance(x) /\ b = Distance(s)
    OBVIOUS
  <2>5. a \in 0 .. 15 /\ b \in 0 .. 15 /\ a >= b /\ a < b
    BY ONLY <1>3, <2>3, <2>4, x \in DOMAIN slots, Zenon
  <2> QED BY ONLY <2>5
<1>6. Waiting' \subseteq Waiting
  BY DEF Waiting
<1>7. Distinct(reissueQueue') /\ Elems(reissueQueue') = Elems(reissueQueue) \cup Elems(q)
  <2>1. reissueQueue \in Seq(Ops) /\ Elems(reissueQueue) \cap Elems(q) = {} /\ Distinct(reissueQueue)
    BY <1>4 DEF LinkTypes, Placed
  <2> QED BY <1>1, <1>2, <2>1, DistinctConcat
<1>8. Held' \subseteq Held
  BY <1>4, <1>6, <1>7 DEF Held
<1>9. IsInjective(slots')
  BY DEF Placed, IsInjective
<1>10. /\ Elems(opQueue') \cap Elems(reissueQueue') = {}
       /\ Elems(opQueue') \cap Waiting' = {}
       /\ Elems(reissueQueue') \cap Waiting' = {}
  BY <1>4, <1>5, <1>6, <1>7 DEF Placed
<1> QED BY <1>7, <1>8, <1>9, <1>10 DEF Placed

\* How ReceivePacket and RetryTimeout use it.
LEMMA RequeueSteps ==
  ASSUME LinkTypes, ReceivePacket \/ RetryTimeout
  PROVE  \E s \in SeqNumbers :
           /\ reissueQueue' = reissueQueue \o SkippedOps(s)
           /\ DOMAIN slots' \subseteq {x \in DOMAIN slots : Distance(x) >= Distance(s)}
           /\ \A x \in DOMAIN slots' : slots'[x] = slots[x]
           /\ UNCHANGED <<opQueue, queued, report>>
<1>1. CASE ReceivePacket
  <2>1. Head(fromTarget) \in Replies
    BY <1>1, HeadTail DEF LinkTypes, ReceivePacket
  <2>2. PICK s \in SeqNumbers : s = Head(fromTarget).seq
    BY <2>1 DEF Replies
  <2>3. /\ reissueQueue' = reissueQueue \o SkippedOps(s)
        /\ slots' = Without(SlotsAfter(s), s)
        /\ UNCHANGED <<opQueue, queued, report>>
    BY <1>1, <2>2 DEF ReceivePacket
  <2>4. /\ DOMAIN SlotsAfter(s) = {x \in DOMAIN slots : Distance(x) >= Distance(s)}
        /\ \A x \in DOMAIN SlotsAfter(s) : SlotsAfter(s)[x] = slots[x]
    BY SlotsLeft DEF LinkTypes
  <2>5. /\ DOMAIN slots' \subseteq DOMAIN SlotsAfter(s)
        /\ \A x \in DOMAIN slots' : slots'[x] = SlotsAfter(s)[x]
    BY <2>3 DEF Without
  <2> QED BY <2>3, <2>4, <2>5
<1>2. CASE RetryTimeout
  <2>1. PICK s \in SeqNumbers : s = txSeqCounter
    BY DEF LinkTypes
  <2>2. /\ reissueQueue' = reissueQueue \o SkippedOps(s)
        /\ slots' = SlotsAfter(s)
        /\ UNCHANGED <<opQueue, queued, report>>
    BY <1>2, <2>1 DEF RetryTimeout
  <2>3. /\ DOMAIN SlotsAfter(s) = {x \in DOMAIN slots : Distance(x) >= Distance(s)}
        /\ \A x \in DOMAIN SlotsAfter(s) : SlotsAfter(s)[x] = slots[x]
    BY SlotsLeft DEF LinkTypes
  <2> QED BY <2>2, <2>3
<1> QED BY <1>1, <1>2

\* resetQueue forgets everything.
LEMMA GiveUpForgets ==
  ASSUME GiveUp
  PROVE  /\ opQueue' = <<>> /\ reissueQueue' = <<>> /\ slots' = <<>> /\ queued' = queued
         /\ Held' = {} /\ Waiting' = {} /\ Elems(<<>>) = {}
<1>1. opQueue' = <<>> /\ reissueQueue' = <<>> /\ slots' = <<>> /\ queued' = queued
  BY DEF GiveUp
<1>2. Elems(<<>>) = {} /\ DOMAIN <<>> = {}
  BY DEF Elems
<1> QED BY <1>1, <1>2 DEF Held, Waiting

\* A step that leaves the operations where they are.
Still == UNCHANGED <<opQueue, reissueQueue, slots, queued>>

LEMMA StillSteps ==
  ASSUME RestartTimer \/ KeepWaiting \/ EndUpdate \/ Expire \/ Line \/ Target \/ UNCHANGED vars
  PROVE  Still /\ UNCHANGED report
BY DEF RestartTimer, KeepWaiting, EndUpdate, Expire, Line, Target, vars, Still

LEMMA PlacedKept == LinkTypes /\ Placed /\ [Next]_vars => Placed'
<1> SUFFICES ASSUME LinkTypes, Placed, [Next]_vars PROVE Placed'
  OBVIOUS
<1>1. CASE Still
  BY <1>1 DEF Still, Placed, Held, Waiting
<1>2. CASE ReceivePacket \/ RetryTimeout
  <2>1. PICK s \in SeqNumbers :
           /\ reissueQueue' = reissueQueue \o SkippedOps(s)
           /\ DOMAIN slots' \subseteq {x \in DOMAIN slots : Distance(x) >= Distance(s)}
           /\ \A x \in DOMAIN slots' : slots'[x] = slots[x]
           /\ UNCHANGED <<opQueue, queued>>
    BY <1>2, RequeueSteps
  <2> QED BY <2>1, PlacedRequeue
<1>3. CASE GiveUp
  <2>1. /\ opQueue' = <<>> /\ reissueQueue' = <<>> /\ slots' = <<>> /\ queued' = queued
        /\ Held' = {} /\ Waiting' = {} /\ Elems(<<>>) = {}
    BY <1>3, GiveUpForgets
  <2>2. Len(<<>>) = 0 /\ DOMAIN <<>> = {}
    OBVIOUS
  <2> QED BY <2>1, <2>2 DEF Placed, Distinct, IsInjective
<1> QED BY <1>1, <1>2, <1>3, StillSteps, PlacedQueue, PlacedReissue, PlacedIssue, PlacedBarrier
        DEF Next, Host, HostStep

-----------------------------------------------------------------------------
(* What clients have been told *)

\* A request that has not been queued is not answered, and, while no timeout
\* has come early, neither is one that has an operation left.
Unanswered ==
  /\ report \in [Reqs -> {"none", "ok", "error"}]
  /\ \A r \in Reqs : r > queued => report[r] = "none"
  /\ late = 0 => \A op \in Held : report[op.req] = "none"

\* While no timeout has come early, a barrier is passed when no command waits
\* for a reply.
LEMMA IdleIsEmpty ==
  ASSUME LinkInv, late = 0, PassBarrier
  PROVE  DOMAIN slots = {} /\ reissueQueue = <<>> /\ Waiting = {}
<1>1. numIssued = 0 /\ reissueQueue = <<>>
  BY DEF PassBarrier, isIdle
<1>2. DOMAIN slots \subseteq SeqNumbers /\ rxSeqCounter \in SeqNumbers
  BY DEF LinkInv, LinkTypes
<1>3. \A s \in SeqNumbers : Distance(s) \in 0 .. 15
  BY <1>2, SkippedNumbers
<1>4. \A s \in SeqNumbers : s \in DOMAIN slots <=> Distance(s) < 0
  BY <1>1 DEF LinkInv, Window
<1>5. DOMAIN slots = {}
  <2> SUFFICES ASSUME NEW s \in DOMAIN slots PROVE FALSE
    OBVIOUS
  <2>1. s \in SeqNumbers
    BY <1>2
  <2>2. Distance(s) \in 0 .. 15 /\ Distance(s) < 0
    BY <1>3, <1>4, <2>1
  <2> QED BY ONLY <2>2
<1> QED BY <1>1, <1>5 DEF Waiting

\* When a client is told "ok", no operation of its request is left.
LEMMA UnansweredBarrier ==
  ASSUME LinkInv, Placed, Unanswered, PassBarrier
  PROVE  Unanswered'
<1>1. /\ opQueue \in Seq(Ops) /\ opQueue # <<>> /\ opQueue' = Tail(opQueue)
      /\ UNCHANGED <<reissueQueue, slots, queued, late>>
  BY DEF LinkInv, LinkTypes, PassBarrier
<1>2. PICK op : op = Head(opQueue) /\ op = opQueue[1] /\ op \in Ops /\ op \in Elems(opQueue)
  BY <1>1, HeadTail, DistinctTail DEF Placed
<1>3. op.req \in 1 .. queued /\ op.req \in Reqs
  <2>1. op.req \in 1 .. queued /\ queued \in 0 .. Len(Requests)
    BY <1>2 DEF Placed, Held
  <2>2. Len(Requests) \in Nat
    BY SequencerAssumption, LenProperties
  <2> QED BY <2>1, <2>2 DEF Reqs
<1>4. report' = IF op.com = "complete" THEN [report EXCEPT ![op.req] = "ok"] ELSE report
  BY <1>2 DEF PassBarrier
<1>5. Elems(opQueue') \subseteq Elems(opQueue) /\ Held' \subseteq Held
  <2>1. Elems(opQueue') \subseteq Elems(opQueue)
    BY <1>1, DistinctTail DEF Placed
  <2> QED BY <1>1, <2>1 DEF Held, Waiting
<1>6. report' \in [Reqs -> {"none", "ok", "error"}]
  BY <1>4 DEF Unanswered
<1>7. \A r \in Reqs : r > queued' => report'[r] = "none"
  <2> SUFFICES ASSUME NEW r \in Reqs, r > queued PROVE report'[r] = "none"
    BY <1>1
  <2>1. r # op.req
    <3>1. \A a, b \in Int : \A k \in 1 .. b : a > b => a # k
      OBVIOUS
    <3>2. r \in Int /\ queued \in Int
      BY DEF Reqs, LinkInv, LinkTypes
    <3> QED BY <1>3, <3>1, <3>2
  <2> QED BY <1>4, <2>1 DEF Unanswered
<1>8. ASSUME late' = 0, NEW o \in Held' PROVE report'[o.req] = "none"
  <2>1. report[o.req] = "none"
    BY <1>1, <1>5, <1>8 DEF Unanswered
  <2>2. CASE op.com # "complete"
    BY <1>4, <2>1, <2>2
  <2>3. CASE op.com = "complete"
    <3>1. Waiting = {} /\ reissueQueue = <<>>
      BY <1>1, <1>8, IdleIsEmpty
    <3>2. Held' = Elems(Tail(opQueue))
      <4>1. Elems(<<>>) = {}
        BY DEF Elems
      <4>2. Waiting' = Waiting
        BY <1>1 DEF Waiting
      <4> QED BY <1>1, <3>1, <4>1, <4>2 DEF Held
    <3>3. PICK m \in Nat : m = Len(opQueue) /\ m >= 1 /\ Len(Tail(opQueue)) = m - 1
      BY <1>1, HeadTail
    <3>4. PICK i \in 1 .. (m - 1) : o = Tail(opQueue)[i]
      BY <1>8, <3>2, <3>3 DEF Elems
    <3>5. o = opQueue[i + 1]
      BY <1>1, <3>3, <3>4, HeadTail
    <3>6. 1 \in 1 .. m /\ i + 1 \in 1 .. m /\ 1 < i + 1
      BY <3>3
    <3>7. o.req # op.req
      BY <1>2, <2>3, <3>3, <3>5, <3>6 DEF Placed
    <3> QED BY <1>4, <2>1, <3>7 DEF Unanswered
  <2> QED BY <2>2, <2>3
<1> QED BY <1>6, <1>7, <1>8 DEF Unanswered

LEMMA UnansweredKept == LinkInv /\ Placed /\ Unanswered /\ [Next]_vars => Unanswered'
<1> SUFFICES ASSUME LinkInv, Placed, Unanswered, [Next]_vars PROVE Unanswered'
  OBVIOUS
<1>1. LinkTypes
  BY DEF LinkInv
<1>2. late' = 0 => late = 0
  <2>1. late' >= late /\ late \in Nat
    BY <1>1, LateGrows DEF LinkTypes
  <2>2. LinkTypes'
    BY <1>1, TypesKept
  <2> QED BY <2>1, <2>2 DEF LinkTypes
<1>3. CASE Held' \subseteq Held /\ UNCHANGED <<report, queued>>
  BY <1>2, <1>3 DEF Unanswered
<1>4. CASE Still /\ UNCHANGED report
  <2>1. Held' = Held /\ UNCHANGED <<report, queued>>
    BY <1>4 DEF Still, Held, Waiting
  <2> QED BY <1>3, <2>1
<1>5. CASE ReceivePacket \/ RetryTimeout
  <2>1. PICK s \in SeqNumbers :
           /\ reissueQueue' = reissueQueue \o SkippedOps(s)
           /\ DOMAIN slots' \subseteq {x \in DOMAIN slots : Distance(x) >= Distance(s)}
           /\ \A x \in DOMAIN slots' : slots'[x] = slots[x]
           /\ UNCHANGED <<opQueue, queued, report>>
    BY <1>1, <1>5, RequeueSteps
  <2>2. Held' \subseteq Held
    BY <1>1, <2>1, PlacedRequeue
  <2> QED BY <1>3, <2>1, <2>2
<1>6. CASE Reissue
  <2>1. Held' = Held /\ UNCHANGED <<report, queued>>
    BY <1>1, <1>6, PlacedReissue DEF Reissue
  <2> QED BY <1>3, <2>1
<1>7. CASE IssueCommand
  <2>1. Held' = Held /\ UNCHANGED <<report, queued>>
    BY <1>1, <1>7, PlacedIssue DEF IssueCommand
  <2> QED BY <1>3, <2>1
<1>8. CASE QueueRequest
  <2>1. /\ \A op \in Held' : op \in Held \/ op.req = queued + 1
        /\ queued + 1 \in Reqs /\ queued' = queued + 1
    BY <1>1, <1>8, PlacedQueue
  <2>2. queued \in Nat /\ report' = report
    BY <1>1, <1>8 DEF LinkTypes, QueueRequest
  <2>3. report[queued + 1] = "none"
    BY <2>1, <2>2 DEF Unanswered
  <2>4. \A r \in Reqs : r > queued' => r > queued
    BY <2>1, <2>2 DEF Reqs
  <2> QED BY <1>2, <2>1, <2>2, <2>3, <2>4 DEF Unanswered
<1>9. CASE GiveUp
  <2>1. Held' = {} /\ queued' = queued
    BY <1>9, GiveUpForgets
  <2>2. report' = [r \in Reqs |->
                     IF \E i \in DOMAIN opQueue : opQueue[i].req = r /\ opQueue[i].com = "complete"
                     THEN "error" ELSE report[r]]
    BY <1>9 DEF GiveUp
  <2>3. ASSUME NEW r \in Reqs, r > queued PROVE report'[r] = "none"
    <3>1. ASSUME NEW i \in DOMAIN opQueue PROVE opQueue[i].req # r
      <4>1. i \in 1 .. Len(opQueue)
        BY <1>1, <3>1, LenProperties DEF LinkTypes
      <4>2. opQueue[i] \in Held
        BY <4>1 DEF Held, Elems
      <4>3. opQueue[i].req \in 1 .. queued
        BY <4>2 DEF Placed
      <4>4. \A a, b \in Int : \A k \in 1 .. b : a > b => a # k
        OBVIOUS
      <4>5. r \in Int /\ queued \in Int
        BY <1>1 DEF Reqs, LinkTypes
      <4> QED BY <2>3, <4>3, <4>4, <4>5
    <3> QED BY <2>2, <2>3, <3>1 DEF Unanswered
  <2>4. report' \in [Reqs -> {"none", "ok", "error"}]
    BY <2>2 DEF Unanswered
  <2> QED BY <2>1, <2>3, <2>4 DEF Unanswered
<1> QED BY <1>4, <1>5, <1>6, <1>7, <1>8, <1>9, StillSteps, UnansweredBarrier
        DEF Next, Host, HostStep

-----------------------------------------------------------------------------
(* Theorems about the operations *)

\* The inductive invariant of the operations: each is in one place.
THEOREM PlacesInvariant == Spec => [](LinkInv /\ Placed /\ Unanswered)
<1>1. Init => LinkInv /\ Placed /\ Unanswered
  <2> SUFFICES ASSUME Init PROVE LinkInv /\ Placed /\ Unanswered
    OBVIOUS
  <2>1. LinkInv
    BY InitGivesLinkInv
  <2>2. Held = {}
    <3>1. Elems(<<>>) = {} /\ DOMAIN <<>> = {}
      BY DEF Elems
    <3> QED BY <3>1 DEF Init, HostInit, Held, Waiting
  <2>3. Unanswered
    BY <2>2 DEF Init, HostInit, Unanswered
  <2> QED BY <2>1, <2>3, PlacedInit
<1>2. LinkInv /\ Placed /\ Unanswered /\ [Next]_vars => (LinkInv /\ Placed /\ Unanswered)'
  <2> SUFFICES ASSUME LinkInv, Placed, Unanswered, [Next]_vars
               PROVE  LinkInv' /\ Placed' /\ Unanswered'
    OBVIOUS
  <2>1. LinkInv'
    BY LinkInvKept
  <2>2. Placed' /\ Unanswered'
    BY PlacedKept, UnansweredKept DEF LinkInv
  <2> QED BY <2>1, <2>2
<1> QED BY <1>1, <1>2, PTL DEF Spec

LEMMA InvGivesCallbacksSafe ==
  LinkInv /\ Placed /\ Unanswered => (late = 0 => CallbacksSafe)
<1> SUFFICES ASSUME LinkInv, Placed, Unanswered, late = 0 PROVE CallbacksSafe
  OBVIOUS
<1>1. opQueue \in Seq(Ops) /\ reissueQueue \in Seq(Ops) /\ Waiting \subseteq Ops
      /\ DOMAIN slots \subseteq SeqNumbers
  BY DEF LinkInv, LinkTypes, Waiting
<1>2. IsFiniteSet(Waiting)
  <2>1. IsFiniteSet(DOMAIN slots)
    BY <1>1, SlotsFinite
  <2>2. PICK f : f = [s \in DOMAIN slots |-> slots[s]]
    OBVIOUS
  <2>3. f \in Surjection(DOMAIN slots, Waiting)
    BY <2>2 DEF Surjection, Waiting
  <2> QED BY <2>1, <2>3, FS_Surjection
<1>3. PICK w : w = SetToSeq(Waiting)
  OBVIOUS
<1>4. w \in Seq(Ops) /\ Distinct(w) /\ Elems(w) \subseteq Waiting
  <2>1. w \in Seq(Waiting) /\ Distinct(w) /\ Elems(w) \subseteq Waiting
    BY <1>2, <1>3, SetToSeqListed
  <2> QED BY <1>1, <2>1, SeqMonotonic
<1>5. PICK q : q = opQueue \o reissueQueue
  OBVIOUS
<1>6. q \in Seq(Ops) /\ Elems(q) = Elems(opQueue) \cup Elems(reissueQueue) /\ Distinct(q)
  BY <1>1, <1>5, DistinctConcat DEF Placed
<1>7. q \o w \in Seq(Ops) /\ Distinct(q \o w)
  <2>1. Elems(q) \cap Elems(w) = {}
    BY <1>4, <1>6 DEF Placed
  <2> QED BY <1>4, <1>6, <2>1, DistinctConcat
<1>8. IsInjective(q \o w)
  <2>1. DOMAIN (q \o w) = 1 .. Len(q \o w)
    BY <1>7, LenProperties
  <2> QED BY <1>7, <2>1 DEF Distinct, IsInjective
<1>9. IsInjective(slots) /\ \A s \in DOMAIN slots : report[slots[s].req] = "none"
  BY DEF Placed, Unanswered, Held, Waiting
<1>10. \A i \in DOMAIN reissueQueue : report[reissueQueue[i].req] = "none"
  <2>1. DOMAIN reissueQueue = 1 .. Len(reissueQueue)
    BY <1>1, LenProperties
  <2> QED BY <2>1 DEF Unanswered, Held, Elems
<1> QED BY <1>3, <1>5, <1>8, <1>9, <1>10 DEF CallbacksSafe, Waiting

\* As long as no timeout comes early no callback is called twice, and none
\* when its client has been answered, whatever is lost.
THEOREM CallbacksAreSafe == Spec => [](late = 0 => CallbacksSafe)
BY PlacesInvariant, InvGivesCallbacksSafe, PTL

\* Nor is a barrier passed while a command waits for its reply.
THEOREM BarriersWait == Spec => [][late = 0 /\ PassBarrier => slots = <<>>]_vars
<1>1. LinkInv => [late = 0 /\ PassBarrier => slots = <<>>]_vars
  <2> SUFFICES ASSUME LinkInv, late = 0, PassBarrier PROVE slots = <<>>
    OBVIOUS
  <2>1. DOMAIN slots = {} /\ slots = [s \in DOMAIN slots |-> slots[s]]
    BY IdleIsEmpty DEF LinkInv, SlotFunction
  <2> QED BY <2>1
<1> QED BY <1>1, LinkInvariant, PTL

\* Where timeouts never come early, barriers are what debugCommands.h says.
THEOREM BarriersWaitInTime == MaxLate = 0 => (Spec => BarrierWaits)
<1> SUFFICES ASSUME MaxLate = 0 PROVE Spec => BarrierWaits
  OBVIOUS
<1>1. LinkInv => late = 0
  BY LinkAssumption DEF LinkInv, LinkTypes
<1>2. LinkInv => [PassBarrier => slots = <<>>]_vars
  <2> SUFFICES ASSUME LinkInv, PassBarrier PROVE slots = <<>>
    OBVIOUS
  <2>1. DOMAIN slots = {} /\ slots = [s \in DOMAIN slots |-> slots[s]]
    BY <1>1, IdleIsEmpty DEF LinkInv, SlotFunction
  <2> QED BY <2>1
<1> QED BY <1>2, LinkInvariant, PTL DEF BarrierWaits

-----------------------------------------------------------------------------
(* The commands of a request *)

Size(r)   == Len(Operations(r))
Com(r, k) == Operations(r)[k].com

\* The end of every request is a volatile access between barriers; before it
\* there are bulk reads, or a command that sets the page, between barriers,
\* and bulk writes.
VolatileEnd(r) ==
  /\ Com(r, Size(r) - 5) = "barrier" /\ Com(r, Size(r) - 4) = "prepare"
  /\ Com(r, Size(r) - 3) = "barrier" /\ Com(r, Size(r) - 2) = "execute"
  /\ Com(r, Size(r) - 1) = "barrier" /\ Com(r, Size(r)) = "complete"
BulkReads(r) == Size(r) >= 6 /\ \A k \in 1 .. (Size(r) - 6) : Com(r, k) = "read"
BulkWrites(r) ==
  /\ Size(r) >= 10
  /\ Com(r, 1) = "barrier" /\ Com(r, 2) = "page" /\ Com(r, 3) = "barrier"
  /\ \A k \in 4 .. (Size(r) - 6) : Com(r, k) = "write"

\* Elements of a concatenation, counted from where its second half begins.
LEMMA JoinedAt ==
  ASSUME NEW p \in Seq(Coms), NEW q \in Seq(Coms)
  PROVE  /\ p \o q \in Seq(Coms) /\ Len(p \o q) = Len(p) + Len(q)
         /\ \A k \in 1 .. Len(p) : (p \o q)[k] = p[k]
         /\ \A k \in 1 .. Len(q) : (p \o q)[Len(p) + k] = q[k]
<1>0. PICK m, n, c : m = Len(p) /\ n = Len(q) /\ c = p \o q
  OBVIOUS
<1>1. /\ c \in Seq(Coms) /\ Len(c) = m + n /\ m \in Nat /\ n \in Nat
      /\ \A i \in 1 .. (m + n) : c[i] = IF i <= m THEN p[i] ELSE q[i - m]
  BY <1>0, ConcatProperties, LenProperties
<1>2. \A k \in 1 .. m : k \in 1 .. (m + n) /\ k <= m
  BY <1>1
<1>3. \A k \in 1 .. n : m + k \in 1 .. (m + n) /\ ~(m + k <= m) /\ (m + k) - m = k
  BY <1>1
<1>4. \A k \in 1 .. m : c[k] = p[k]
  BY ONLY <1>1, <1>2
<1>5. \A k \in 1 .. n : c[m + k] = q[k]
  BY ONLY <1>1, <1>3
<1> QED BY ONLY <1>0, <1>1, <1>4, <1>5, Zenon

\* A queue of commands that ends like a request.
LEMMA WithVolatile ==
  ASSUME NEW b \in Seq(Coms)
  PROVE  \E m \in Nat, c \in Seq(Coms) :
           /\ m = Len(b) /\ c = (b \o queueVolatile) \o <<"complete">>
           /\ Len(c) = m + 6
           /\ \A k \in 1 .. m : c[k] = b[k]
           /\ c[m + 1] = "barrier" /\ c[m + 2] = "prepare" /\ c[m + 3] = "barrier"
           /\ c[m + 4] = "execute" /\ c[m + 5] = "barrier" /\ c[m + 6] = "complete"
<1>0. PICK m \in Nat : m = Len(b)
  BY LenProperties
<1>1. PICK v, d, l : v = queueVolatile /\ d = b \o v /\ l = <<"complete">>
  OBVIOUS
<1>2. /\ v \in Seq(Coms) /\ Len(v) = 5 /\ v[1] = "barrier" /\ v[2] = "prepare"
      /\ v[3] = "barrier" /\ v[4] = "execute" /\ v[5] = "barrier"
  BY <1>1 DEF queueVolatile, Coms
<1>3. l \in Seq(Coms) /\ Len(l) = 1 /\ l[1] = "complete"
  BY <1>1 DEF Coms
<1>4. /\ d \in Seq(Coms) /\ Len(d) = m + 5
      /\ \A k \in 1 .. m : d[k] = b[k]
      /\ \A k \in 1 .. 5 : d[m + k] = v[k]
  <2>1. PICK n : n = 5 /\ n = Len(v)
    BY <1>2
  <2>2. v \in Seq(Coms) /\ d = b \o v
    BY <1>1, <1>2
  <2>3. /\ d \in Seq(Coms) /\ Len(d) = m + n
        /\ \A k \in 1 .. m : d[k] = b[k]
        /\ \A k \in 1 .. n : d[m + k] = v[k]
    <3>1. /\ b \o v \in Seq(Coms) /\ Len(b \o v) = Len(b) + Len(v)
          /\ \A k \in 1 .. Len(b) : (b \o v)[k] = b[k]
          /\ \A k \in 1 .. Len(v) : (b \o v)[Len(b) + k] = v[k]
      BY ONLY <2>2, JoinedAt, b \in Seq(Coms), Zenon
    <3> QED BY ONLY <1>0, <2>1, <2>2, <3>1, Zenon
  <2> QED BY ONLY <2>1, <2>3
<1>5. PICK e : e = d \o l
  OBVIOUS
<1>6. PICK o \in Nat : o = m + 5
  OBVIOUS
<1>7. /\ e \in Seq(Coms) /\ Len(e) = o + 1
      /\ \A k \in 1 .. o : e[k] = d[k]
      /\ \A k \in 1 .. 1 : e[o + k] = l[k]
  <2>1. d \in Seq(Coms) /\ Len(d) = o
    BY ONLY <1>4, <1>6
  <2>2. PICK n : n = 1 /\ n = Len(l)
    BY <1>3
  <2>3. /\ e \in Seq(Coms) /\ Len(e) = o + n
        /\ \A k \in 1 .. o : e[k] = d[k]
        /\ \A k \in 1 .. n : e[o + k] = l[k]
    <3>1. /\ d \o l \in Seq(Coms) /\ Len(d \o l) = Len(d) + Len(l)
          /\ \A k \in 1 .. Len(d) : (d \o l)[k] = d[k]
          /\ \A k \in 1 .. Len(l) : (d \o l)[Len(d) + k] = l[k]
      BY ONLY <1>3, <2>1, JoinedAt, Zenon
    <3> QED BY ONLY <1>5, <2>1, <2>2, <3>1, Zenon
  <2> QED BY ONLY <2>2, <2>3
<1>8. /\ e \in Seq(Coms) /\ Len(e) = m + 6
      /\ \A k \in 1 .. (m + 5) : e[k] = d[k]
      /\ e[m + 6] = "complete"
  BY <1>3, <1>6, <1>7
<1>9. \A k \in 1 .. m : e[k] = b[k]
  <2>1. \A k \in 1 .. m : k \in 1 .. (m + 5)
    OBVIOUS
  <2> QED BY ONLY <1>4, <1>8, <2>1
<1>10. /\ e[m + 1] = "barrier" /\ e[m + 2] = "prepare" /\ e[m + 3] = "barrier"
       /\ e[m + 4] = "execute" /\ e[m + 5] = "barrier"
  <2>1. \A k \in 1 .. 5 : m + k \in 1 .. (m + 5)
    OBVIOUS
  <2>2. \A k \in 1 .. 5 : e[m + k] = v[k]
    BY ONLY <1>4, <1>8, <2>1
  <2>3. 1 \in 1 .. 5 /\ 2 \in 1 .. 5 /\ 3 \in 1 .. 5 /\ 4 \in 1 .. 5 /\ 5 \in 1 .. 5
    OBVIOUS
  <2> QED BY ONLY <1>2, <2>2, <2>3
<1>11. e = (b \o queueVolatile) \o <<"complete">>
  BY ONLY <1>1, <1>5, Zenon
<1> QED BY ONLY <1>0, <1>8, <1>9, <1>10, <1>11

LEMMA Layout ==
  ASSUME NEW r \in Reqs
  PROVE  /\ Size(r) \in Nat /\ Size(r) >= 6 /\ VolatileEnd(r) /\ (BulkReads(r) \/ BulkWrites(r))
         /\ \A k \in 1 .. Size(r) : Operations(r)[k].n = k /\ Operations(r)[k].req = r
<1>1. Requests[r].bulk \in Nat
  <2>1. r \in 1 .. Len(Requests) /\ Requests \in Seq([bulk : Nat, write : BOOLEAN])
    BY SequencerAssumption DEF Reqs
  <2>2. Requests[r] \in [bulk : Nat, write : BOOLEAN]
    BY <2>1, ElementOfSeq
  <2> QED BY <2>2
<1>2. PICK n \in Nat : \E c \in {handleWrite(n), handleRead(n)} :
        Operations(r) = [k \in 1 .. Len(c) |-> [req |-> r, n |-> k, com |-> c[k]]]
  BY <1>1 DEF Operations
<1>2a. PICK coms \in {handleWrite(n), handleRead(n)} :
        Operations(r) = [k \in 1 .. Len(coms) |-> [req |-> r, n |-> k, com |-> coms[k]]]
  BY <1>2
<1>3. PICK bulkR, bulkW : bulkR = [i \in 1 .. n |-> "read"] /\ bulkW = [i \in 1 .. n |-> "write"]
  OBVIOUS
<1>4. /\ bulkR \in Seq(Coms) /\ Len(bulkR) = n /\ \A k \in 1 .. n : bulkR[k] = "read"
      /\ bulkW \in Seq(Coms) /\ Len(bulkW) = n /\ \A k \in 1 .. n : bulkW[k] = "write"
  <2>1. "read" \in Coms /\ "write" \in Coms
    BY DEF Coms
  <2> QED BY <1>3, <2>1
<1>5. PICK h : h = <<"barrier", "page", "barrier">>
  OBVIOUS
<1>6. h \in Seq(Coms) /\ Len(h) = 3 /\ h[1] = "barrier" /\ h[2] = "page" /\ h[3] = "barrier"
  BY <1>5 DEF Coms
<1>7. \E m \in Nat, b \in Seq(Coms) :
        /\ m = Len(b) /\ coms = (b \o queueVolatile) \o <<"complete">>
        /\ \/ \A k \in 1 .. m : b[k] = "read"
           \/ /\ m >= 4 /\ b[1] = "barrier" /\ b[2] = "page" /\ b[3] = "barrier"
              /\ \A k \in 4 .. m : b[k] = "write"
  <2>1. CASE coms = handleRead(n)
    <3>1. coms = (bulkR \o queueVolatile) \o <<"complete">>
      BY <1>3, <2>1 DEF handleRead
    <3> QED BY <1>4, <3>1
  <2>2. CASE coms = handleWrite(n) /\ n > 0
    <3>1. coms = ((h \o bulkW) \o queueVolatile) \o <<"complete">>
      BY <1>3, <1>5, <2>2 DEF handleWrite
    <3>3. PICK b : b = h \o bulkW
      OBVIOUS
    <3>2. /\ b \in Seq(Coms) /\ Len(b) = 3 + n
          /\ \A k \in 1 .. 3 : b[k] = h[k]
          /\ \A k \in 1 .. n : b[3 + k] = bulkW[k]
      <4>1. PICK t : t = 3 /\ t = Len(h)
        BY <1>6
      <4>2. /\ b \in Seq(Coms) /\ Len(b) = t + n
            /\ \A k \in 1 .. t : b[k] = h[k]
            /\ \A k \in 1 .. n : b[t + k] = bulkW[k]
        <5>1. /\ h \o bulkW \in Seq(Coms) /\ Len(h \o bulkW) = Len(h) + Len(bulkW)
              /\ \A k \in 1 .. Len(h) : (h \o bulkW)[k] = h[k]
              /\ \A k \in 1 .. Len(bulkW) : (h \o bulkW)[Len(h) + k] = bulkW[k]
          BY ONLY <1>4, <1>6, JoinedAt, Zenon
        <5> QED BY ONLY <1>4, <3>3, <4>1, <5>1, Zenon
      <4> QED BY ONLY <4>1, <4>2
    <3>4. b[1] = "barrier" /\ b[2] = "page" /\ b[3] = "barrier"
      <4>1. 1 \in 1 .. 3 /\ 2 \in 1 .. 3 /\ 3 \in 1 .. 3
        OBVIOUS
      <4> QED BY ONLY <1>6, <3>2, <3>3, <4>1
    <3>5. \A k \in 4 .. (3 + n) : b[k] = "write"
      <4> TAKE k \in 4 .. (3 + n)
      <4>1. PICK j \in 1 .. n : k = 3 + j
        <5>1. k - 3 \in 1 .. n /\ k = 3 + (k - 3)
          OBVIOUS
        <5> QED BY <5>1
      <4> QED BY <1>4, <3>2, <3>3, <4>1
    <3>6. 3 + n \in Nat /\ 3 + n >= 4 /\ b \in Seq(Coms) /\ Len(b) = 3 + n
      BY <2>2, <3>2, <3>3
    <3> QED BY <3>1, <3>3, <3>4, <3>5, <3>6
  <2>3. CASE coms = handleWrite(n) /\ ~(n > 0)
    <3>1. n = 0
      BY <2>3
    <3>2. <<>> \o bulkW = bulkW
      BY <1>4
    <3>3. coms = (bulkW \o queueVolatile) \o <<"complete">>
      BY <1>3, <2>3, <3>2 DEF handleWrite
    <3>4. \A k \in 1 .. n : bulkW[k] = "read"
      BY <3>1
    <3> QED BY <1>4, <3>3, <3>4
  <2> QED BY <2>1, <2>2, <2>3
<1>8. PICK m \in Nat, b \in Seq(Coms) :
        /\ m = Len(b) /\ coms = (b \o queueVolatile) \o <<"complete">>
        /\ \/ \A k \in 1 .. m : b[k] = "read"
           \/ /\ m >= 4 /\ b[1] = "barrier" /\ b[2] = "page" /\ b[3] = "barrier"
              /\ \A k \in 4 .. m : b[k] = "write"
  BY <1>7
<1>9. /\ Len(coms) = m + 6
      /\ \A k \in 1 .. m : coms[k] = b[k]
      /\ coms[m + 1] = "barrier" /\ coms[m + 2] = "prepare" /\ coms[m + 3] = "barrier"
      /\ coms[m + 4] = "execute" /\ coms[m + 5] = "barrier" /\ coms[m + 6] = "complete"
  <2>1. PICK z \in Nat, c \in Seq(Coms) :
           /\ z = Len(b) /\ c = (b \o queueVolatile) \o <<"complete">>
           /\ Len(c) = z + 6
           /\ \A k \in 1 .. z : c[k] = b[k]
           /\ c[z + 1] = "barrier" /\ c[z + 2] = "prepare" /\ c[z + 3] = "barrier"
           /\ c[z + 4] = "execute" /\ c[z + 5] = "barrier" /\ c[z + 6] = "complete"
    BY ONLY b \in Seq(Coms), WithVolatile, Zenon
  <2>2. z = m /\ c = coms
    BY ONLY <1>8, <2>1, Zenon
  <2> QED BY ONLY <2>1, <2>2, Zenon
<1>10. /\ Size(r) = m + 6
       /\ \A k \in 1 .. (m + 6) : Com(r, k) = coms[k] /\ Operations(r)[k].n = k /\ Operations(r)[k].req = r
  <2>1. Operations(r) = [k \in 1 .. (m + 6) |-> [req |-> r, n |-> k, com |-> coms[k]]]
    BY ONLY <1>2a, <1>9
  <2>2. Len(Operations(r)) = m + 6
    BY ONLY <2>1, m \in Nat
  <2>3. \A k \in 1 .. (m + 6) : Operations(r)[k] = [req |-> r, n |-> k, com |-> coms[k]]
    BY ONLY <2>1
  <2> QED BY ONLY <2>2, <2>3 DEF Size, Com
<1>11. VolatileEnd(r)
  <2>1. /\ m + 1 \in 1 .. (m + 6) /\ m + 2 \in 1 .. (m + 6) /\ m + 3 \in 1 .. (m + 6)
        /\ m + 4 \in 1 .. (m + 6) /\ m + 5 \in 1 .. (m + 6) /\ m + 6 \in 1 .. (m + 6)
        /\ (m + 6) - 5 = m + 1 /\ (m + 6) - 4 = m + 2 /\ (m + 6) - 3 = m + 3
        /\ (m + 6) - 2 = m + 4 /\ (m + 6) - 1 = m + 5
    OBVIOUS
  <2> QED BY ONLY <1>9, <1>10, <2>1 DEF VolatileEnd
<1>12. \A k \in 1 .. m : Com(r, k) = b[k]
  <2>1. \A k \in 1 .. m : k \in 1 .. (m + 6)
    OBVIOUS
  <2> QED BY ONLY <1>9, <1>10, <2>1
<1>13. (m + 6) - 6 = m /\ m + 6 >= 6 /\ (m >= 4 => m + 6 >= 10)
  OBVIOUS
<1>14. CASE \A k \in 1 .. m : b[k] = "read"
  BY ONLY <1>10, <1>11, <1>12, <1>13, <1>14, m \in Nat DEF BulkReads
<1>15. CASE /\ m >= 4 /\ b[1] = "barrier" /\ b[2] = "page" /\ b[3] = "barrier"
            /\ \A k \in 4 .. m : b[k] = "write"
  <2>1. 1 \in 1 .. m /\ 2 \in 1 .. m /\ 3 \in 1 .. m /\ \A k \in 4 .. m : k \in 1 .. m
    BY <1>15
  <2> QED BY ONLY <1>10, <1>11, <1>12, <1>13, <1>15, <2>1, m \in Nat DEF BulkWrites
<1> QED BY <1>8, <1>14, <1>15

\* Where in a request a command can be.
LEMMA Stations ==
  ASSUME NEW r \in Reqs, NEW L, L = Size(r), NEW n \in 1 .. L
  PROVE  /\ L \in Nat /\ L >= 6
         /\ Com(r, n) = "complete" <=> n = L
         /\ Com(r, n) = "execute" <=> n = L - 2
         /\ Com(r, n) = "prepare" <=> n = L - 4
         /\ n = L - 1 \/ n = L - 3 \/ n = L - 5 => Com(r, n) = "barrier"
         /\ Com(r, n) = "page" => n = 2 /\ BulkWrites(r)
         /\ BulkWrites(r) /\ n = 2 => Com(r, n) = "page"
         /\ BulkWrites(r) /\ (n = 1 \/ n = 3) => Com(r, n) = "barrier"
         /\ Com(r, n) = "write" => n >= 4 /\ BulkWrites(r)
<1>1. /\ L \in Nat /\ L >= 6 /\ VolatileEnd(r) /\ (BulkReads(r) \/ BulkWrites(r))
  BY Layout
<1>2. /\ Com(r, L - 5) = "barrier" /\ Com(r, L - 4) = "prepare" /\ Com(r, L - 3) = "barrier"
      /\ Com(r, L - 2) = "execute" /\ Com(r, L - 1) = "barrier" /\ Com(r, L) = "complete"
  BY ONLY <1>1, L = Size(r) DEF VolatileEnd
<1>3. \/ n \in 1 .. (L - 6) \/ n = L - 5 \/ n = L - 4 \/ n = L - 3 \/ n = L - 2 \/ n = L - 1 \/ n = L
  BY <1>1
<1>4. \A k \in 1 .. (L - 6) :
        k # L - 5 /\ k # L - 4 /\ k # L - 3 /\ k # L - 2 /\ k # L - 1 /\ k # L
  BY <1>1
<1>5. /\ L # L - 1 /\ L # L - 2 /\ L # L - 3 /\ L # L - 4 /\ L # L - 5
      /\ L - 1 # L - 2 /\ L - 1 # L - 3 /\ L - 1 # L - 4 /\ L - 1 # L - 5
      /\ L - 2 # L - 3 /\ L - 2 # L - 4 /\ L - 2 # L - 5
      /\ L - 3 # L - 4 /\ L - 3 # L - 5 /\ L - 4 # L - 5
  BY <1>1
<1>6. BulkWrites(r) => /\ L >= 10 /\ Com(r, 1) = "barrier" /\ Com(r, 2) = "page" /\ Com(r, 3) = "barrier"
                       /\ \A k \in 4 .. (L - 6) : Com(r, k) = "write"
  BY ONLY L = Size(r) DEF BulkWrites
<1>7. BulkReads(r) => \A k \in 1 .. (L - 6) : Com(r, k) = "read"
  BY ONLY L = Size(r) DEF BulkReads
<1>8. CASE n \in 1 .. (L - 6) /\ BulkReads(r) /\ ~BulkWrites(r)
  BY ONLY <1>1, <1>4, <1>7, <1>8
<1>9. CASE n \in 1 .. (L - 6) /\ BulkWrites(r)
  <2>1. n = 1 \/ n = 2 \/ n = 3 \/ n \in 4 .. (L - 6)
    BY <1>1, <1>9
  <2>2. \A k \in 4 .. (L - 6) : k >= 4 /\ k # 1 /\ k # 2 /\ k # 3
    BY <1>1
  <2> QED BY ONLY <1>1, <1>4, <1>6, <1>9, <2>1, <2>2
<1>10. CASE n = L - 5 \/ n = L - 4 \/ n = L - 3 \/ n = L - 2 \/ n = L - 1 \/ n = L
  <2>1. BulkWrites(r) => n # 1 /\ n # 2 /\ n # 3
    BY <1>1, <1>6, <1>10
  <2> QED BY ONLY <1>1, <1>2, <1>5, <1>10, <2>1
<1> QED BY ONLY <1>1, <1>3, <1>8, <1>9, <1>10

\* Commands that follow each other without a barrier are alike.
LEMMA Neighbours ==
  ASSUME NEW r \in Reqs, NEW L, L = Size(r), NEW n \in 1 .. L, n > 1,
         Com(r, n - 1) \notin {"barrier", "complete"}, Com(r, n) \notin {"barrier", "complete"}
  PROVE  Com(r, n - 1) = Com(r, n)
<1>1. /\ L \in Nat /\ L >= 6 /\ VolatileEnd(r) /\ (BulkReads(r) \/ BulkWrites(r))
  BY Layout
<1>2. /\ Com(r, L - 5) = "barrier" /\ Com(r, L - 3) = "barrier"
      /\ Com(r, L - 1) = "barrier" /\ Com(r, L) = "complete"
  BY ONLY <1>1, L = Size(r) DEF VolatileEnd
<1>3. n \in 2 .. (L - 6)
  <2>1. \/ n \in 2 .. (L - 6) \/ n = L - 5 \/ n - 1 = L - 5 \/ n = L - 3 \/ n - 1 = L - 3
        \/ n = L - 1 \/ n = L
    BY <1>1
  <2> QED BY <1>2, <2>1
<1>4. n - 1 \in 1 .. (L - 6) /\ n \in 1 .. (L - 6)
  BY <1>1, <1>3
<1>5. CASE BulkReads(r)
  <2>1. \A k \in 1 .. (L - 6) : Com(r, k) = "read"
    BY ONLY <1>5, L = Size(r) DEF BulkReads
  <2> QED BY ONLY <1>4, <2>1
<1>6. CASE BulkWrites(r)
  <2>1. /\ Com(r, 1) = "barrier" /\ Com(r, 3) = "barrier"
        /\ \A k \in 4 .. (L - 6) : Com(r, k) = "write"
    BY ONLY <1>6, L = Size(r) DEF BulkWrites
  <2>2. n - 1 = 1 \/ n = 3 \/ n - 1 = 3 \/ (n - 1 \in 4 .. (L - 6) /\ n \in 4 .. (L - 6))
    BY <1>1, <1>4
  <2> QED BY <2>1, <2>2
<1> QED BY <1>1, <1>5, <1>6

-----------------------------------------------------------------------------
(* How far the requests have come *)

\* The operations to be scheduled are the ones the requests are made of, in
\* order and without a gap, up to the last one of the last request.
Follows(a, b) ==
  IF a.n < Size(a.req) THEN b.req = a.req /\ b.n = a.n + 1 ELSE b.req = a.req + 1 /\ b.n = 1
Chained(q, last) ==
  /\ \A i \in 1 .. Len(q) : /\ q[i].req \in Reqs /\ q[i].n \in 1 .. Size(q[i].req)
                            /\ q[i].com = Com(q[i].req, q[i].n)
  /\ \A i \in 1 .. (Len(q) - 1) : Follows(q[i], q[i + 1])
  /\ q # <<>> => q[Len(q)].req = last /\ q[Len(q)].n = Size(last)
Chain == Chained(opQueue, queued)

\* The next operation: the one numbered frontN of the request frontReq.
frontReq == IF opQueue = <<>> THEN queued + 1 ELSE opQueue[1].req
frontN   == IF opQueue = <<>> THEN 1 ELSE opQueue[1].n

\* What is waited for, to be repeated or on its way are commands like the one
\* before the next operation.
Like(x, r, n) == n > 1 /\ x.req = r /\ x.com = Com(r, n - 1) /\ ~IsBarrier(x)
Repeatable(r, n) ==
  /\ \A op \in Elems(reissueQueue) \cup Waiting : Like(op, r, n)
  /\ \A i \in 1 .. Len(toTarget) : Like(toTarget[i], r, n)

\* Where the target is when the next operation is the one numbered n of r.
Ready(r) == prepared = r /\ page = r
Fresh(r) == Ready(r) /\ performed[r] = 0 /\ fromTarget = <<>> /\ ~isIdle
Done(r)  ==
  /\ prepared = 0 /\ result = r /\ performed[r] = 1
  /\ \A i \in 1 .. Len(fromTarget) : fromTarget[i].result = r
  /\ isIdle => answer[r] = r
Known == isIdle \/ fromTarget # <<>>
Stage(r, n, L) ==
  /\ n <= L - 2 => performed[r] = 0
  /\ n = L - 3 /\ Known => Ready(r)
  /\ n = L - 2 => Ready(r)
  /\ n = L - 1 => Fresh(r) \/ Done(r)
  /\ n = L => performed[r] = 1 /\ answer[r] = r
  /\ BulkWrites(r) /\ n = 3 /\ Known => page = r
  /\ BulkWrites(r) /\ n >= 4 => page = r

TargetTypes ==
  performed \in [Reqs -> Nat] /\ answer \in [Reqs -> Nat] /\ page \in Nat
Told(r) ==
  /\ \A q \in Reqs : performed[q] <= 1 /\ (q > r => performed[q] = 0)
  /\ \A q \in Reqs : report[q] = "ok" => performed[q] = 1 /\ answer[q] = q
  /\ astray = {}
Positioned(r, n) ==
  /\ Repeatable(r, n) /\ Told(r)
  /\ r \in Reqs => Stage(r, n, Size(r))
OnceInv ==
  /\ Chain /\ TargetTypes
  /\ late = 0 => \A r, n \in Nat : r = frontReq /\ n = frontN => Positioned(r, n)

-----------------------------------------------------------------------------
(* The queue *)

\* The next operation is the one of its number in its request.
LEMMA FrontOperation ==
  ASSUME LinkTypes, Chain
  PROVE  /\ frontN \in Nat /\ frontReq \in Nat
         /\ opQueue = <<>> => frontReq = queued + 1 /\ frontN = 1
         /\ opQueue # <<>> => /\ frontReq \in Reqs /\ frontN \in 1 .. Size(frontReq)
                              /\ Head(opQueue).req = frontReq /\ Head(opQueue).n = frontN
                              /\ Head(opQueue).com = Com(frontReq, frontN)
                              /\ Head(opQueue) \in Ops
<1>1. CASE opQueue = <<>>
  BY <1>1 DEF frontReq, frontN, LinkTypes
<1>2. CASE opQueue # <<>>
  <2>1. Len(opQueue) \in Nat /\ Len(opQueue) >= 1 /\ Head(opQueue) = opQueue[1] /\ Head(opQueue) \in Ops
    BY <1>2, HeadTail DEF LinkTypes
  <2>2. 1 \in 1 .. Len(opQueue)
    BY <2>1
  <2>3. PICK op : op = opQueue[1] /\ op = Head(opQueue) /\ op \in Ops
    BY <2>1
  <2>4. op.req \in Reqs /\ op.n \in 1 .. Size(op.req) /\ op.com = Com(op.req, op.n)
    BY <2>2, <2>3 DEF Chain, Chained
  <2>5. frontReq = op.req /\ frontN = op.n
    BY <1>2, <2>3 DEF frontReq, frontN
  <2>6. op.req \in Nat /\ op.n \in Nat
    BY <2>3 DEF Ops
  <2> QED BY ONLY <1>2, <2>3, <2>4, <2>5, <2>6
<1> QED BY <1>1, <1>2

\* Scheduling an operation moves on to the one after it.
LEMMA ChainTail ==
  ASSUME LinkTypes, Chain, opQueue # <<>>, opQueue' = Tail(opQueue), queued' = queued
  PROVE  /\ Chain'
         /\ frontN < Size(frontReq) => frontReq' = frontReq /\ frontN' = frontN + 1
         /\ ~(frontN < Size(frontReq)) => frontReq' = frontReq + 1 /\ frontN' = 1
<1>0. PICK m \in Nat, q \in Seq(Ops) : m = Len(opQueue) /\ q = Tail(opQueue)
  BY HeadTail DEF LinkTypes
<1>1. /\ m \in Nat /\ m = Len(opQueue) /\ m >= 1 /\ q = opQueue' /\ Len(q) = m - 1
      /\ q \in Seq(Ops)
      /\ \A i \in 1 .. (m - 1) : q[i] = opQueue[i + 1]
  <2>1. opQueue \in Seq(Ops) /\ opQueue # <<>>
    BY DEF LinkTypes
  <2>2. /\ Tail(opQueue) \in Seq(Ops) /\ Len(opQueue) \in Nat /\ Len(opQueue) >= 1
        /\ Len(Tail(opQueue)) = Len(opQueue) - 1
        /\ \A i \in 1 .. Len(Tail(opQueue)) : Tail(opQueue)[i] = opQueue[i + 1]
    BY ONLY <2>1, HeadTail
  <2> QED BY ONLY <1>0, <2>2, opQueue' = Tail(opQueue), Zenon
<1>2. /\ \A i \in 1 .. m : /\ opQueue[i].req \in Reqs /\ opQueue[i].n \in 1 .. Size(opQueue[i].req)
                           /\ opQueue[i].com = Com(opQueue[i].req, opQueue[i].n)
      /\ \A i \in 1 .. (m - 1) : Follows(opQueue[i], opQueue[i + 1])
      /\ opQueue[m].req = queued /\ opQueue[m].n = Size(queued)
  BY <1>1 DEF Chain, Chained
<1>3. \A i \in 1 .. (m - 1) : i + 1 \in 1 .. m
  BY <1>1
<1>4. \A i \in 1 .. (m - 2) : i \in 1 .. (m - 1) /\ i + 1 \in 1 .. (m - 1)
  BY <1>1
<1>5. /\ \A i \in 1 .. (m - 1) : /\ q[i].req \in Reqs /\ q[i].n \in 1 .. Size(q[i].req)
                                 /\ q[i].com = Com(q[i].req, q[i].n)
      /\ \A i \in 1 .. (m - 2) : Follows(q[i], q[i + 1])
  BY ONLY <1>1, <1>2, <1>3, <1>4
<1>6. q # <<>> => m - 1 \in 1 .. (m - 1) /\ (m - 1) + 1 = m
  <2>1. q # <<>> => m - 1 # 0
    BY <1>1
  <2> QED BY ONLY <1>1, <2>1
<1>7. q # <<>> => q[m - 1].req = queued /\ q[m - 1].n = Size(queued)
  BY ONLY <1>1, <1>2, <1>6
<1>8. Chain'
  <2>1. (m - 1) - 1 = m - 2
    OBVIOUS
  <2>2. Len(opQueue') = m - 1 /\ opQueue' = q
    BY <1>1
  <2>3. Chained(q, queued)
    BY ONLY <1>1, <1>5, <1>7, <2>1 DEF Chained
  <2> QED BY ONLY <2>2, <2>3, queued' = queued DEF Chain
<1>9. frontReq = opQueue[1].req /\ frontN = opQueue[1].n
  BY DEF frontReq, frontN
<1>10. CASE m = 1
  <2>1. q = <<>>
    <3>1. Len(q) = 0 /\ q \in Seq(Ops)
      BY ONLY <1>1, <1>10
    <3> QED BY ONLY <3>1, EmptySeq
  <2>2. frontReq' = queued + 1 /\ frontN' = 1
    BY <1>1, <2>1 DEF frontReq, frontN
  <2>3. frontReq = queued /\ frontN = Size(queued)
    BY <1>2, <1>9, <1>10
  <2>4. Size(queued) \in Nat
    BY <2>3, FrontOperation
  <2>5. ~(frontN < Size(frontReq))
    BY ONLY <2>3, <2>4
  <2> QED BY ONLY <1>8, <2>2, <2>3, <2>5
<1>11. CASE m # 1
  <2>1. 1 \in 1 .. (m - 1) /\ q # <<>>
    <3>1. 1 \in 1 .. (m - 1)
      BY <1>1, <1>11
    <3>2. Len(<<>>) = 0 /\ m - 1 # 0
      BY <1>11
    <3> QED BY ONLY <1>1, <3>1, <3>2
  <2>2. PICK a, b : a = opQueue[1] /\ b = q[1] /\ Follows(a, b)
    <3>1. q[1] = opQueue[1 + 1]
      BY ONLY <1>1, <2>1
    <3> QED BY ONLY <1>2, <2>1, <3>1
  <2>3. frontReq' = b.req /\ frontN' = b.n
    BY <1>1, <2>1, <2>2 DEF frontReq, frontN
  <2> QED BY ONLY <1>8, <1>9, <2>2, <2>3 DEF Follows
<1> QED BY <1>10, <1>11

\* A new request is queued behind the others.
LEMMA ChainQueue ==
  ASSUME LinkTypes, Placed, Chain, QueueRequest
  PROVE  Chain' /\ frontReq' = frontReq /\ frontN' = frontN
<1>1. PICK r \in Reqs : r = queued + 1 /\ queued' = r
  BY PlacedQueue
<1>2a. PICK ops \in Seq(Ops), L \in Nat : ops = Operations(r) /\ L = Size(r)
  BY RequestOperations, Layout
<1>2. ops = Operations(r) /\ L = Len(ops) /\ L = Size(r) /\ L >= 6 /\ L \in Nat
  BY <1>2a, Layout DEF Size
<1>3. /\ ops \in Seq(Ops)
      /\ \A k \in 1 .. L : ops[k].req = r /\ ops[k].n = k /\ ops[k].com = Com(r, k)
  BY <1>2, RequestOperations DEF Com
<1>4a. PICK m \in Nat : m = Len(opQueue)
  BY LenProperties DEF LinkTypes
<1>4. PICK q : m = Len(opQueue) /\ q = opQueue' /\ q = opQueue \o ops
  BY <1>1, <1>2, <1>4a DEF QueueRequest
<1>5. /\ opQueue \in Seq(Ops) /\ Len(q) = m + L
      /\ \A i \in 1 .. (m + L) : q[i] = IF i <= m THEN opQueue[i] ELSE ops[i - m]
  <2>1. opQueue \in Seq(Ops)
    BY DEF LinkTypes
  <2>2. /\ Len(opQueue \o ops) = Len(opQueue) + Len(ops)
        /\ \A i \in 1 .. (Len(opQueue) + Len(ops)) :
             (opQueue \o ops)[i] = IF i <= Len(opQueue) THEN opQueue[i] ELSE ops[i - Len(opQueue)]
    BY ONLY <1>3, <2>1, ConcatProperties
  <2> QED BY ONLY <1>2, <1>4, <2>1, <2>2, Zenon
<1>6. /\ \A i \in 1 .. m : /\ opQueue[i].req \in Reqs /\ opQueue[i].n \in 1 .. Size(opQueue[i].req)
                           /\ opQueue[i].com = Com(opQueue[i].req, opQueue[i].n)
      /\ \A i \in 1 .. (m - 1) : Follows(opQueue[i], opQueue[i + 1])
      /\ opQueue # <<>> => opQueue[m].req = queued /\ opQueue[m].n = Size(queued)
  BY <1>4 DEF Chain, Chained
<1>7. \A i \in 1 .. (m + L) : /\ i <= m => i \in 1 .. m
                              /\ ~(i <= m) => i - m \in 1 .. L
  OBVIOUS
<1>8. \A i \in 1 .. (m + L) : /\ q[i].req \in Reqs /\ q[i].n \in 1 .. Size(q[i].req)
                              /\ q[i].com = Com(q[i].req, q[i].n)
  <2> TAKE i \in 1 .. (m + L)
  <2>1. CASE i <= m
    <3>1. i \in 1 .. m /\ q[i] = opQueue[i]
      BY ONLY <1>5, <1>7, <2>1
    <3> QED BY ONLY <1>6, <3>1
  <2>2. CASE ~(i <= m)
    <3>1. i - m \in 1 .. L /\ q[i] = ops[i - m]
      BY ONLY <1>5, <1>7, <2>2
    <3>2. q[i].req = r /\ q[i].n = i - m /\ q[i].com = Com(r, i - m)
      BY ONLY <1>3, <3>1
    <3> QED BY ONLY <1>2, <3>1, <3>2, r \in Reqs
  <2> QED BY ONLY <2>1, <2>2
<1>9. ASSUME NEW i \in 1 .. ((m + L) - 1) PROVE Follows(q[i], q[i + 1])
  <2>0. L >= 6
    BY <1>2
  <2>1. CASE i < m
    <3>1. i \in 1 .. (m - 1) /\ i \in 1 .. (m + L) /\ i + 1 \in 1 .. (m + L) /\ i <= m /\ i + 1 <= m
      BY <2>0, <2>1
    <3> QED BY ONLY <1>5, <1>6, <3>1
  <2>2. CASE i = m
    <3>1. /\ i \in 1 .. (m + L) /\ i + 1 \in 1 .. (m + L) /\ i <= m /\ ~(i + 1 <= m)
          /\ (i + 1) - m = 1 /\ 1 \in 1 .. L /\ m # 0
      BY <2>0, <2>2
    <3>2. q[i] = opQueue[m] /\ q[i + 1] = ops[1]
      BY ONLY <1>5, <2>2, <3>1
    <3>3. opQueue # <<>>
      BY <1>4, <3>1
    <3>4. q[i].req = queued /\ q[i].n = Size(queued) /\ q[i + 1].req = r /\ q[i + 1].n = 1
      BY ONLY <1>3, <1>6, <3>1, <3>2, <3>3
    <3>5. ~(Size(queued) < Size(queued))
      <4>1. q[i].n \in 1 .. Size(q[i].req) /\ q[i].req \in Reqs
        BY <1>8, <3>1
      <4>2. Size(queued) \in Nat
        BY <3>4, <4>1, Layout
      <4> QED BY <4>2
    <3> QED BY ONLY <1>1, <3>4, <3>5 DEF Follows
  <2>3. CASE i > m
    <3>1. /\ i \in 1 .. (m + L) /\ i + 1 \in 1 .. (m + L) /\ ~(i <= m) /\ ~(i + 1 <= m)
          /\ (i + 1) - m = (i - m) + 1 /\ i - m \in 1 .. L /\ (i - m) + 1 \in 1 .. L /\ i - m < L
      BY <2>0, <2>3
    <3>2. PICK k : k = i - m
      OBVIOUS
    <3>3. k \in 1 .. L /\ k + 1 \in 1 .. L /\ k < L /\ q[i] = ops[k] /\ q[i + 1] = ops[k + 1]
      BY ONLY <1>5, <3>1, <3>2
    <3>4. q[i].req = r /\ q[i].n = k /\ q[i + 1].req = r /\ q[i + 1].n = k + 1
      BY ONLY <1>3, <3>3
    <3> QED BY ONLY <1>2, <3>3, <3>4 DEF Follows
  <2>4. i < m \/ i = m \/ i > m
    OBVIOUS
  <2> QED BY ONLY <2>1, <2>2, <2>3, <2>4
<1>10. q[m + L].req = r /\ q[m + L].n = Size(r)
  <2>1. m + L \in 1 .. (m + L) /\ ~(m + L <= m) /\ (m + L) - m = L /\ L \in 1 .. L
    BY <1>2
  <2> QED BY ONLY <1>2, <1>3, <1>5, <2>1
<1>11. Chain'
  <2>1. Chained(q, r)
    BY ONLY <1>1, <1>5, <1>8, <1>9, <1>10 DEF Chained
  <2> QED BY ONLY <1>1, <1>4, <2>1 DEF Chain
<1>12. q # <<>>
  BY <1>2, <1>5
<1>13. CASE opQueue = <<>>
  <2>1. m = 0
    BY <1>4, <1>13
  <2>2. q[1] = ops[1]
    <3>1. 1 \in 1 .. (m + L) /\ ~(1 <= m) /\ 1 - m = 1
      BY <1>2, <2>1
    <3> QED BY ONLY <1>5, <3>1
  <2>3. q[1].req = r /\ q[1].n = 1
    <3>1. 1 \in 1 .. L
      BY <1>2
    <3> QED BY ONLY <1>3, <2>2, <3>1
  <2>4. frontReq' = q[1].req /\ frontN' = q[1].n
    BY <1>4, <1>12 DEF frontReq, frontN
  <2>5. frontReq = queued + 1 /\ frontN = 1
    BY <1>13 DEF frontReq, frontN
  <2> QED BY ONLY <1>1, <1>11, <2>3, <2>4, <2>5
<1>14. CASE opQueue # <<>>
  <2>1. m # 0
    BY <1>4, <1>5, <1>14, EmptySeq
  <2>2. q[1] = opQueue[1]
    <3>1. 1 \in 1 .. (m + L) /\ 1 <= m
      BY <1>2, <2>1
    <3> QED BY ONLY <1>5, <3>1
  <2>3. frontReq' = q[1].req /\ frontN' = q[1].n
    BY <1>4, <1>12 DEF frontReq, frontN
  <2>4. frontReq = opQueue[1].req /\ frontN = opQueue[1].n
    BY <1>14 DEF frontReq, frontN
  <2> QED BY ONLY <1>11, <2>2, <2>3, <2>4
<1> QED BY <1>13, <1>14

-----------------------------------------------------------------------------
(* While no timeout comes early *)

Active == Elems(reissueQueue) \cup Waiting

\* What is sent again was waiting, what is waiting was scheduled.
LEMMA ActiveHeld ==
  ASSUME Placed
  PROVE  Active = Held \ Elems(opQueue)
BY DEF Active, Held, Placed

LEMMA ActiveKept ==
  ASSUME LinkTypes, Placed, [Next]_vars
  PROVE  /\ ReceivePacket \/ RetryTimeout => Active' \subseteq Active
         /\ Reissue => Active' = Active
         /\ IssueCommand => Active' \subseteq Active \cup {Head(opQueue)}
         /\ UNCHANGED <<reissueQueue, slots>> => Active' = Active
<1>1. Active = Held \ Elems(opQueue) /\ (Active = Held \ Elems(opQueue))'
  <2>1. Placed'
    BY PlacedKept
  <2> QED BY <2>1, ActiveHeld DEF Active, Held, Placed
<1>2. ASSUME ReceivePacket \/ RetryTimeout PROVE Active' \subseteq Active
  <2>1. PICK s \in SeqNumbers :
           /\ reissueQueue' = reissueQueue \o SkippedOps(s)
           /\ DOMAIN slots' \subseteq {x \in DOMAIN slots : Distance(x) >= Distance(s)}
           /\ \A x \in DOMAIN slots' : slots'[x] = slots[x]
           /\ UNCHANGED <<opQueue, queued, report>>
    BY <1>2, RequeueSteps
  <2>2. Held' \subseteq Held
    BY <2>1, PlacedRequeue
  <2>3. Elems(opQueue)' = Elems(opQueue)
    BY <2>1
  <2> QED BY <1>1, <2>2, <2>3
<1>3. ASSUME Reissue PROVE Active' = Active
  <2>1. Held' = Held /\ opQueue' = opQueue
    BY <1>3, PlacedReissue DEF Reissue
  <2> QED BY <1>1, <2>1
<1>4. ASSUME IssueCommand PROVE Active' \subseteq Active \cup {Head(opQueue)}
  <2>1. Held' = Held /\ opQueue # <<>> /\ opQueue' = Tail(opQueue)
    BY <1>4, PlacedIssue DEF IssueCommand
  <2>2. Elems(opQueue') = Elems(opQueue) \ {Head(opQueue)}
    BY <2>1, DistinctTail DEF LinkTypes, Placed
  <2> QED BY <1>1, <2>1, <2>2
<1>5. UNCHANGED <<reissueQueue, slots>> => Active' = Active
  BY DEF Active, Waiting
<1> QED BY <1>2, <1>3, <1>4, <1>5

\* A packet on the line belongs to a command that waits for its reply.
LEMMA LineWaits ==
  ASSUME LinkInv, late = 0
  PROVE  /\ fromTarget # <<>> \/ toTarget # <<>> => Waiting # {} /\ ~isIdle
         /\ fromTarget # <<>> => Head(fromTarget).seq \in DOMAIN slots
         /\ numIssued \in 0 .. 16
<1>1. LinkTypes /\ Window /\ Flight
  BY DEF LinkInv
<1>2. numIssued \in 0 .. 16 /\ \A s \in SeqNumbers : s \in DOMAIN slots <=> Distance(s) < numIssued
  BY <1>1 DEF Window
<1>3. rxSeqCounter \in SeqNumbers /\ \A s \in SeqNumbers : Distance(s) \in 0 .. 15
  BY <1>1, SkippedNumbers DEF LinkTypes
<1>4. ASSUME NEW s \in SeqNumbers, Distance(s) < numIssued
      PROVE  s \in DOMAIN slots /\ Waiting # {} /\ ~isIdle
  <2>1. s \in DOMAIN slots
    BY <1>2, <1>4
  <2>2. numIssued # 0
    <3>1. Distance(s) \in 0 .. 15
      BY <1>3
    <3> QED BY <1>4, <3>1
  <2> QED BY <2>1, <2>2 DEF Waiting, isIdle
<1>5. fromTarget # <<>> =>
        /\ 1 \in 1 .. Len(fromTarget) /\ Head(fromTarget) = fromTarget[1]
        /\ Head(fromTarget).seq \in SeqNumbers
  <2>1. fromTarget \in Seq(Replies)
    BY <1>1 DEF LinkTypes
  <2>2. fromTarget # <<>> => /\ Head(fromTarget) = fromTarget[1] /\ Head(fromTarget) \in Replies
                             /\ Len(fromTarget) \in Nat /\ Len(fromTarget) >= 1
    BY <2>1, HeadTail
  <2> QED BY <2>2 DEF Replies
<1>6. toTarget # <<>> =>
        /\ 1 \in 1 .. Len(toTarget) /\ Head(toTarget) = toTarget[1]
        /\ Head(toTarget).seq \in SeqNumbers
  <2>1. toTarget \in Seq(Commands)
    BY <1>1 DEF LinkTypes
  <2>2. toTarget # <<>> => /\ Head(toTarget) = toTarget[1] /\ Head(toTarget) \in Commands
                           /\ Len(toTarget) \in Nat /\ Len(toTarget) >= 1
    BY <2>1, HeadTail
  <2> QED BY <2>2 DEF Commands
<1>7. fromTarget # <<>> => Distance(Head(fromTarget).seq) < numIssued
  BY <1>1, <1>5 DEF Flight
<1>8. toTarget # <<>> => Distance(Head(toTarget).seq) < numIssued
  BY <1>1, <1>6 DEF Flight
<1>9. fromTarget # <<>> => Head(fromTarget).seq \in DOMAIN slots /\ Waiting # {} /\ ~isIdle
  BY <1>4, <1>5, <1>7
<1>10. toTarget # <<>> => Waiting # {} /\ ~isIdle
  BY <1>4, <1>6, <1>8
<1> QED BY <1>2, <1>9, <1>10

\* A command that waits is sent again, or still waits, after a timeout.
LEMMA RetryIsBusy ==
  ASSUME LinkInv, Placed, late = 0, RetryTimeout
  PROVE  ~isIdle'
<1>1. LinkTypes /\ Window
  BY DEF LinkInv
<1>2. PICK d : d = Distance(txSeqCounter)
  OBVIOUS
<1>3. d \in 0 .. 15 /\ rxSeqCounter \in SeqNumbers /\ txSeqCounter \in SeqNumbers
  BY <1>1, <1>2, SkippedNumbers DEF LinkTypes
<1>4. /\ reissueQueue' = reissueQueue \o SkippedOps(txSeqCounter)
      /\ numIssued' = numIssued - d /\ ~isIdle
  BY <1>2 DEF RetryTimeout
<1>5. reissueQueue \in Seq(Ops) /\ SkippedOps(txSeqCounter) \in Seq(Ops)
  BY <1>1, <1>3, SkippedOperations DEF LinkTypes
<1> SUFFICES ASSUME isIdle' PROVE FALSE
  OBVIOUS
<1>6. numIssued' = 0 /\ reissueQueue' = <<>>
  BY DEF isIdle
<1>7. reissueQueue = <<>> /\ SkippedOps(txSeqCounter) = <<>>
  <2>1. PICK a, b : a = reissueQueue /\ b = SkippedOps(txSeqCounter)
    OBVIOUS
  <2>2. a \in Seq(Ops) /\ b \in Seq(Ops) /\ a \o b = <<>>
    BY <1>4, <1>5, <1>6, <2>1, Zenon
  <2>3. Len(a) = 0 /\ Len(b) = 0
    <3>1. Len(a \o b) = Len(a) + Len(b) /\ Len(a) \in Nat /\ Len(b) \in Nat
      BY ONLY <2>2, ConcatProperties, LenProperties
    <3>2. Len(a \o b) = 0
      BY ONLY <2>2
    <3> QED BY ONLY <3>1, <3>2
  <2> QED BY ONLY <2>1, <2>2, <2>3, EmptySeq
<1>8. numIssued \in 1 .. 16 /\ d >= 1
  <2>1. numIssued # 0 /\ numIssued \in 0 .. 16
    BY <1>1, <1>4, <1>7 DEF isIdle, Window
  <2> QED BY <1>3, <1>4, <1>6, <2>1
<1>9. rxSeqCounter \in DOMAIN slots
  <2>1. Distance(rxSeqCounter) = 0
    <3>1. \A r \in 0 .. 15 : (r - r) % 16 = 0
      OBVIOUS
    <3> QED BY ONLY <1>3, <3>1 DEF Distance, SeqNumbers
  <2>2. 0 < numIssued
    BY <1>8
  <2> QED BY <1>1, <1>3, <2>1, <2>2 DEF Window
<1>10. Skipped(txSeqCounter)[1] = rxSeqCounter
  <2>1. Skipped(txSeqCounter) = [i \in 1 .. d |-> (rxSeqCounter + i - 1) % 16]
    BY <1>2 DEF Skipped
  <2>2. 1 \in 1 .. d
    BY <1>3, <1>8
  <2>3. \A r \in 0 .. 15 : (r + 1 - 1) % 16 = r
    OBVIOUS
  <2> QED BY <1>3, <2>1, <2>2, <2>3 DEF SeqNumbers
<1> DEFINE piece(i) == IF Skipped(txSeqCounter)[i] \in DOMAIN slots
                       THEN <<slots[Skipped(txSeqCounter)[i]]>> ELSE <<>>
           seqs == [i \in 1 .. d |-> piece(i)]
<1>11. SkippedOps(txSeqCounter) = FlattenSeq(seqs)
  BY <1>2 DEF SkippedOps
<1>12. \A i \in 1 .. d : piece(i) \in Seq(Ops)
  BY <1>1 DEF LinkTypes
<1>13. seqs \in Seq(Seq(Ops)) /\ Len(seqs) = d
  <2>1. d \in Nat
    BY <1>3
  <2> HIDE DEF piece
  <2> QED BY <1>12, <2>1
<1>14. 1 \in 1 .. d /\ seqs[1] = <<slots[rxSeqCounter]>>
  <2>1. 1 \in 1 .. d
    BY <1>3, <1>8
  <2>2. piece(1) = <<slots[rxSeqCounter]>>
    BY <1>9, <1>10
  <2> HIDE DEF piece
  <2> QED BY <2>1, <2>2
<1> HIDE DEF seqs, piece
<1>15. Elems(seqs[1]) \subseteq Elems(FlattenSeq(seqs))
  BY <1>13, <1>14, FlattenHasAll
<1>16. slots[rxSeqCounter] \in Elems(seqs[1])
  <2>1. Len(<<slots[rxSeqCounter]>>) = 1 /\ <<slots[rxSeqCounter]>>[1] = slots[rxSeqCounter] /\ 1 \in 1 .. 1
    OBVIOUS
  <2> QED BY <1>14, <2>1 DEF Elems
<1>17. Elems(<<>>) = {}
  BY DEF Elems
<1> QED BY <1>7, <1>11, <1>15, <1>16, <1>17

\* Steps in which less is waited for, and nobody is told anything.
LEMMA Weaker ==
  ASSUME NEW r \in Nat, NEW n \in Nat, Positioned(r, n), UNCHANGED <<targetVars, cbVars>>,
         Repeatable(r, n)', isIdle' => isIdle,
         \A i \in 1 .. Len(fromTarget') : \E j \in 1 .. Len(fromTarget) : fromTarget'[i] = fromTarget[j],
         fromTarget' # <<>> => fromTarget # <<>>
  PROVE  Positioned(r, n)'
<1>1. Told(r)'
  BY DEF Positioned, Told, targetVars, cbVars
<1>2. ASSUME r \in Reqs PROVE Stage(r, n, Size(r))'
  <2>1. PICK L : L = Size(r)
    OBVIOUS
  <2>2. Stage(r, n, L)
    BY <1>2, <2>1 DEF Positioned
  <2>3. Known' => Known
    BY DEF Known
  <2>4. UNCHANGED <<page, prepared, result, performed, answer>>
    BY DEF targetVars, cbVars
  <2>5. (Ready(r) => Ready(r)') /\ (Fresh(r) => Fresh(r)') /\ (Done(r) => Done(r)')
    BY <2>4 DEF Ready, Fresh, Done
  <2>6. Stage(r, n, L)'
    BY ONLY <2>2, <2>3, <2>4, <2>5 DEF Stage
  <2> QED BY <2>1, <2>6
<1> QED BY <1>1, <1>2 DEF Positioned

\* An issued command is like the others.
LEMMA SentLike ==
  ASSUME LinkTypes, NEW op \in Ops, Issue(op), NEW r \in Nat, NEW n \in Nat, Like(op, r, n),
         \A i \in 1 .. Len(toTarget) : Like(toTarget[i], r, n)
  PROVE  \A i \in 1 .. Len(toTarget') : Like(toTarget'[i], r, n)
<1>1. PICK p : p = [seq |-> txSeqCounter, com |-> op.com, req |-> op.req]
  OBVIOUS
<1>2. p \in Commands /\ Like(p, r, n)
  <2>1. Like(p, r, n)
    BY <1>1 DEF Like, IsBarrier
  <2> QED BY <1>1, <2>1 DEF Commands, Ops, LinkTypes
<1>3. toTarget' = toTarget \/ toTarget' = Append(toTarget, p)
  BY <1>1 DEF Issue, Send
<1>4. CASE toTarget' = Append(toTarget, p)
  <2>1. PICK m \in Nat : m = Len(toTarget) /\ toTarget \in Seq(Commands)
    BY LenProperties DEF LinkTypes
  <2>2. /\ Len(toTarget') = m + 1 /\ toTarget'[m + 1] = p
        /\ \A i \in 1 .. m : toTarget'[i] = toTarget[i]
    BY <1>2, <1>4, <2>1, AppendProperties
  <2>3. \A i \in 1 .. (m + 1) : i \in 1 .. m \/ i = m + 1
    OBVIOUS
  <2> QED BY ONLY <1>2, <2>1, <2>2, <2>3, \A i \in 1 .. Len(toTarget) : Like(toTarget[i], r, n)
<1> QED BY <1>3, <1>4

\* What is left when a packet is gone was there before.
LEMMA LineTail ==
  ASSUME NEW S, NEW q \in Seq(S), q # <<>>
  PROVE  \A i \in 1 .. Len(Tail(q)) : \E j \in 1 .. Len(q) : Tail(q)[i] = q[j]
BY HeadTail

LEMMA RepeatableKept ==
  ASSUME NEW r \in Nat, NEW n \in Nat, Repeatable(r, n), Active' \subseteq Active,
         \A i \in 1 .. Len(toTarget') : \E j \in 1 .. Len(toTarget) : toTarget'[i] = toTarget[j]
  PROVE  Repeatable(r, n)'
<1>1. \A op \in Active : Like(op, r, n)
  BY DEF Repeatable, Active
<1>2. \A op \in Active' : Like(op, r, n)
  BY <1>1
<1>3. \A i \in 1 .. Len(toTarget') : Like(toTarget'[i], r, n)
  BY DEF Repeatable
<1> QED BY <1>2, <1>3 DEF Repeatable, Active

\* Steps that schedule nothing and tell nobody anything.
LEMMA UnmovedSteps ==
  ASSUME LinkInv, LinkInv', Placed, late = 0, late' = 0, [Next]_vars, UNCHANGED targetVars,
         NEW r \in Nat, NEW n \in Nat, Positioned(r, n),
         \/ RestartTimer \/ KeepWaiting \/ EndUpdate \/ Expire \/ QueueRequest \/ Line
         \/ RetryTimeout \/ Reissue \/ UNCHANGED vars
  PROVE  Positioned(r, n)'
<1>1. LinkTypes
  BY DEF LinkInv
<1>2. toTarget \in Seq(Commands) /\ fromTarget \in Seq(Replies)
  BY <1>1 DEF LinkTypes
<1>3. Repeatable(r, n)
  BY DEF Positioned
<1>4. CASE RestartTimer \/ KeepWaiting \/ EndUpdate \/ Expire \/ QueueRequest \/ UNCHANGED vars
  <2>1. UNCHANGED <<reissueQueue, slots, numIssued, cbVars, toTarget, fromTarget>>
    BY <1>4 DEF RestartTimer, KeepWaiting, EndUpdate, Expire, QueueRequest, vars, hostVars,
                seqVars, linkVars
  <2>2. Active' = Active /\ (isIdle' => isIdle)
    BY <2>1 DEF Active, Waiting, isIdle
  <2>3. Repeatable(r, n)'
    BY <1>3, <2>1, <2>2, RepeatableKept
  <2> QED BY <2>1, <2>2, <2>3, Weaker
<1>5. CASE LoseCommand /\ UNCHANGED hostVars
  <2>1. /\ UNCHANGED <<reissueQueue, slots, numIssued, cbVars, fromTarget>>
        /\ toTarget # <<>> /\ toTarget' = Tail(toTarget)
    BY <1>5 DEF LoseCommand, hostVars, seqVars
  <2>2. Active' = Active /\ (isIdle' => isIdle)
    BY <2>1 DEF Active, Waiting, isIdle
  <2>3. Repeatable(r, n)'
    BY <1>2, <1>3, <2>1, <2>2, LineTail, RepeatableKept
  <2> QED BY <2>1, <2>2, <2>3, Weaker
<1>6. CASE LoseReply /\ UNCHANGED hostVars
  <2>1. /\ UNCHANGED <<reissueQueue, slots, numIssued, cbVars, toTarget>>
        /\ fromTarget # <<>> /\ fromTarget' = Tail(fromTarget)
    BY <1>6 DEF LoseReply, hostVars, seqVars
  <2>2. Active' = Active /\ (isIdle' => isIdle)
    BY <2>1 DEF Active, Waiting, isIdle
  <2>3. Repeatable(r, n)'
    BY <1>3, <2>1, <2>2, RepeatableKept
  <2>4. \A i \in 1 .. Len(fromTarget') : \E j \in 1 .. Len(fromTarget) : fromTarget'[i] = fromTarget[j]
    BY <1>2, <2>1, LineTail
  <2> QED BY <2>1, <2>2, <2>3, <2>4, Weaker
<1>7. CASE RetryTimeout
  <2>1. UNCHANGED <<cbVars, toTarget, fromTarget>>
    BY <1>7 DEF RetryTimeout, Timeout
  <2>2. Active' \subseteq Active
    BY <1>1, <1>7, ActiveKept
  <2>3. ~isIdle'
    BY <1>7, RetryIsBusy
  <2>4. Repeatable(r, n)'
    BY <1>3, <2>1, <2>2, RepeatableKept
  <2> QED BY <2>1, <2>3, <2>4, Weaker
<1>8. CASE Reissue
  <2>1. PICK op : op = Head(reissueQueue)
    OBVIOUS
  <2>2. /\ op \in Ops /\ Issue(op) /\ op \in Elems(reissueQueue) /\ UNCHANGED <<cbVars, fromTarget>>
    <3>1. reissueQueue \in Seq(Ops) /\ reissueQueue # <<>>
      BY <1>1, <1>8 DEF LinkTypes, Reissue
    <3>2. op \in Ops /\ op = reissueQueue[1] /\ 1 \in 1 .. Len(reissueQueue)
      BY <2>1, <3>1, HeadTail
    <3> QED BY <1>8, <2>1, <3>2 DEF Reissue, Issue, Elems
  <2>3. Active' = Active
    BY <1>1, <1>8, ActiveKept
  <2>4. Like(op, r, n) /\ \A i \in 1 .. Len(toTarget) : Like(toTarget[i], r, n)
    BY <1>3, <2>2 DEF Repeatable
  <2>5. \A i \in 1 .. Len(toTarget') : Like(toTarget'[i], r, n)
    BY <1>1, <2>2, <2>4, SentLike
  <2>6. Repeatable(r, n)'
    BY <1>3, <2>3, <2>5 DEF Repeatable, Active
  <2>7. ~isIdle'
    <3>1. numIssued \in 0 .. 16 /\ numIssued' = numIssued + 1
      BY <2>2, LineWaits DEF Issue
    <3> QED BY <3>1 DEF isIdle
  <2> QED BY <2>2, <2>6, <2>7, Weaker
<1> QED BY <1>4, <1>5, <1>6, <1>7, <1>8 DEF Line

\* What waits or is on its way belongs to a request that is being served.
LEMMA LikeFront ==
  ASSUME LinkTypes, Chain, NEW r \in Nat, NEW n \in Nat, r = frontReq, n = frontN, n > 1
  PROVE  r \in Reqs /\ n \in 1 .. Size(r) /\ n - 1 \in 1 .. Size(r) /\ opQueue # <<>> /\ Size(r) \in Nat
<1>1. opQueue # <<>>
  BY FrontOperation
<1>2. r \in Reqs /\ n \in 1 .. Size(r)
  BY <1>1, FrontOperation
<1>3. Size(r) \in Nat
  BY <1>2, Layout
<1> QED BY <1>1, <1>2, <1>3

\* Issuing a command.
LEMMA OnceIssue ==
  ASSUME LinkInv, Placed, Chain, late = 0, [Next]_vars, IssueCommand, UNCHANGED targetVars,
         NEW r \in Nat, NEW n \in Nat, r = frontReq, n = frontN, Positioned(r, n)
  PROVE  Chain' /\ frontReq' = r /\ frontN' = n + 1 /\ Positioned(r, n + 1)'
<1>1. LinkTypes /\ opQueue # <<>>
  BY DEF LinkInv, IssueCommand
<1>2. PICK op : op = Head(opQueue)
  OBVIOUS
<1>3. PICK L : L = Size(r)
  OBVIOUS
<1>4. /\ r \in Reqs /\ n \in 1 .. L /\ op.req = r /\ op.com = Com(r, n) /\ op \in Ops
      /\ Com(r, n) \notin {"barrier", "complete"} /\ Issue(op)
      /\ opQueue' = Tail(opQueue) /\ UNCHANGED <<queued, cbVars, fromTarget>>
  <2>1. r \in Reqs /\ n \in 1 .. L /\ op.req = r /\ op.com = Com(r, n) /\ op \in Ops
    BY <1>1, <1>2, <1>3, FrontOperation
  <2>2. ~IsBarrier(op)
    BY <1>2 DEF IssueCommand
  <2> QED BY <1>2, <2>1, <2>2 DEF IssueCommand, Issue, IsBarrier
<1>5. L \in Nat /\ L >= 6 /\ n < L /\ n >= 1 /\ n # L - 1 /\ n # L - 3 /\ (BulkWrites(r) => n # 1 /\ n # 3)
  <2>1. /\ L \in Nat /\ L >= 6 /\ n # L /\ n # L - 1 /\ n # L - 3 /\ (BulkWrites(r) => n # 1 /\ n # 3)
    BY <1>3, <1>4, Stations
  <2> QED BY <1>4, <2>1
<1>6. Chain' /\ frontReq' = r /\ frontN' = n + 1
  BY <1>1, <1>3, <1>4, <1>5, ChainTail
<1>7. ASSUME NEW x, Like(x, r, n)
      PROVE  /\ Like(x, r, n + 1)
             /\ n - 1 \in 1 .. L /\ Com(r, n - 1) \notin {"barrier", "complete"}
  <2>1. n > 1 /\ x.req = r /\ x.com = Com(r, n - 1) /\ Com(r, n - 1) \notin {"barrier", "complete"}
    BY <1>7 DEF Like, IsBarrier
  <2>2. Com(r, n - 1) = Com(r, n)
    BY <1>3, <1>4, <2>1, Neighbours
  <2>3. n + 1 > 1 /\ (n + 1) - 1 = n /\ n - 1 \in 1 .. L
    BY <1>4, <1>5, <2>1
  <2> QED BY <1>7, <2>1, <2>2, <2>3 DEF Like
<1>8. Repeatable(r, n)
  BY DEF Positioned
<1>9. Like(op, r, n + 1)
  <2>1. n + 1 > 1 /\ (n + 1) - 1 = n
    BY <1>5
  <2> QED BY <1>4, <2>1 DEF Like, IsBarrier
<1>10. Repeatable(r, n + 1)'
  <2>1. Active' \subseteq Active \cup {op}
    BY <1>1, <1>2, ActiveKept
  <2>2. \A x \in Active' : Like(x, r, n + 1)
    BY <1>7, <1>8, <1>9, <2>1 DEF Repeatable, Active
  <2>3. \A j \in 1 .. Len(toTarget) : Like(toTarget[j], r, n + 1)
    BY <1>7, <1>8 DEF Repeatable
  <2>4. n + 1 \in Nat
    OBVIOUS
  <2>5. \A j \in 1 .. Len(toTarget') : Like(toTarget'[j], r, n + 1)
    BY <1>1, <1>4, <1>9, <2>3, <2>4, SentLike
  <2> QED BY <2>2, <2>5 DEF Repeatable, Active
<1>11. UNCHANGED <<page, prepared, result, performed, astray, answer, report, fromTarget>>
  BY <1>4 DEF targetVars, cbVars
<1>12. ~isIdle'
  <2>1. numIssued \in 0 .. 16 /\ numIssued' = numIssued + 1
    BY <1>4, LineWaits DEF Issue
  <2> QED BY <2>1 DEF isIdle
\* After a barrier nothing is on its way.
<1>13. (n = L - 4 \/ n = L - 2 \/ (BulkWrites(r) /\ n = 2)) => fromTarget = <<>>
  <2> SUFFICES ASSUME n = L - 4 \/ n = L - 2 \/ (BulkWrites(r) /\ n = 2), fromTarget # <<>>
               PROVE  FALSE
    OBVIOUS
  <2>1. PICK x \in Waiting : Like(x, r, n)
    <3>1. Waiting # {}
      BY LineWaits
    <3> QED BY <1>8, <3>1 DEF Repeatable
  <2>2. n - 1 \in 1 .. L /\ Com(r, n - 1) \notin {"barrier", "complete"}
    BY <1>7, <2>1
  <2>3. n - 1 = L - 5 \/ n - 1 = L - 3 \/ (BulkWrites(r) /\ n - 1 = 1)
    BY <1>5
  <2> QED BY <1>3, <1>4, <2>2, <2>3, Stations
<1>14. Stage(r, n, L)
  BY <1>3, <1>4 DEF Positioned
<1>15. Stage(r, n + 1, L)'
  <2>1. n + 1 <= L - 2 => performed'[r] = 0
    BY <1>5, <1>11, <1>14 DEF Stage
  <2>2. n + 1 = L - 3 => ~Known'
    BY <1>5, <1>11, <1>12, <1>13 DEF Known
  <2>3. n + 1 # L - 2 /\ n + 1 # L
    BY <1>5
  <2>4. n + 1 = L - 1 => Fresh(r)'
    <3>1. n + 1 = L - 1 => n = L - 2 /\ n <= L - 2
      BY <1>5
    <3> QED BY <1>11, <1>12, <1>13, <1>14, <3>1 DEF Stage, Fresh, Ready
  <2>5. BulkWrites(r) /\ n + 1 = 3 => ~Known'
    BY <1>5, <1>11, <1>12, <1>13 DEF Known
  <2>6. BulkWrites(r) /\ n + 1 >= 4 => page' = r
    <3>1. BulkWrites(r) /\ n + 1 >= 4 => n >= 4
      BY <1>5
    <3> QED BY <1>11, <1>14, <3>1 DEF Stage
  <2> QED BY ONLY <2>1, <2>2, <2>3, <2>4, <2>5, <2>6 DEF Stage
<1>16. Told(r)'
  BY <1>11 DEF Positioned, Told
<1> QED BY <1>3, <1>6, <1>10, <1>15, <1>16 DEF Positioned

\* Passing a barrier: what was issued before it is done.
LEMMA OnceBarrier ==
  ASSUME LinkInv, Placed, Chain, late = 0, PassBarrier, UNCHANGED targetVars,
         NEW r \in Nat, NEW n \in Nat, r = frontReq, n = frontN, Positioned(r, n)
  PROVE  /\ Chain' /\ frontReq' \in Nat /\ frontN' \in Nat
         /\ \A q, m \in Nat : q = frontReq' /\ m = frontN' => Positioned(q, m)'
<1>1. LinkTypes /\ opQueue # <<>>
  BY DEF LinkInv, PassBarrier
<1>2. PICK op : op = Head(opQueue)
  OBVIOUS
<1>3. PICK L : L = Size(r)
  OBVIOUS
<1>4. /\ r \in Reqs /\ n \in 1 .. L /\ op.req = r /\ op.com = Com(r, n) /\ op \in Ops
      /\ Com(r, n) \in {"barrier", "complete"} /\ isIdle
      /\ opQueue' = Tail(opQueue)
      /\ UNCHANGED <<queued, reissueQueue, slots, numIssued, answer, toTarget, fromTarget>>
      /\ report' = IF op.com = "complete" THEN [report EXCEPT ![r] = "ok"] ELSE report
  <2>1. r \in Reqs /\ n \in 1 .. L /\ op.req = r /\ op.com = Com(r, n) /\ op \in Ops
    BY <1>1, <1>2, <1>3, FrontOperation
  <2>2. IsBarrier(op)
    BY <1>2 DEF PassBarrier
  <2> QED BY <1>2, <2>1, <2>2 DEF PassBarrier, IsBarrier, seqVars, linkVars
<1>5. L \in Nat /\ L >= 6 /\ n >= 1 /\ n # L - 2 /\ n # L - 4 /\ (BulkWrites(r) => n # 2)
      /\ (Com(r, n) = "complete" <=> n = L)
  BY <1>3, <1>4, Stations
<1>6. toTarget' = <<>> /\ fromTarget' = <<>> /\ Active' = {} /\ isIdle'
  <2>1. toTarget = <<>> /\ fromTarget = <<>>
    BY <1>4, LineWaits
  <2>2. Waiting = {} /\ reissueQueue = <<>>
    BY IdleIsEmpty
  <2>3. Elems(<<>>) = {}
    BY DEF Elems
  <2> QED BY <1>4, <2>1, <2>2, <2>3 DEF Active, Waiting, isIdle
<1>7. ASSUME NEW q \in Nat, NEW m \in Nat PROVE Repeatable(q, m)'
  <2>1. Len(<<>>) = 0
    OBVIOUS
  <2> QED BY <1>6, <2>1 DEF Repeatable, Active
<1>8. UNCHANGED <<page, prepared, result, performed, astray, answer>>
  BY <1>4 DEF targetVars
<1>9. Stage(r, n, L) /\ Told(r)
  BY <1>3, <1>4 DEF Positioned
<1>10. CASE n < L
  <2>1. Chain' /\ frontReq' = r /\ frontN' = n + 1
    BY <1>1, <1>3, <1>4, <1>10, ChainTail
  <2>2. report' = report
    BY <1>4, <1>5, <1>10
  <2>3. Told(r)'
    BY <1>8, <1>9, <2>2 DEF Told
  <2>4. Stage(r, n + 1, L)'
    <3>1. n + 1 <= L - 2 => performed'[r] = 0
      BY <1>5, <1>8, <1>9 DEF Stage
    <3>2. n + 1 # L - 3 /\ n + 1 # L - 1
      BY <1>5
    <3>3. n + 1 = L - 2 => Ready(r)'
      <4>1. n + 1 = L - 2 => n = L - 3
        BY <1>5
      <4> QED BY <1>4, <1>8, <1>9, <4>1 DEF Stage, Ready, Known
    <3>4. n + 1 = L => performed'[r] = 1 /\ answer'[r] = r
      <4>1. n + 1 = L => n = L - 1
        BY <1>5
      <4> QED BY <1>4, <1>8, <1>9, <4>1 DEF Stage, Fresh, Done
    <3>5. BulkWrites(r) => n + 1 # 3
      BY <1>5
    <3>6. BulkWrites(r) /\ n + 1 >= 4 => page' = r
      <4>1. n + 1 >= 4 => n = 3 \/ n >= 4
        BY <1>5
      <4> QED BY <1>4, <1>8, <1>9, <4>1 DEF Stage, Known
    <3> QED BY ONLY <3>1, <3>2, <3>3, <3>4, <3>5, <3>6 DEF Stage
  <2>5. Repeatable(r, n + 1)'
    BY <1>7
  <2>6. Positioned(r, n + 1)'
    BY <1>3, <2>3, <2>4, <2>5 DEF Positioned
  <2> QED BY <2>1, <2>6
<1>11. CASE ~(n < L)
  <2>1. n = L
    BY <1>4, <1>5, <1>11
  <2>2. Chain' /\ frontReq' = r + 1 /\ frontN' = 1
    BY <1>1, <1>3, <1>4, <1>11, ChainTail
  <2>3. report' = [report EXCEPT ![r] = "ok"]
    BY <1>4, <1>5, <2>1
  <2>4. performed[r] = 1 /\ answer[r] = r
    BY <1>9, <2>1 DEF Stage
  <2>5. \A q \in Reqs : q > r + 1 => q > r
    BY DEF Reqs
  <2>6. \A q \in Reqs : report'[q] = "ok" => q = r \/ report[q] = "ok"
    BY <2>3
  <2>7. Told(r + 1)'
    BY <1>8, <1>9, <2>4, <2>5, <2>6 DEF Told
  <2>8. ASSUME r + 1 \in Reqs PROVE Stage(r + 1, 1, Size(r + 1))'
    <3>1. PICK K : K = Size(r + 1)
      OBVIOUS
    <3>2. K \in Nat /\ K >= 6
      BY <2>8, <3>1, Layout
    <3>3. performed'[r + 1] = 0
      <4>1. r + 1 > r
        OBVIOUS
      <4> QED BY <1>8, <1>9, <2>8, <4>1 DEF Told
    <3>4. 1 # K - 3 /\ 1 # K - 2 /\ 1 # K - 1 /\ 1 # K /\ 1 # 3 /\ ~(1 >= 4)
      BY <3>2
    <3>5. Stage(r + 1, 1, K)'
      BY ONLY <3>3, <3>4 DEF Stage
    <3> QED BY <3>1, <3>5
  <2>9. Repeatable(r + 1, 1)'
    BY <1>7
  <2>10. Positioned(r + 1, 1)'
    BY <2>7, <2>8, <2>9 DEF Positioned
  <2> QED BY <2>2, <2>10
<1> QED BY <1>10, <1>11

\* A reply: only the one to EXECUTE changes the answer.
LEMMA OnceReceive ==
  ASSUME LinkInv, Placed, Chain, TargetTypes, late = 0, [Next]_vars, ReceivePacket, UNCHANGED targetVars,
         NEW r \in Nat, NEW n \in Nat, r = frontReq, n = frontN, Positioned(r, n)
  PROVE  Positioned(r, n)' /\ answer' \in [Reqs -> Nat]
<1>1. LinkTypes /\ fromTarget # <<>> /\ fromTarget \in Seq(Replies)
  BY DEF LinkInv, LinkTypes, ReceivePacket
<1>2. PICK p : p = Head(fromTarget)
  OBVIOUS
<1>3. p \in Replies /\ p = fromTarget[1] /\ 1 \in 1 .. Len(fromTarget) /\ p.seq \in DOMAIN slots
      /\ fromTarget' = Tail(fromTarget)
  <2>1. p \in Replies /\ p = fromTarget[1] /\ 1 \in 1 .. Len(fromTarget)
    BY <1>1, <1>2, HeadTail
  <2> QED BY <1>1, <1>2, <2>1, LineWaits DEF ReceivePacket
<1>4. PICK op : op = slots[p.seq] /\ op \in Waiting
  BY <1>3 DEF Waiting
<1>5. Repeatable(r, n) /\ Like(op, r, n)
  BY <1>4 DEF Positioned, Repeatable
<1>6. n > 1 /\ op.req = r /\ op.com = Com(r, n - 1)
  BY <1>5 DEF Like
<1>7. PICK L : L = Size(r)
  OBVIOUS
<1>8. r \in Reqs /\ n \in 1 .. L /\ n - 1 \in 1 .. L /\ L \in Nat
  BY <1>1, <1>6, <1>7, LikeFront
<1>9. op.com = "execute" <=> n = L - 1
  <2>1. Com(r, n - 1) = "execute" <=> n - 1 = L - 2
    BY <1>7, <1>8, Stations
  <2>2. n - 1 = L - 2 <=> n = L - 1
    BY <1>8
  <2> QED BY <1>6, <2>1, <2>2
<1>10. Stage(r, n, L) /\ Told(r)
  BY <1>7, <1>8 DEF Positioned
<1>11. answer' = IF n = L - 1 THEN [answer EXCEPT ![r] = p.result] ELSE answer
  <2>1. answer' = IF p.seq \in DOMAIN slots /\ slots[p.seq].com = "execute"
                  THEN [answer EXCEPT ![slots[p.seq].req] = p.result] ELSE answer
    BY <1>2 DEF ReceivePacket
  <2> QED BY <1>3, <1>4, <1>6, <1>9, <2>1
<1>12. UNCHANGED <<page, prepared, result, performed, astray, report, toTarget>>
  BY DEF ReceivePacket, targetVars
<1>13. n = L - 1 => Done(r) /\ p.result = r
  BY <1>1, <1>3, <1>10 DEF Stage, Fresh, Done
<1>14. answer' \in [Reqs -> Nat] /\ \A q \in Reqs : q # r => answer'[q] = answer[q]
  <2>1. p.result \in Nat
    BY <1>3 DEF Replies
  <2> QED BY <1>8, <1>11, <2>1 DEF TargetTypes
<1>15. n = L - 1 => answer'[r] = r
  BY <1>8, <1>11, <1>13 DEF TargetTypes
<1>16. n # L - 1 => answer' = answer
  BY <1>11
<1>17. Told(r)'
  <2>1. \A q \in Reqs : report[q] = "ok" => answer'[q] = q
    BY <1>10, <1>14, <1>15, <1>16 DEF Told
  <2> QED BY <1>10, <1>12, <2>1 DEF Told
<1>18. Stage(r, n, L)'
  <2>1. Known
    BY <1>1 DEF Known
  <2>2. Done(r) /\ n = L - 1 => Done(r)'
    <3>1. \A k \in 1 .. Len(fromTarget') : \E j \in 1 .. Len(fromTarget) : fromTarget'[k] = fromTarget[j]
      BY <1>1, <1>3, LineTail
    <3>2. Done(r) => \A k \in 1 .. Len(fromTarget') : fromTarget'[k].result = r
      BY <3>1 DEF Done
    <3> QED BY <1>12, <1>15, <3>2 DEF Done
  <2>3. Ready(r) => Ready(r)'
    BY <1>12 DEF Ready
  <2>4. n = L => n # L - 1
    BY <1>8
  <2> QED BY <1>10, <1>12, <1>13, <1>16, <2>1, <2>2, <2>3, <2>4 DEF Stage
<1>19. Repeatable(r, n)'
  <2>1. Active' \subseteq Active
    BY <1>1, ActiveKept
  <2> QED BY <1>5, <1>12, <2>1, RepeatableKept
<1> QED BY <1>7, <1>14, <1>17, <1>18, <1>19 DEF Positioned

\* Giving up: the next request starts anew, with nothing on its way.
LEMMA OnceGiveUp ==
  ASSUME LinkInv, Placed, Chain, late = 0, late' = 0, GiveUp, UNCHANGED targetVars,
         NEW r \in Nat, NEW n \in Nat, r = frontReq, n = frontN, Positioned(r, n)
  PROVE  /\ Chain' /\ frontReq' = queued + 1 /\ frontN' = 1 /\ queued + 1 \in Nat
         /\ Positioned(queued + 1, 1)'
<1>1. LinkTypes /\ queued \in Nat
  BY DEF LinkInv, LinkTypes
<1>2. /\ opQueue' = <<>> /\ reissueQueue' = <<>> /\ slots' = <<>> /\ queued' = queued
      /\ Waiting' = {} /\ Elems(<<>>) = {}
  BY GiveUpForgets
<1>3. toTarget = <<>> /\ UNCHANGED <<toTarget, fromTarget, answer>>
  BY DEF GiveUp, Timeout
<1>4. frontReq' = queued + 1 /\ frontN' = 1
  BY <1>2 DEF frontReq, frontN
<1>5. Chain'
  <2>1. Chained(<<>>, queued)
    <3>1. Len(<<>>) = 0
      OBVIOUS
    <3> QED BY <3>1 DEF Chained
  <2> QED BY <1>2, <2>1 DEF Chain
<1>6. Repeatable(queued + 1, 1)'
  <2>1. Len(<<>>) = 0
    OBVIOUS
  <2> QED BY <1>2, <1>3, <2>1 DEF Repeatable
<1>7. r <= queued \/ (r = queued + 1 /\ n = 1)
  <2>1. CASE opQueue = <<>>
    BY <1>1, <2>1, FrontOperation
  <2>2. CASE opQueue # <<>>
    <3>1. Head(opQueue).req = r
      BY <1>1, <2>2, FrontOperation
    <3>2. Head(opQueue) \in Held
      <4>1. Head(opQueue) = opQueue[1] /\ 1 \in 1 .. Len(opQueue)
        BY <1>1, <2>2, HeadTail DEF LinkTypes
      <4> QED BY <4>1 DEF Held, Elems
    <3>3. r \in 1 .. queued
      BY <3>1, <3>2 DEF Placed
    <3> QED BY <1>1, <3>3
  <2> QED BY <2>1, <2>2
<1>8. Told(r) /\ UNCHANGED <<performed, astray, answer>>
  BY <1>3 DEF Positioned, targetVars
<1>9. \A q \in Reqs : report'[q] = "ok" => report[q] = "ok"
  BY DEF GiveUp
<1>10. \A q \in Reqs : q > queued + 1 => q > r
  BY <1>1, <1>7 DEF Reqs
<1>11. Told(queued + 1)'
  BY <1>2, <1>8, <1>9, <1>10 DEF Told
<1>12. ASSUME queued + 1 \in Reqs PROVE Stage(queued + 1, 1, Size(queued + 1))'
  <2>1. PICK q, K : q = queued + 1 /\ K = Size(q)
    OBVIOUS
  <2>2. K \in Nat /\ K >= 6
    BY <1>12, <2>1, Layout
  <2>3. performed[q] = 0
    <3>1. CASE r <= queued
      <4>1. q > r /\ q \in Reqs
        BY <1>1, <1>12, <2>1, <3>1
      <4> QED BY <1>8, <4>1 DEF Told
    <3>2. CASE r = queued + 1 /\ n = 1
      <4>1. r = q /\ r \in Reqs
        BY <1>12, <2>1, <3>2
      <4>2. Stage(r, n, K)
        BY <2>1, <4>1 DEF Positioned
      <4>3. n <= K - 2
        BY <2>2, <3>2
      <4> QED BY <4>1, <4>2, <4>3 DEF Stage
    <3> QED BY <1>7, <3>1, <3>2
  <2>4. 1 # K - 3 /\ 1 # K - 2 /\ 1 # K - 1 /\ 1 # K /\ 1 # 3 /\ ~(1 >= 4)
    BY <2>2
  <2>5. performed'[q] = 0
    BY <1>8, <2>3
  <2>6. Stage(q, 1, K)'
    BY ONLY <2>4, <2>5 DEF Stage
  <2>7. q = queued' + 1
    BY <1>2, <2>1
  <2> QED BY <1>2, <2>1, <2>6, <2>7
<1>13. Positioned(queued + 1, 1)'
  BY <1>2, <1>6, <1>11, <1>12 DEF Positioned
<1> QED BY <1>1, <1>4, <1>5, <1>13

-----------------------------------------------------------------------------
(* The processor's end *)

\* What a packet can be when it is handled, and what is then known of the
\* target.
LEMMA Handled ==
  ASSUME LinkInv, Placed, Chain, late = 0, toTarget # <<>>,
         NEW r \in Nat, NEW n \in Nat, r = frontReq, n = frontN, Positioned(r, n),
         NEW L, L = Size(r)
  PROVE  /\ r \in Reqs /\ Client = r /\ L \in Nat /\ n \in 1 .. L /\ n > 1 /\ ~isIdle
         /\ n # L /\ n # L - 2
         /\ Head(toTarget).com = "execute" <=> n = L - 1
         /\ Head(toTarget).com = "prepare" <=> n = L - 3
         /\ Head(toTarget).com = "page" => n = 3
         /\ BulkWrites(r) /\ n = 3 => Head(toTarget).com = "page"
         /\ Head(toTarget).com = "write" => BulkWrites(r) /\ n >= 5
<1>1. LinkTypes /\ toTarget \in Seq(Commands)
  BY DEF LinkInv, LinkTypes
<1>2. PICK p : p = Head(toTarget) /\ p = toTarget[1] /\ 1 \in 1 .. Len(toTarget)
  BY <1>1, HeadTail
<1>3. n > 1 /\ p.req = r /\ p.com = Com(r, n - 1) /\ p.com \notin {"barrier", "complete"}
  BY <1>2 DEF Positioned, Repeatable, Like, IsBarrier
<1>4. r \in Reqs /\ n \in 1 .. L /\ n - 1 \in 1 .. L /\ L \in Nat
  BY <1>1, <1>3, LikeFront
<1>5. ~isIdle
  BY LineWaits
<1>6. /\ Com(r, n - 1) = "execute" <=> n - 1 = L - 2
      /\ Com(r, n - 1) = "prepare" <=> n - 1 = L - 4
      /\ n - 1 = L - 1 \/ n - 1 = L - 3 \/ n - 1 = L - 5 => Com(r, n - 1) = "barrier"
      /\ Com(r, n - 1) = "page" => n - 1 = 2 /\ BulkWrites(r)
      /\ BulkWrites(r) /\ n - 1 = 2 => Com(r, n - 1) = "page"
      /\ Com(r, n - 1) = "write" => n - 1 >= 4 /\ BulkWrites(r)
  BY <1>4, Stations
<1>7. /\ n - 1 = L - 2 <=> n = L - 1
      /\ n - 1 = L - 4 <=> n = L - 3
      /\ n = L <=> n - 1 = L - 1
      /\ n = L - 2 <=> n - 1 = L - 3
      /\ n - 1 = 2 <=> n = 3
      /\ n - 1 >= 4 <=> n >= 5
  BY <1>4
<1> QED BY <1>2, <1>3, <1>4, <1>5, <1>6, <1>7 DEF Client

\* A packet is handled as its command says, and answered.
LEMMA OnceHandle ==
  ASSUME LinkInv, Placed, Chain, TargetTypes, late = 0, HandlePacket, UNCHANGED hostVars,
         NEW r \in Nat, NEW n \in Nat, r = frontReq, n = frontN, Positioned(r, n)
  PROVE  Positioned(r, n)' /\ TargetTypes'
<1>1. /\ toTarget # <<>> /\ toTarget' = Tail(toTarget)
      /\ UNCHANGED <<reissueQueue, slots, numIssued, answer, report>>
  BY DEF HandlePacket, HandleSetPage, HandleBulkWrite, HandleBulkRead, HandlePrepare, HandleExecute,
         HandleExecuteAgain, Incoming, Answer, hostVars, seqVars, cbVars
<1>2. PICK L : L = Size(r)
  OBVIOUS
<1>3. /\ r \in Reqs /\ Client = r /\ L \in Nat /\ n \in 1 .. L /\ n > 1 /\ ~isIdle
      /\ n # L /\ n # L - 2
      /\ Head(toTarget).com = "execute" <=> n = L - 1
      /\ Head(toTarget).com = "prepare" <=> n = L - 3
      /\ Head(toTarget).com = "page" => n = 3
      /\ BulkWrites(r) /\ n = 3 => Head(toTarget).com = "page"
      /\ Head(toTarget).com = "write" => BulkWrites(r) /\ n >= 5
  BY <1>1, <1>2, Handled
<1>4. Stage(r, n, L) /\ Told(r) /\ Repeatable(r, n)
  BY <1>2, <1>3 DEF Positioned
<1>5. Repeatable(r, n)'
  <2>1. Active' = Active
    BY <1>1 DEF Active, Waiting
  <2>2. toTarget \in Seq(Commands)
    BY DEF LinkInv, LinkTypes
  <2> QED BY <1>1, <1>4, <2>1, <2>2, LineTail, RepeatableKept
<1>6. ~isIdle' /\ isIdle' = isIdle
  BY <1>1, <1>3 DEF isIdle
<1>7. \A q \in Reqs : performed[q] \in Nat
  BY DEF TargetTypes
\* Commands that do not touch the operation that was performed.
<1>8. ASSUME UNCHANGED <<performed, astray>>, page' \in Nat, n # L - 1,
             n = L - 3 => Ready(r)', page' = page \/ page' = r,
             BulkWrites(r) /\ n = 3 => page' = r
      PROVE  Positioned(r, n)' /\ TargetTypes'
  <2>1. Told(r)'
    BY <1>1, <1>4, <1>8 DEF Told
  <2>2. TargetTypes'
    BY <1>1, <1>8 DEF TargetTypes
  <2>3. BulkWrites(r) /\ n >= 4 => page' = r
    BY <1>4, <1>8 DEF Stage
  <2>4. n <= L - 2 => performed'[r] = 0
    BY <1>4, <1>8 DEF Stage
  <2>5. Stage(r, n, L)'
    BY ONLY <1>3, <1>8, <2>3, <2>4 DEF Stage
  <2> QED BY <1>2, <1>5, <2>1, <2>2, <2>5 DEF Positioned
\* EXECUTE, performed or answered again.
<1>9. ASSUME n = L - 1, Done(r)', page' \in Nat, performed' \in [Reqs -> Nat], astray' = {},
             \A q \in Reqs : q # r => performed'[q] = performed[q], BulkWrites(r) => page' = r
      PROVE  Positioned(r, n)' /\ TargetTypes'
  <2>1. performed'[r] = 1
    BY <1>9 DEF Done
  <2>2. \A q \in Reqs : report'[q] = "ok" => performed'[q] = 1 /\ answer'[q] = q
    BY <1>1, <1>4, <1>9, <2>1 DEF Told
  <2>3. \A q \in Reqs : performed'[q] <= 1 /\ (q > r => performed'[q] = 0)
    <3> TAKE q \in Reqs
    <3>1. CASE q = r
      BY <2>1, <3>1
    <3>2. CASE q # r
      BY <1>4, <1>9, <3>2 DEF Told
    <3> QED BY <3>1, <3>2
  <2>4. Told(r)'
    BY <1>9, <2>2, <2>3 DEF Told
  <2>5. TargetTypes'
    BY <1>1, <1>9 DEF TargetTypes
  <2>6. ~(n <= L - 2) /\ n # L - 3 /\ n # L - 2 /\ n # L
    BY <1>3, <1>9
  <2>7. Stage(r, n, L)'
    BY ONLY <1>9, <2>6 DEF Stage
  <2> QED BY <1>2, <1>5, <2>4, <2>5, <2>7 DEF Positioned
<1>10. r \in Nat /\ page \in Nat /\ astray = {} /\ prepared \in Nat
  BY <1>4 DEF TargetTypes, Told, LinkInv, LinkTypes
<1>11. CASE HandleSetPage
  <2>1. page' = r /\ UNCHANGED <<performed, astray>> /\ Head(toTarget).com = "page"
    BY <1>3, <1>11 DEF HandleSetPage, Incoming
  <2>2. n # L - 1 /\ n # L - 3
    BY <1>3, <2>1
  <2> QED BY <1>8, <1>10, <2>1, <2>2
<1>12. CASE HandleBulkWrite
  <2>1. page' = page /\ UNCHANGED performed /\ Head(toTarget).com = "write"
    BY <1>12 DEF HandleBulkWrite, Incoming
  <2>2. n # L - 1 /\ n # L - 3 /\ BulkWrites(r) /\ n >= 5
    BY <1>3, <2>1
  <2>3. n >= 4 /\ n # 3
    BY <1>3, <2>2
  <2>4. page = r
    BY <1>4, <2>2, <2>3 DEF Stage
  <2>5. astray' = astray
    BY <1>3, <1>12, <2>4 DEF HandleBulkWrite
  <2> QED BY <1>8, <1>10, <2>1, <2>2, <2>3, <2>5
<1>13. CASE HandleBulkRead
  <2>1. page' = r /\ UNCHANGED <<performed, astray>> /\ Head(toTarget).com = "read"
    BY <1>3, <1>13 DEF HandleBulkRead, Incoming
  <2>2. n # L - 1 /\ n # L - 3
    BY <1>3, <2>1
  <2> QED BY <1>8, <1>10, <2>1, <2>2
<1>14. CASE HandlePrepare
  <2>1. page' = r /\ prepared' = r /\ UNCHANGED <<performed, astray>> /\ Head(toTarget).com = "prepare"
    BY <1>3, <1>14 DEF HandlePrepare, Incoming
  <2>2. n # L - 1
    BY <1>3, <2>1
  <2> QED BY <1>8, <1>10, <2>1, <2>2 DEF Ready
<1>15. PICK old \in Seq(Replies) : old = fromTarget
  BY DEF LinkInv, LinkTypes
<1>16. (BulkWrites(r) /\ n = L - 1) => page = r
  <2>1. BulkWrites(r) => L >= 10
    BY <1>2 DEF BulkWrites
  <2>2. BulkWrites(r) /\ n = L - 1 => n >= 4
    BY <1>3, <2>1
  <2> QED BY <1>4, <2>2 DEF Stage
<1>17. ASSUME NEW data \in Nat, Answer(data), data = r, \A i \in 1 .. Len(old) : old[i].result = r
       PROVE  \A i \in 1 .. Len(fromTarget') : fromTarget'[i].result = r
  <2>1. PICK p : p = [seq |-> Head(toTarget).seq, result |-> data]
    OBVIOUS
  <2>2. p \in Replies
    <3>1. Head(toTarget) \in Commands
      BY <1>1, HeadTail DEF LinkInv, LinkTypes
    <3> QED BY <2>1, <3>1 DEF Commands, Replies
  <2>3. fromTarget' = Append(old, p)
    BY <1>15, <1>17, <2>1 DEF Answer
  <2>4. PICK m \in Nat : m = Len(old)
    BY LenProperties
  <2>5. Len(fromTarget') = m + 1 /\ fromTarget'[m + 1] = p /\ \A i \in 1 .. m : fromTarget'[i] = old[i]
    BY <2>2, <2>3, <2>4, AppendProperties
  <2>6. \A i \in 1 .. (m + 1) : i \in 1 .. m \/ i = m + 1
    OBVIOUS
  <2>7. p.result = r
    BY <1>17, <2>1
  <2> QED BY ONLY <1>17, <2>4, <2>5, <2>6, <2>7
<1>18. CASE HandleExecute
  <2>1. n = L - 1 /\ prepared # 0
    BY <1>3, <1>18 DEF HandleExecute, Incoming
  <2>2. Fresh(r)
    BY <1>4, <2>1 DEF Stage, Done
  <2>3. prepared = r /\ page = r /\ performed[r] = 0 /\ old = <<>>
    BY <1>15, <2>2 DEF Fresh, Ready
  <2>4. /\ performed' = [performed EXCEPT ![r] = @ + 1] /\ astray' = astray /\ prepared' = 0
        /\ result' = r /\ page' = page /\ Answer(r)
    BY <1>18, <2>3 DEF HandleExecute
  <2>5. /\ performed' \in [Reqs -> Nat] /\ performed'[r] = 1
        /\ \A q \in Reqs : q # r => performed'[q] = performed[q]
    BY <1>3, <2>3, <2>4 DEF TargetTypes
  <2>6. \A i \in 1 .. Len(fromTarget') : fromTarget'[i].result = r
    <3>1. Len(<<>>) = 0
      OBVIOUS
    <3> QED BY <1>10, <1>17, <2>3, <2>4, <3>1
  <2>7. Done(r)'
    BY <1>6, <2>4, <2>5, <2>6 DEF Done
  <2> QED BY <1>9, <1>10, <2>1, <2>3, <2>4, <2>5, <2>7
<1>19. CASE HandleExecuteAgain
  <2>1. n = L - 1 /\ prepared = 0
    BY <1>3, <1>19 DEF HandleExecuteAgain, Incoming
  <2>2. r # 0
    BY <1>3 DEF Reqs
  <2>3. Done(r)
    BY <1>4, <2>1, <2>2 DEF Stage, Fresh, Ready
  <2>4. result = r /\ UNCHANGED <<page, prepared, result, performed, astray>> /\ Answer(r)
    BY <1>19, <2>3 DEF HandleExecuteAgain, Done, targetVars
  <2>5. \A i \in 1 .. Len(fromTarget') : fromTarget'[i].result = r
    BY <1>10, <1>15, <1>17, <2>3, <2>4 DEF Done
  <2>6. Done(r)'
    BY <1>6, <2>3, <2>4, <2>5 DEF Done
  <2>7. performed' \in [Reqs -> Nat]
    BY <2>4 DEF TargetTypes
  <2> QED BY <1>9, <1>10, <1>16, <2>1, <2>4, <2>6, <2>7
<1> QED BY <1>11, <1>12, <1>13, <1>14, <1>18, <1>19 DEF HandlePacket

-----------------------------------------------------------------------------
(* Exactly once *)

LEMMA OnceInit == Init => OnceInv
<1> SUFFICES ASSUME Init PROVE OnceInv
  OBVIOUS
<1>1. /\ opQueue = <<>> /\ reissueQueue = <<>> /\ slots = <<>> /\ queued = 0 /\ toTarget = <<>>
      /\ answer = [r \in Reqs |-> 0] /\ report = [r \in Reqs |-> "none"]
      /\ page = 0 /\ performed = [r \in Reqs |-> 0] /\ astray = {}
  BY CompositionAssumption DEF Init, HostInit, LinkInit, TargetInit
<1>2. Len(<<>>) = 0 /\ DOMAIN <<>> = {} /\ Elems(<<>>) = {}
  BY DEF Elems
<1>3. Chain /\ frontReq = 1 /\ frontN = 1
  BY <1>1, <1>2 DEF Chain, Chained, frontReq, frontN
<1>4. TargetTypes
  BY <1>1 DEF TargetTypes
<1>5. Repeatable(1, 1) /\ Told(1)
  BY <1>1, <1>2 DEF Repeatable, Waiting, Told
<1>6. ASSUME 1 \in Reqs PROVE Stage(1, 1, Size(1))
  <2>1. PICK K : K = Size(1)
    OBVIOUS
  <2>2. K \in Nat /\ K >= 6
    BY <1>6, <2>1, Layout
  <2>3. 1 # K - 3 /\ 1 # K - 2 /\ 1 # K - 1 /\ 1 # K /\ 1 # 3 /\ ~(1 >= 4)
    BY <2>2
  <2>4. performed[1] = 0
    BY <1>1, <1>6
  <2> QED BY ONLY <2>1, <2>3, <2>4 DEF Stage
<1> QED BY <1>3, <1>4, <1>5, <1>6 DEF OnceInv, Positioned

LEMMA ChainKept == LinkTypes /\ Placed /\ Chain /\ [Next]_vars => Chain'
<1> SUFFICES ASSUME LinkTypes, Placed, Chain, [Next]_vars PROVE Chain'
  OBVIOUS
<1>1. CASE UNCHANGED <<opQueue, queued>>
  BY <1>1 DEF Chain
<1>2. CASE IssueCommand \/ PassBarrier
  <2>1. opQueue # <<>> /\ opQueue' = Tail(opQueue) /\ queued' = queued
    BY <1>2 DEF IssueCommand, PassBarrier
  <2> QED BY <2>1, ChainTail
<1>3. CASE GiveUp
  <2>1. opQueue' = <<>> /\ Len(<<>>) = 0
    BY <1>3 DEF GiveUp
  <2>2. Chained(<<>>, queued')
    BY <2>1 DEF Chained
  <2> QED BY <2>1, <2>2 DEF Chain
<1>4. CASE QueueRequest
  BY <1>4, ChainQueue
<1> QED BY <1>1, <1>2, <1>3, <1>4
        DEF Next, Host, HostStep, Line, Target, hostVars, vars, ReceivePacket, Expire, RestartTimer,
            KeepWaiting, RetryTimeout, Reissue, EndUpdate

LEMMA TargetTypesKept == LinkTypes /\ TargetTypes /\ [Next]_vars => TargetTypes'
<1> SUFFICES ASSUME LinkTypes, TargetTypes, [Next]_vars PROVE TargetTypes'
  OBVIOUS
<1>1. CASE UNCHANGED <<page, performed, answer>>
  BY <1>1 DEF TargetTypes
<1>2. CASE ReceivePacket /\ UNCHANGED targetVars
  <2>1. Head(fromTarget).result \in Nat
    <3>1. Head(fromTarget) \in Replies
      BY <1>2, HeadTail DEF LinkTypes, ReceivePacket
    <3> QED BY <3>1 DEF Replies
  <2>2. \/ answer' = answer
        \/ \E q : answer' = [answer EXCEPT ![q] = Head(fromTarget).result]
    BY <1>2 DEF ReceivePacket
  <2> QED BY <1>2, <2>1, <2>2 DEF TargetTypes, targetVars
<1>3. CASE HandlePacket /\ UNCHANGED hostVars
  <2>1. Client \in Nat
    <3>1. toTarget # <<>>
      BY <1>3 DEF HandlePacket, HandleSetPage, HandleBulkWrite, HandleBulkRead, HandlePrepare,
                  HandleExecute, HandleExecuteAgain, Incoming
    <3>2. Head(toTarget) \in Commands
      BY <3>1, HeadTail DEF LinkTypes
    <3> QED BY <3>2 DEF Commands, Client
  <2>2. page' = page \/ page' = Client
    BY <1>3 DEF HandlePacket, HandleSetPage, HandleBulkWrite, HandleBulkRead, HandlePrepare,
                HandleExecute, HandleExecuteAgain, targetVars
  <2>3. performed' = performed \/ performed' = [performed EXCEPT ![prepared] = @ + 1]
    BY <1>3 DEF HandlePacket, HandleSetPage, HandleBulkWrite, HandleBulkRead, HandlePrepare,
                HandleExecute, HandleExecuteAgain, targetVars
  <2>4. performed' \in [Reqs -> Nat]
    BY <2>3 DEF TargetTypes
  <2> QED BY <1>3, <2>1, <2>2, <2>4 DEF TargetTypes, hostVars, cbVars
<1> QED BY <1>1, <1>2, <1>3
        DEF Next, Host, HostStep, Line, Target, hostVars, targetVars, cbVars, vars, Expire,
            RestartTimer, KeepWaiting, RetryTimeout, Reissue, EndUpdate, QueueRequest, GiveUp,
            IssueCommand, PassBarrier

LEMMA OnceKept == LinkInv /\ LinkInv' /\ Placed /\ OnceInv /\ [Next]_vars => OnceInv'
<1> SUFFICES ASSUME LinkInv, LinkInv', Placed, OnceInv, [Next]_vars PROVE OnceInv'
  OBVIOUS
<1>1. LinkTypes /\ Chain /\ TargetTypes
  BY DEF LinkInv, OnceInv
<1>2. Chain' /\ TargetTypes'
  BY <1>1, ChainKept, TargetTypesKept
<1> SUFFICES ASSUME late' = 0
             PROVE  \A r, n \in Nat : r = frontReq' /\ n = frontN' => Positioned(r, n)'
  BY <1>2 DEF OnceInv
<1>3. late = 0
  <2>1. late' >= late /\ late \in Nat
    BY <1>1, LateGrows DEF LinkTypes
  <2> QED BY <2>1
<1>4. PICK r \in Nat : r = frontReq
  BY <1>1, FrontOperation
<1>5. PICK n \in Nat : n = frontN
  BY <1>1, FrontOperation
<1>6. Positioned(r, n)
  BY <1>3, <1>4, <1>5 DEF OnceInv
<1>7. CASE frontReq' = r /\ frontN' = n /\ Positioned(r, n)'
  BY <1>7
<1>8. UNCHANGED <<opQueue, queued>> => frontReq' = r /\ frontN' = n
  BY <1>4, <1>5 DEF frontReq, frontN
<1>9. CASE /\ UNCHANGED targetVars
           /\ \/ RestartTimer \/ KeepWaiting \/ EndUpdate \/ Expire \/ Line
              \/ RetryTimeout \/ Reissue \/ UNCHANGED vars
  <2>1. UNCHANGED <<opQueue, queued>>
    BY <1>9 DEF RestartTimer, KeepWaiting, EndUpdate, Expire, Line, RetryTimeout, Reissue, vars, hostVars
  <2>2. Positioned(r, n)'
    BY <1>3, <1>6, <1>9, UnmovedSteps
  <2> QED BY <1>7, <1>8, <2>1, <2>2
<1>10. CASE QueueRequest /\ UNCHANGED targetVars
  <2>1. frontReq' = r /\ frontN' = n
    BY <1>1, <1>4, <1>5, <1>10, ChainQueue
  <2>2. Positioned(r, n)'
    BY <1>3, <1>6, <1>10, UnmovedSteps
  <2> QED BY <1>7, <2>1, <2>2
<1>11. CASE ReceivePacket /\ UNCHANGED targetVars
  <2>1. UNCHANGED <<opQueue, queued>>
    BY <1>11 DEF ReceivePacket
  <2>2. Positioned(r, n)'
    BY <1>1, <1>3, <1>4, <1>5, <1>6, <1>11, OnceReceive
  <2> QED BY <1>7, <1>8, <2>1, <2>2
<1>12. CASE Target
  <2>1. UNCHANGED <<opQueue, queued>>
    BY <1>12 DEF Target, hostVars
  <2>2. Positioned(r, n)'
    BY <1>1, <1>3, <1>4, <1>5, <1>6, <1>12, OnceHandle DEF Target
  <2> QED BY <1>7, <1>8, <2>1, <2>2
<1>13. CASE IssueCommand /\ UNCHANGED targetVars
  <2>1. frontReq' = r /\ frontN' = n + 1 /\ Positioned(r, n + 1)'
    BY <1>1, <1>3, <1>4, <1>5, <1>6, <1>13, OnceIssue
  <2> QED BY <2>1
<1>14. CASE PassBarrier /\ UNCHANGED targetVars
  BY <1>1, <1>3, <1>4, <1>5, <1>6, <1>14, OnceBarrier
<1>15. CASE GiveUp /\ UNCHANGED targetVars
  <2>1. /\ frontReq' = queued + 1 /\ frontN' = 1 /\ queued' = queued /\ Positioned(queued + 1, 1)'
    BY <1>1, <1>3, <1>4, <1>5, <1>6, <1>15, OnceGiveUp, GiveUpForgets
  <2> QED BY <2>1
<1> QED BY <1>9, <1>10, <1>11, <1>12, <1>13, <1>14, <1>15
        DEF Next, Host, HostStep, Line, vars

\* The inductive invariant that follows every request through its commands
\* and the registers of the packet handler.
THEOREM OnceInvariant == Spec => [](LinkInv /\ Placed /\ OnceInv)
<1>1. Init => LinkInv /\ Placed /\ OnceInv
  BY InitGivesLinkInv, PlacedInit, OnceInit
<1>2. LinkInv /\ Placed /\ OnceInv /\ [Next]_vars => (LinkInv /\ Placed /\ OnceInv)'
  <2> SUFFICES ASSUME LinkInv, Placed, OnceInv, [Next]_vars
               PROVE  LinkInv' /\ Placed' /\ OnceInv'
    OBVIOUS
  <2>1. LinkInv'
    BY LinkInvKept
  <2>2. Placed'
    BY PlacedKept DEF LinkInv
  <2> QED BY <2>1, <2>2, OnceKept
<1> QED BY <1>1, <1>2, PTL DEF Spec

LEMMA InvGivesOnce == LinkInv /\ Placed /\ OnceInv => (late = 0 => ExactlyOnce /\ OnOwnPage)
<1> SUFFICES ASSUME LinkInv, OnceInv, late = 0 PROVE ExactlyOnce /\ OnOwnPage
  OBVIOUS
<1>1. PICK r \in Nat : r = frontReq
  BY FrontOperation DEF LinkInv, OnceInv
<1>2. PICK n \in Nat : n = frontN
  BY FrontOperation DEF LinkInv, OnceInv
<1>3. Told(r)
  BY <1>1, <1>2 DEF OnceInv, Positioned
<1> QED BY <1>3 DEF Told, ExactlyOnce, OnOwnPage

\* As long as no timeout comes early, and however many packets are lost, a
\* volatile access is performed at most once, and exactly once when the client
\* is told "ok", who then has the result of its own access.
THEOREM AccessesHappenOnce == Spec => [](late = 0 => ExactlyOnce)
BY OnceInvariant, InvGivesOnce, PTL

\* And no access goes to a page that another command has set.
THEOREM PagesAreOwn == Spec => [](late = 0 => OnOwnPage)
BY OnceInvariant, InvGivesOnce, PTL
=============================================================================
