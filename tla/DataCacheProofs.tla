-------------------------- MODULE DataCacheProofs ---------------------------
(***************************************************************************)
(* Proofs about the data cache for any number of blocks, any couplings and *)
(* any programs.                                                           *)
(***************************************************************************)
EXTENDS DataCache, SequenceFacts

\* The command registers of a block hold an access of the context, or nothing.
Commands(c) == Made(c) \cup {None}

\* "Writing without bypass mode cannot generate bus faults" (cache_data.vhd:304).
WritesMapped ==
  \A c \in Contexts : \A x \in Made(c) :
    Writes(x) /\ x.addr \notin Uncached => x.addr \notin Unmapped

-----------------------------------------------------------------------------
(* Constants.                                                               *)

LEMMA MadeIsAccess ==
  ASSUME NEW c \in Contexts, NEW x \in Made(c)
  PROVE  x \in Access /\ x # None /\ x.addr \in Addrs
<1>1. PICK p \in Programs : x \in {p[c][k] : k \in DOMAIN p[c]}
  BY DEF Made
<1>2. PICK k \in DOMAIN p[c] : x = p[c][k]
  BY <1>1
<1>3. p[c] \in Seq(Access)
  BY CacheAssumption
<1>4. x \in Access
  BY <1>2, <1>3, ElementOfSeq
<1>5. x.addr \in {y.addr : y \in Made(c)}
  OBVIOUS
<1>6. x.addr \in Addrs
  BY <1>5 DEF Addrs
<1>7. x # None
  BY <1>4 DEF Access, None
<1> QED BY <1>4, <1>6, <1>7

LEMMA ProgramsAreMade ==
  ASSUME NEW p \in Programs, NEW c \in Contexts
  PROVE  p[c] \in Seq(Made(c))
<1>1. p[c] \in Seq(Access)
  BY CacheAssumption
<1>2. \A k \in 1 .. Len(p[c]) : p[c][k] \in Made(c)
  BY <1>1, LenProperties DEF Made
<1> QED BY <1>1, <1>2, LenProperties

\* A set of blocks that is not empty has a highest and a lowest one.
LEMMA Extremes ==
  ASSUME NEW S \in SUBSET Blocks, S # {}
  PROVE  /\ Max(S) \in S /\ \A x \in S : x <= Max(S)
         /\ Min(S) \in S
<1>1. NumBlocks \in Nat /\ \A x \in S : x \in Nat /\ x < NumBlocks
  BY CacheAssumption DEF Blocks
<1>2. \E m \in S : \A y \in S : m >= y
  <2> DEFINE T == {NumBlocks - x : x \in S}
  <2>1. T \in SUBSET Nat /\ T # {}
    BY <1>1
  <2>2. PICK t \in T : \A k \in Nat : k < t => k \notin T
    BY <2>1, LeastNumber, Zenon
  <2>3. PICK m \in S : t = NumBlocks - m
    BY <2>2
  <2>4. ASSUME NEW y \in S PROVE m >= y
    <3>1. NumBlocks - y \in T
      OBVIOUS
    <3> HIDE DEF T
    <3>2. NumBlocks - y \in Nat /\ ~(NumBlocks - y < t)
      BY <2>1, <2>2, <3>1
    <3>3. m \in Nat /\ y \in Nat
      BY <1>1
    <3> QED BY <2>3, <3>2, <3>3, <1>1
  <2> QED BY <2>4
<1>3. \E m \in S : \A y \in S : m <= y
  <2>1. S \in SUBSET Nat
    BY <1>1
  <2>2. PICK m \in S : \A k \in Nat : k < m => k \notin S
    BY <2>1, LeastNumber, Zenon
  <2>3. ASSUME NEW y \in S PROVE m <= y
    <3>1. m \in Nat /\ y \in Nat /\ ~(y < m)
      BY <2>1, <2>2
    <3> QED BY <3>1
  <2> QED BY <2>3
<1>4. Max(S) \in S /\ \A y \in S : Max(S) >= y
  BY <1>2, Zenon DEF Max
<1>5. Min(S) \in S
  BY <1>3, Zenon DEF Min
<1>6. Max(S) \in Nat
  BY <1>1, <1>4
<1> QED BY <1>1, <1>4, <1>5, <1>6

\* Among blocks that ask there is a next one in cyclic order.
LEMMA SomeoneIsNext ==
  ASSUME NEW asking \in SUBSET Blocks, asking # {}, NEW s \in Blocks
  PROVE  \E i \in asking :
           \A j \in asking : (i - s - 1) % NumBlocks <= (j - s - 1) % NumBlocks
<1>1. NumBlocks \in Nat \ {0} /\ s \in Int /\ \A x \in asking : x \in Int
  BY CacheAssumption DEF Blocks
<1> DEFINE D(x) == (x - s - 1) % NumBlocks
           T == {D(x) : x \in asking}
<1>2. ASSUME NEW x \in asking PROVE D(x) \in Nat
  <2>1. x - s - 1 \in Int
    BY <1>1
  <2>2. \A z \in Int : z % NumBlocks \in Nat
    BY <1>1
  <2> QED BY <2>1, <2>2
<1>3. T \in SUBSET Nat /\ T # {}
  BY <1>2
<1>4. PICK t \in T : \A k \in Nat : k < t => k \notin T
  BY <1>3, LeastNumber, Zenon
<1>5. PICK i \in asking : t = D(i)
  BY <1>4
<1>6. ASSUME NEW j \in asking PROVE D(i) <= D(j)
  <2>1. D(j) \in T /\ D(j) \in Nat /\ D(i) \in Nat
    BY <1>2
  <2> HIDE DEF T, D
  <2>2. ~(D(j) < t)
    BY <1>4, <2>1
  <2> QED BY <1>5, <2>1, <2>2
<1> QED BY <1>6

-----------------------------------------------------------------------------
(* The invariant.                                                           *)

Word == [1..2 -> Nat]
States == {"IDLE", "WRITE", "UPDATE_1", "BYPASS", "WAIT_FOR_CPU"}

\* Where a block or the bus holds an access it is one of the context that runs
\* on the block's lane group.
TypeOK ==
  /\ runs \in Placements
  /\ cmd \in [Blocks -> Access \cup {None}]
  /\ buf \in [Blocks -> Access \cup {None}]
  /\ \A i \in Blocks : cmd[i] \in Commands(runs[i]) /\ buf[i] \in Commands(runs[i])
  /\ state \in [Blocks -> States]
  /\ sync \in [Blocks -> [data : Word, fault : BOOLEAN]]
  /\ accepted \in SUBSET Blocks /\ resume \in SUBSET Blocks /\ doomed \in SUBSET Blocks
  /\ line \in [Blocks -> [addr : Nat, valid : BOOLEAN, data : Word]]
  /\ sel \in Blocks
  /\ bus \in [cmd : Access \cup {None}, age : Nat, ready : BOOLEAN]
  /\ mem \in [Addrs -> Word]
  /\ program \in [Contexts -> Seq(Access)]
  /\ \A c \in Contexts : program[c] \in Seq(Made(c))

\* The blocks of a group see the same access, but for one that bypasses them,
\* and at most one has taken a write.
Coupled ==
  \A i, j \in Blocks : runs[i] = runs[j] =>
    /\ cmd[i] # None /\ ~Bypassed(cmd[i]) => cmd[j] = cmd[i]
    /\ Bypassed(cmd[i]) => j <= i
    /\ i \in accepted /\ j \in accepted => i = j

Taken(i) ==
  /\ i \in resume => i \in accepted
  /\ i \in accepted => Writes(cmd[i]) /\ ~Bypassed(cmd[i])

Chosen(i) == i % Cardinality(Together(i)) = cmd[i].addr % Cardinality(Together(i))

\* What the command of a block and of its group is like in each state.
InIdle(i)  == Idle(i) => i \notin resume
InWrite(i) ==
  /\ state[i] = "WRITE" =>
       buf[i] # None /\ Writes(buf[i]) /\ buf[i].addr \notin Uncached \cup Unmapped
  /\ state[i] # "WRITE" => buf[i] = None
InUpdate(i) ==
  state[i] = "UPDATE_1" =>
    /\ cmd[i] # None /\ ~Bypassed(cmd[i])
    /\ \/ Reads(cmd[i]) /\ Chosen(i) /\ \A j \in Together(i) : ~hit(j)
       \/ cmd[i].op = "part" /\ i \in accepted /\ i \notin resume
InBypass(i) == state[i] = "BYPASS" => Bypassed(cmd[i])
InWait(i) ==
  state[i] = "WAIT_FOR_CPU" =>
    \/ i \in accepted
    \/ Bypassed(cmd[i])
    \/ Reads(cmd[i]) /\ Chosen(i) /\ sync[i].fault

Controller ==
  \A i \in Blocks :
    Taken(i) /\ InIdle(i) /\ InWrite(i) /\ InUpdate(i) /\ InBypass(i) /\ InWait(i)

\* The memory works on what the selected block waits for.
OnBus ==
  /\ bus.cmd # None =>
       state[sel] \in {"WRITE", "UPDATE_1", "BYPASS"} /\ bus.cmd = Pending(sel)
  /\ bus.ready => bus.cmd # None /\ bus.age >= MinLatency

GroupInv == TypeOK /\ Coupled /\ Controller /\ OnBus

-----------------------------------------------------------------------------
(* What a state says about the groups.                                      *)

\* A group sees its misses, faults and stalls together.
LEMMA GroupAgrees ==
  ASSUME NEW i \in Blocks, NEW j \in Blocks, runs[i] = runs[j]
  PROVE  /\ Together(i) = Together(j) /\ Source(i) = Source(j)
         /\ busFault(i) <=> busFault(j)
         /\ readMiss(i) <=> readMiss(j)
         /\ stall(i) <=> stall(j)
<1>1. Together(i) = Together(j)
  BY DEF Together
<1>2. Source(i) = Source(j)
  BY <1>1 DEF Source
<1>3. busFault(i) <=> busFault(j)
  BY <1>1 DEF busFault
<1>4. readMiss(i) <=> readMiss(j)
  BY <1>2 DEF readMiss
<1>5. stallIn(i) <=> stallIn(j)
  BY <1>1, <1>3, <1>4 DEF stallIn
<1> QED BY <1>1, <1>2, <1>3, <1>4, <1>5 DEF stall

LEMMA SourceIsUsable ==
  ASSUME NEW i \in Blocks
  PROVE  /\ Source(i) \in Together(i)
         /\ \A j \in Together(i) : hit(j) \/ Bypassed(cmd[j]) =>
              (hit(Source(i)) \/ Bypassed(cmd[Source(i)])) /\ j <= Source(i)
<1> DEFINE usable == {j \in Together(i) : hit(j) \/ Bypassed(cmd[j])}
<1>1. i \in Together(i) /\ Together(i) \in SUBSET Blocks /\ usable \in SUBSET Blocks
  BY DEF Together
<1>2. Source(i) = IF usable = {} THEN Min(Together(i)) ELSE Max(usable)
  BY DEF Source
<1>3. CASE usable = {}
  <2>1. Source(i) = Min(Together(i)) /\ Together(i) # {}
    BY <1>1, <1>2, <1>3
  <2>2. Source(i) \in Together(i)
    BY <1>1, <2>1, Extremes
  <2>3. \A j \in Together(i) : ~(hit(j) \/ Bypassed(cmd[j]))
    BY <1>3
  <2> QED BY <2>2, <2>3
<1>4. CASE usable # {}
  <2>1. Source(i) = Max(usable)
    BY <1>2, <1>4
  <2> HIDE DEF usable
  <2>2. Source(i) \in usable /\ \A j \in usable : j <= Source(i)
    BY <1>1, <1>4, <2>1, Extremes
  <2> USE DEF usable
  <2> QED BY <2>2
<1> QED BY <1>3, <1>4

\* A read misses when no block of the group has the line, and only then.
LEMMA MissMeansNoHit ==
  ASSUME Coupled, NEW i \in Blocks, readMiss(i)
  PROVE  /\ Reads(cmd[i]) /\ cmd[i] # None /\ ~Bypassed(cmd[i])
         /\ \A j \in Together(i) : ~hit(j) /\ cmd[j] = cmd[i]
<1> DEFINE s == Source(i)
<1>1. s \in Together(i) /\ Reads(cmd[s]) /\ ~hit(s) /\ ~Bypassed(cmd[s])
  BY SourceIsUsable DEF readMiss
<1>2. s \in Blocks /\ runs[s] = runs[i] /\ cmd[s] # None
  BY <1>1 DEF Together, Reads, None
<1>3. \A j \in Together(i) : ~hit(j)
  BY <1>1, SourceIsUsable
<1> HIDE DEF s
<1>4. \A j \in Together(i) : cmd[j] = cmd[s]
  BY <1>1, <1>2 DEF Coupled, Together
<1>5. cmd[i] = cmd[s]
  BY <1>2, <1>1 DEF Coupled
<1> QED BY <1>1, <1>2, <1>3, <1>4, <1>5

LEMMA NoHitMeansMiss ==
  ASSUME Coupled, NEW i \in Blocks, Reads(cmd[i]), ~Bypassed(cmd[i]),
         \A j \in Together(i) : ~hit(j)
  PROVE  readMiss(i)
<1>1. cmd[i] # None
  BY DEF Reads, None
<1>2. Source(i) \in Together(i)
  BY SourceIsUsable
<1>3. cmd[Source(i)] = cmd[i]
  BY <1>1, <1>2 DEF Coupled, Together
<1> QED BY <1>2, <1>3 DEF readMiss

LEMMA PrioRange ==
  ASSUME NEW i \in Blocks
  PROVE  writePrio(i) \in 0..3
BY DEF writePrio

\* One block of a group handles a write.
LEMMA OneHandles ==
  ASSUME NEW i \in Blocks, NEW j \in Blocks, runs[i] = runs[j], handleWrite(i), handleWrite(j)
  PROVE  i = j
<1>1. i \in Together(j) /\ j \in Together(i)
  BY DEF Together
<1>2. writePrio(i) \in Nat /\ writePrio(j) \in Nat /\ i \in Nat /\ j \in Nat
  BY PrioRange, CacheAssumption DEF Blocks
<1>3. /\ writePrio(j) < writePrio(i) \/ (writePrio(j) = writePrio(i) /\ j <= i)
      /\ writePrio(i) < writePrio(j) \/ (writePrio(i) = writePrio(j) /\ i <= j)
  BY <1>1 DEF handleWrite
<1> QED BY <1>2, <1>3

LEMMA OneIsChosen ==
  ASSUME runs \in Placements, NEW i \in Blocks, NEW j \in Blocks, runs[i] = runs[j],
         cmd[i] = cmd[j], Chosen(i), Chosen(j)
  PROVE  i = j
<1> DEFINE n == Cardinality(Together(i))
<1>1. Together(j) = Together(i)
  BY GroupAgrees
<1>2. i % n = j % n
  BY <1>1 DEF Chosen
<1>3. \A k, l \in Blocks :
        runs[k] = runs[l] /\ k % Cardinality({m \in Blocks : runs[m] = runs[k]})
                               = l % Cardinality({m \in Blocks : runs[m] = runs[k]}) => k = l
  BY CacheAssumption, Zenon
<1>4. n = Cardinality({m \in Blocks : runs[m] = runs[i]})
  BY DEF Together
<1> QED BY <1>2, <1>3, <1>4, Zenon

\* While a block waits for the bus with the access of its group, no other block
\* of the group reports a fault.
LEMMA NoFaultMeanwhile ==
  ASSUME GroupInv, NEW i \in Blocks,
         \/ state[i] \in {"UPDATE_1", "BYPASS"}
         \/ Idle(i) /\ Bypassed(cmd[i])
         \/ Accepts(i)
  PROVE  ~busFault(i)
<1> SUFFICES ASSUME NEW j \in Together(i), state[j] = "WAIT_FOR_CPU", sync[j].fault
             PROVE  FALSE
  BY DEF busFault
<1>1. j \in Blocks /\ runs[j] = runs[i] /\ i # j
  BY DEF Together, Accepts, Idle
<1>2. /\ InWait(j) /\ Taken(j) /\ Taken(i) /\ InUpdate(i) /\ InBypass(i)
      /\ Coupled /\ runs \in Placements
  BY <1>1 DEF GroupInv, Controller, TypeOK
<1>3. Accepts(i) => cmd[i] # None /\ Writes(cmd[i]) /\ ~Bypassed(cmd[i])
  BY DEF Accepts, Writes, None
<1>4. CASE j \in accepted
  <2>1. Writes(cmd[j]) /\ ~Bypassed(cmd[j]) /\ cmd[j] # None
    BY <1>2, <1>4 DEF Taken, Writes, None
  <2>2. cmd[i] = cmd[j] /\ i \notin accepted
    BY <1>1, <1>2, <1>4, <2>1 DEF Coupled
  <2>3. state[i] # "BYPASS" /\ state[i] # "UPDATE_1"
    BY <1>2, <2>1, <2>2 DEF InBypass, InUpdate, Reads, Writes
  <2>4. Accepts(i)
    BY <2>1, <2>2, <2>3
  <2>5. writePrio(j) = 3 /\ writePrio(i) \in {1, 2}
    BY <1>4, <2>2, <2>4 DEF writePrio, Accepts, Idle
  <2>6. writePrio(j) <= writePrio(i)
    BY <2>4, <2>5 DEF Accepts, handleWrite
  <2> QED BY <2>5, <2>6
<1>5. CASE Bypassed(cmd[j])
  <2>1. i <= j
    BY <1>1, <1>2, <1>5 DEF Coupled
  <2>2. CASE Bypassed(cmd[i])
    <3>1. j <= i
      BY <1>1, <1>2, <2>2 DEF Coupled
    <3>2. i \in Int /\ j \in Int
      BY <1>1, CacheAssumption DEF Blocks
    <3> QED BY <1>1, <2>1, <3>1, <3>2
  <2>3. CASE ~Bypassed(cmd[i])
    <3>1. cmd[i] # None
      BY <1>2, <1>3, <2>3 DEF InUpdate, InBypass
    <3>2. cmd[j] = cmd[i]
      BY <1>1, <1>2, <2>3, <3>1 DEF Coupled
    <3> QED BY <1>5, <2>3, <3>2
  <2> QED BY <2>2, <2>3
<1>6. CASE Reads(cmd[j]) /\ Chosen(j) /\ ~Bypassed(cmd[j])
  <2>1. cmd[i] = cmd[j]
    BY <1>1, <1>2, <1>6 DEF Coupled, Reads, None
  <2>2. state[i] = "UPDATE_1"
    BY <1>2, <1>3, <1>6, <2>1 DEF InBypass, Reads, Writes
  <2>3. Chosen(i)
    BY <1>2, <1>6, <2>1, <2>2 DEF InUpdate, Reads
  <2> QED BY <1>1, <1>2, <1>6, <2>1, <2>3, OneIsChosen
<1> QED BY <1>2, <1>4, <1>5, <1>6 DEF InWait

\* The command of a block stays as long as the block works on it.
LEMMA WorkStalls ==
  ASSUME GroupInv, NEW i \in Blocks,
         state[i] \in {"UPDATE_1", "BYPASS"} \/ (Idle(i) /\ request(i) # None)
  PROVE  stall(i)
<1>1. /\ InUpdate(i) /\ InBypass(i) /\ InIdle(i) /\ Taken(i) /\ Coupled
  BY DEF GroupInv, Controller
<1>2. i \in Together(i)
  BY DEF Together
<1>3. ASSUME Bypassed(cmd[i]), state[i] # "WAIT_FOR_CPU", ~busFault(i)
      PROVE  stall(i)
  BY <1>2, <1>3 DEF stall, stallIn, writeOrBypassStall
<1>4. CASE state[i] = "BYPASS"
  BY <1>1, <1>3, <1>4, NoFaultMeanwhile DEF InBypass
<1>5. CASE state[i] = "UPDATE_1"
  <2>1. ~busFault(i)
    BY <1>5, NoFaultMeanwhile
  <2>2. CASE Reads(cmd[i]) /\ \A j \in Together(i) : ~hit(j)
    <3>1. readMiss(i)
      BY <1>1, <1>5, <2>2, NoHitMeansMiss DEF InUpdate
    <3> QED BY <2>1, <3>1 DEF stall, stallIn
  <2>3. CASE cmd[i].op = "part" /\ i \in accepted /\ i \notin resume
    <3>1. handleWrite(i)
      <4>1. writePrio(i) = 3
        BY <2>3 DEF writePrio
      <4>2. ASSUME NEW j \in Together(i), j # i PROVE writePrio(j) < 3
        <5>1. j \in Blocks /\ runs[j] = runs[i]
          BY DEF Together
        <5>2. cmd[j] = cmd[i] /\ ~Bypassed(cmd[i])
          BY <1>1, <1>5, <5>1 DEF Coupled, InUpdate
        <5>3. j \notin accepted
          BY <1>1, <2>3, <4>2, <5>1 DEF Coupled
        <5>4. InUpdate(j) /\ InBypass(j)
          BY <5>1 DEF GroupInv, Controller
        <5>5. state[j] # "UPDATE_1" /\ state[j] # "BYPASS"
          BY <2>3, <5>2, <5>3, <5>4 DEF InUpdate, InBypass, Reads
        <5> QED BY <5>3, <5>5 DEF writePrio
      <4>3. i \in Int
        BY CacheAssumption DEF Blocks
      <4> QED BY <4>1, <4>2, <4>3 DEF handleWrite
    <3>2. writeOrBypassStall(i)
      BY <1>5, <2>3, <3>1 DEF writeOrBypassStall, Writes
    <3> QED BY <1>2, <2>1, <3>2 DEF stall, stallIn
  <2> QED BY <1>1, <1>5, <2>2, <2>3 DEF InUpdate
<1>6. CASE Idle(i) /\ Bypassed(cmd[i])
  BY <1>3, <1>6, NoFaultMeanwhile DEF Idle
<1>7. CASE Idle(i) /\ updateEnable(i)
  BY <1>7 DEF updateEnable, stall, stallIn
<1>8. CASE Accepts(i)
  <2>1. ~busFault(i)
    BY <1>8, NoFaultMeanwhile
  <2>2. writeOrBypassStall(i)
    BY <1>1, <1>8 DEF writeOrBypassStall, Accepts, Idle, InIdle
  <2> QED BY <1>2, <2>1, <2>2 DEF stall, stallIn
<1> QED BY <1>4, <1>5, <1>6, <1>7, <1>8 DEF request, WritesLine

-----------------------------------------------------------------------------
(* What a cycle does to a block.                                            *)

\* The lane group of the block stays what it is, or it is drained and its new
\* context has not started.
Stays(i)  == runs'[i] = runs[i] /\ Together(i)' = Together(i)
Leaves(i) == cmd[i] = None /\ cmd'[i] = None /\ Idle(i) /\ request(i) = None

Step(new) ==
  /\ Edge(new)
  /\ \A c \in Contexts : new[c] \in Commands(c)
  /\ \A i \in Blocks : Stays(i) \/ Leaves(i)
  /\ runs' \in Placements
  /\ program' \in [Contexts -> Seq(Access)]
  /\ \A c \in Contexts : program'[c] \in Seq(Made(c))

\* What the contexts that make an access ask for.
Asked(asking) == [c \in Contexts |-> IF c \in asking THEN Head(program[c]) ELSE None]

LEMMA CycleFacts ==
  ASSUME TypeOK, NEW asking \in SUBSET Contexts, Cycle(asking)
  PROVE  /\ Edge(Asked(asking))
         /\ \A c \in Contexts : Asked(asking)[c] \in Commands(c)
         /\ program' \in [Contexts -> Seq(Access)]
         /\ \A c \in Contexts : program'[c] \in Seq(Made(c))
<1>1. Edge(Asked(asking)) /\ \A c \in asking : program[c] # <<>>
  BY DEF Cycle, Asked
<1>2. \A c \in Contexts : program[c] \in Seq(Access) /\ program[c] \in Seq(Made(c))
  BY DEF TypeOK
<1>3. ASSUME NEW c \in Contexts PROVE Asked(asking)[c] \in Commands(c)
  <2>1. c \in asking => Head(program[c]) \in Made(c)
    BY <1>1, <1>2, HeadTailProperties
  <2> QED BY <2>1 DEF Asked, Commands
<1>4. program' = [c \in Contexts |-> IF c \in asking THEN Tail(program[c]) ELSE program[c]]
  BY DEF Cycle
<1>5. ASSUME NEW c \in Contexts
      PROVE  program'[c] \in Seq(Access) /\ program'[c] \in Seq(Made(c))
  <2>1. c \in asking => Tail(program[c]) \in Seq(Access) /\ Tail(program[c]) \in Seq(Made(c))
    BY <1>1, <1>2, HeadTailProperties
  <2> QED BY <1>2, <1>4, <2>1
<1>6. program' \in [Contexts -> Seq(Access)]
  BY <1>4, <1>5
<1> QED BY <1>1, <1>3, <1>5, <1>6

LEMMA NextSteps ==
  ASSUME TypeOK, Next
  PROVE  \E new : Step(new)
<1>1. runs \in Placements /\ \A p \in Placements : p \in [Blocks -> Contexts]
  BY CacheAssumption DEF TypeOK
<1>2. CASE Tick
  <2>1. PICK asking \in SUBSET {runs[i] : i \in {j \in Blocks : ~stall(j)}} : Cycle(asking)
    BY <1>2 DEF Tick
  <2>2. asking \in SUBSET Contexts
    BY <1>1
  <2>3. runs' = runs
    BY <1>2 DEF Tick
  <2>4. \A i \in Blocks : Stays(i)
    BY <2>3 DEF Stays, Together
  <2>5. Step(Asked(asking))
    BY <1>1, <2>1, <2>2, <2>3, <2>4, CycleFacts DEF Step
  <2> QED BY <2>5
<1>3. CASE Reconfigure
  <2>1. PICK r \in Placements \ {runs} :
          LET kept == {i \in Blocks : /\ r[i] = runs[i]
                                      /\ {j \in Blocks : r[j] = r[i]} = Together(i)}
          IN /\ \A i \in Blocks \ kept : cmd[i] = None /\ ~blockReconfig(i)
             /\ \E asking \in SUBSET {runs[i] : i \in {j \in kept : ~stall(j)}} : Cycle(asking)
             /\ runs' = r
    BY <1>3, Zenon DEF Reconfigure
  <2> DEFINE kept == {i \in Blocks : /\ r[i] = runs[i]
                                     /\ {j \in Blocks : r[j] = r[i]} = Together(i)}
  <2>2. PICK asking \in SUBSET {runs[i] : i \in {j \in kept : ~stall(j)}} : Cycle(asking)
    BY <2>1
  <2>3. asking \in SUBSET Contexts
    BY <1>1
  <2>4. runs' = r /\ \A i \in Blocks \ kept : cmd[i] = None /\ ~blockReconfig(i)
    BY <2>1
  <2>5. \A i \in kept : Stays(i)
    BY <2>4 DEF Stays, Together
  <2>6. ASSUME NEW i \in Blocks \ kept PROVE Leaves(i)
    <3>1. runs[i] \notin asking
      <4>1. SUFFICES ASSUME NEW k \in kept, runs[i] = runs[k] PROVE FALSE
        OBVIOUS
      <4>2. i \in Together(k)
        BY <4>1 DEF Together
      <4>3. r[i] = r[k] /\ r[k] = runs[k]
        BY <4>2
      <4>4. Together(i) = Together(k)
        BY <4>1 DEF Together
      <4> QED BY <4>1, <4>3, <4>4
    <3>2. Edge(Asked(asking))
      BY <2>2, <2>3, CycleFacts
    <3>3. runs[i] \in Contexts
      BY <1>1
    <3>4. Asked(asking)[runs[i]] = None
      BY <3>1, <3>3 DEF Asked
    <3>5. cmd'[i] = None
      BY <2>4, <3>2, <3>4 DEF Edge, CpuEdge, Routed
    <3> QED BY <2>4, <3>5 DEF Leaves, blockReconfig
  <2>7. \A i \in Blocks : Stays(i) \/ Leaves(i)
    BY <2>5, <2>6
  <2>8. Step(Asked(asking))
    BY <2>2, <2>3, <2>4, <2>7, CycleFacts DEF Step
  <2> QED BY <2>8
<1> QED BY <1>2, <1>3 DEF Next

\* Who shares a lane group with a block after the cycle did so before.
LEMMA StaysTogether ==
  ASSUME NEW i \in Blocks, NEW j \in Blocks, Stays(i), runs'[i] = runs'[j]
  PROVE  Stays(j) /\ runs[i] = runs[j]
<1>1. j \in Together(i)' /\ Together(j)' = Together(i)'
  BY DEF Together
<1>2. j \in Together(i)
  BY <1>1 DEF Stays
<1>3. runs[j] = runs[i] /\ Together(j) = Together(i)
  BY <1>2 DEF Together
<1> QED BY <1>1, <1>3 DEF Stays

\* An acknowledge goes to a block that waits, and asks for an address that a
\* context uses.
LEMMA AckFacts ==
  ASSUME GroupInv, bus.cmd # None
  PROVE  /\ state[sel] \in {"WRITE", "UPDATE_1", "BYPASS"}
         /\ bus.cmd = Pending(sel)
         /\ bus.cmd \in Access /\ bus.cmd.addr \in Addrs
<1>1. /\ state[sel] \in {"WRITE", "UPDATE_1", "BYPASS"} /\ bus.cmd = Pending(sel)
      /\ sel \in Blocks /\ bus.cmd \in Access \cup {None}
      /\ runs \in [Blocks -> Contexts]
      /\ cmd[sel] \in Commands(runs[sel]) /\ buf[sel] \in Commands(runs[sel])
      /\ InWrite(sel) /\ InUpdate(sel) /\ InBypass(sel)
  BY CacheAssumption DEF GroupInv, OnBus, TypeOK, Controller
<1>2. runs[sel] \in Contexts
  BY <1>1
<1>3. CASE state[sel] = "WRITE"
  <2>1. buf[sel] \in Made(runs[sel]) /\ bus.cmd = buf[sel]
    BY <1>1, <1>3 DEF InWrite, Commands, Pending
  <2>2. buf[sel].addr \in Addrs
    BY <1>2, <2>1, MadeIsAccess
  <2> QED BY <1>1, <2>1, <2>2
<1>4. CASE state[sel] \in {"UPDATE_1", "BYPASS"}
  <2>1. cmd[sel] \in Made(runs[sel])
    BY <1>1, <1>4 DEF InUpdate, InBypass, Commands, Bypassed, None
  <2>2. cmd[sel].addr \in Addrs
    BY <1>2, <2>1, MadeIsAccess
  <2>3. bus.cmd.addr = cmd[sel].addr
    BY <1>1, <1>4 DEF Pending, Fetch
  <2> QED BY <1>1, <2>2, <2>3
<1> QED BY <1>1, <1>3, <1>4

\* The block the arbiter selects, and what it asks for.
LEMMA SelectFacts ==
  ASSUME TypeOK
  PROVE  /\ requestSelect \in Blocks
         /\ busy => requestSelect = sel
<1>1. sel \in Blocks
  BY DEF TypeOK
<1> DEFINE asking == {i \in Blocks : request(i) # None}
<1>2. CASE busy \/ asking = {}
  BY <1>1, <1>2 DEF requestSelect
<1>3. CASE ~(busy \/ asking = {})
  <2>1. requestSelect = CHOOSE i \in asking :
            \A j \in asking : (i - sel - 1) % NumBlocks <= (j - sel - 1) % NumBlocks
    BY <1>3 DEF requestSelect
  <2>2. asking \in SUBSET Blocks
    OBVIOUS
  <2> HIDE DEF asking
  <2>3. requestSelect \in asking
    BY <1>1, <1>3, <2>1, <2>2, SomeoneIsNext, Zenon
  <2> QED BY <1>3, <2>2, <2>3
<1> QED BY <1>2, <1>3

LEMMA RequestFacts ==
  ASSUME GroupInv, NEW i \in Blocks, request(i) # None
  PROVE  /\ request(i) \in Access /\ request(i).addr \in Addrs
         /\ state[i] # "WAIT_FOR_CPU"
<1>1. /\ cmd[i] \in Commands(runs[i]) /\ buf[i] \in Commands(runs[i])
      /\ state[i] \in States /\ Coupled
      /\ InWrite(i) /\ InUpdate(i) /\ InBypass(i) /\ runs[i] \in Contexts
  BY CacheAssumption DEF GroupInv, TypeOK, Controller
<1>2. /\ cmd[i] # None => cmd[i] \in Access /\ cmd[i].addr \in Addrs
      /\ buf[i] # None => buf[i] \in Access /\ buf[i].addr \in Addrs
  BY <1>1, MadeIsAccess DEF Commands
<1>3. ASSUME cmd[i] # None PROVE Fetch(cmd[i].addr) \in Access /\ Fetch(cmd[i].addr).addr \in Addrs
  <2>1. cmd[i].addr \in Nat /\ cmd[i].addr \in Addrs
    BY <1>2, <1>3 DEF Access
  <2> QED BY <2>1 DEF Fetch, Access
<1>4. CASE Idle(i)
  <2>1. updateEnable(i) => cmd[i] # None
    BY <1>1, MissMeansNoHit DEF updateEnable
  <2>2. Accepts(i) => cmd[i] # None
    BY DEF Accepts, Writes, None
  <2>3. Bypassed(cmd[i]) => cmd[i] # None
    BY DEF Bypassed, None
  <2>4. state[i] # "WAIT_FOR_CPU"
    BY <1>4 DEF Idle
  <2> QED BY <1>2, <1>3, <1>4, <2>1, <2>2, <2>3, <2>4 DEF request, WritesLine
<1>5. CASE ~Idle(i)
  <2>1. state[i] \in {"WRITE", "UPDATE_1", "BYPASS"} /\ request(i) = Pending(i)
    BY <1>1, <1>5 DEF request, Idle, States
  <2>2. CASE state[i] = "WRITE"
    BY <1>1, <1>2, <2>1, <2>2 DEF Pending, InWrite
  <2>3. CASE state[i] = "UPDATE_1"
    BY <1>1, <1>3, <2>1, <2>3 DEF Pending, InUpdate
  <2>4. CASE state[i] = "BYPASS"
    <3>1. cmd[i] # None
      BY <1>1, <2>4 DEF InBypass, Bypassed, None
    <3> QED BY <1>2, <2>1, <2>4, <3>1 DEF Pending
  <2> QED BY <2>1, <2>2, <2>3, <2>4
<1> QED BY <1>4, <1>5

-----------------------------------------------------------------------------
(* The invariant of the controllers is inductive.                           *)

LEMMA WordsStay ==
  ASSUME NEW w \in Word, NEW c \in Access \cup {None}
  PROVE  Merged(w, c) \in Word
BY DEF Word, Access, Merged, None

\* How a block waits, and what its registers hold meanwhile.
LEMMA Moves ==
  ASSUME GroupInv, NEW new, Step(new), NEW i \in Blocks
  PROVE  /\ state'[i] = nextState(i) /\ nextState(i) \in States
         /\ stall(i) => cmd'[i] = cmd[i]
         /\ ~stall(i) => i \notin accepted' /\ i \notin resume'
         /\ (Idle(i) /\ request(i) # None) \/ state[i] \in {"UPDATE_1", "BYPASS"} =>
              cmd'[i] = cmd[i] /\ stall(i) /\ Stays(i)
<1>2. state'[i] = nextState(i)
  BY DEF Step, Edge, ControllerEdge
<1>3. nextState(i) \in States
  <2>1. state[i] \in States
    BY DEF GroupInv, TypeOK
  <2>2. AfterAck(i) \in States
    BY DEF AfterAck, States
  <2> QED BY <2>1, <2>2 DEF nextState, States, Idle
<1>4. stall(i) => cmd'[i] = cmd[i]
  BY DEF Step, Edge, CpuEdge
<1>5. ~stall(i) => i \notin accepted' /\ i \notin resume'
  BY DEF Step, Edge, ControllerEdge
<1>6. ASSUME (Idle(i) /\ request(i) # None) \/ state[i] \in {"UPDATE_1", "BYPASS"}
      PROVE  cmd'[i] = cmd[i] /\ stall(i) /\ Stays(i)
  <2>1. stall(i)
    BY <1>6, WorkStalls
  <2>2. ~Leaves(i)
    BY <1>6 DEF Leaves, Idle
  <2> QED BY <1>4, <2>1, <2>2 DEF Step
<1> QED BY <1>2, <1>3, <1>4, <1>5, <1>6

LEMMA CommandStep ==
  ASSUME GroupInv, NEW new, Step(new)
  PROVE  /\ cmd' \in [Blocks -> Access \cup {None}]
         /\ \A i \in Blocks : cmd'[i] \in Commands(runs'[i])
<1>1. /\ cmd \in [Blocks -> Access \cup {None}] /\ runs' \in [Blocks -> Contexts]
      /\ runs \in [Blocks -> Contexts]
  BY CacheAssumption DEF GroupInv, TypeOK, Step
<1>2. cmd' = [i \in Blocks |-> IF stall(i) THEN cmd[i] ELSE Routed(new, i)]
  BY DEF Step, Edge, CpuEdge
<1>3. ASSUME NEW i \in Blocks PROVE cmd'[i] \in Commands(runs'[i])
  <2>1. CASE Leaves(i)
    BY <2>1 DEF Leaves, Commands
  <2>2. CASE Stays(i) /\ stall(i)
    <3>1. cmd[i] \in Commands(runs[i])
      BY DEF GroupInv, TypeOK
    <3> QED BY <1>2, <2>2, <3>1 DEF Stays
  <2>3. CASE Stays(i) /\ ~stall(i)
    <3>1. new[runs[i]] \in Commands(runs[i])
      BY <1>1 DEF Step
    <3>2. Routed(new, i) \in Commands(runs[i])
      BY <3>1 DEF Routed, Commands
    <3> QED BY <1>2, <2>3, <3>2 DEF Stays
  <2> QED BY <2>1, <2>2, <2>3 DEF Step
<1>4. ASSUME NEW i \in Blocks PROVE cmd'[i] \in Access \cup {None}
  <2>1. cmd'[i] \in Commands(runs'[i]) /\ runs'[i] \in Contexts
    BY <1>1, <1>3
  <2> QED BY <2>1, MadeIsAccess DEF Commands
<1> QED BY <1>2, <1>3, <1>4

LEMMA BufferStep ==
  ASSUME GroupInv, NEW new, Step(new)
  PROVE  /\ buf' \in [Blocks -> Access \cup {None}]
         /\ \A i \in Blocks : buf'[i] \in Commands(runs'[i])
<1>1. runs' \in [Blocks -> Contexts]
  BY CacheAssumption DEF Step
<1>2. buf' = [i \in Blocks |-> IF nextState(i) # "WRITE" THEN None
                               ELSE IF WritesLine(i) THEN cmd[i] ELSE buf[i]]
  BY DEF Step, Edge, ControllerEdge
<1>3. ASSUME NEW i \in Blocks PROVE buf'[i] \in Commands(runs'[i])
  <2>1. CASE nextState(i) # "WRITE"
    BY <1>2, <2>1 DEF Commands
  <2>2. CASE nextState(i) = "WRITE"
    <3>1. ~Leaves(i)
      BY <2>2 DEF Leaves, nextState
    <3>2. runs'[i] = runs[i]
      BY <3>1 DEF Step, Stays
    <3>3. cmd[i] \in Commands(runs[i]) /\ buf[i] \in Commands(runs[i])
      BY DEF GroupInv, TypeOK
    <3> QED BY <1>2, <2>2, <3>2, <3>3
  <2> QED BY <2>1, <2>2
<1>4. ASSUME NEW i \in Blocks PROVE buf'[i] \in Access \cup {None}
  <2>1. buf'[i] \in Commands(runs'[i]) /\ runs'[i] \in Contexts
    BY <1>1, <1>3
  <2> QED BY <2>1, MadeIsAccess DEF Commands
<1> QED BY <1>2, <1>3, <1>4

LEMMA MemoryTypes ==
  ASSUME GroupInv, NEW new, Step(new)
  PROVE  /\ sync' \in [Blocks -> [data : Word, fault : BOOLEAN]]
         /\ line' \in [Blocks -> [addr : Nat, valid : BOOLEAN, data : Word]]
         /\ mem' \in [Addrs -> Word]
<1>1. /\ sync \in [Blocks -> [data : Word, fault : BOOLEAN]]
      /\ line \in [Blocks -> [addr : Nat, valid : BOOLEAN, data : Word]]
      /\ mem \in [Addrs -> Word] /\ cmd \in [Blocks -> Access \cup {None}]
  BY DEF GroupInv, TypeOK
<1>2. \A i \in Blocks : ack(i) => mem[bus.cmd.addr] \in Word
  BY <1>1, AckFacts DEF ack
<1>3. sync' \in [Blocks -> [data : Word, fault : BOOLEAN]]
  <2>1. sync' = [i \in Blocks |->
                [data |-> IF nextState(i) # "WAIT_FOR_CPU" THEN <<0, 0>>
                          ELSE IF memSyncRegEna(i) /\ ~fault THEN mem[bus.cmd.addr]
                          ELSE sync[i].data,
                 fault |-> IF memSyncRegEna(i) THEN fault ELSE sync[i].fault]]
    BY DEF Step, Edge, ControllerEdge
  <2>2. <<0, 0>> \in Word
    BY DEF Word
  <2>3. fault \in BOOLEAN
    BY DEF fault
  <2>4. \A i \in Blocks : memSyncRegEna(i) => mem[bus.cmd.addr] \in Word
    BY <1>2 DEF memSyncRegEna
  <2> QED BY <1>1, <2>1, <2>2, <2>3, <2>4
<1>4. ASSUME NEW i \in Blocks
      PROVE  Stored(i) \in [addr : Nat, valid : BOOLEAN, data : Word]
  <2>1. line[i].data \in Word /\ cmd[i] \in Access \cup {None}
    BY <1>1
  <2>2. cmd[i].addr \in Nat
    BY <2>1 DEF Access, None
  <2>3. Merged(line[i].data, cmd[i]) \in Word
    BY <2>1, WordsStay
  <2>4. Fills(i) => mem[bus.cmd.addr] \in Word
    BY <1>2 DEF Fills
  <2> QED BY <1>1, <2>2, <2>3, <2>4 DEF Stored
<1>5. line' \in [Blocks -> [addr : Nat, valid : BOOLEAN, data : Word]]
  <2>1. line' = [i \in Blocks |->
                LET new0 == IF cmd'[i] # None THEN Stored(i) ELSE line[i]
                IN IF i \in doomed THEN [new0 EXCEPT !.valid = FALSE] ELSE new0]
    BY DEF Step, Edge, LineEdge
  <2> QED BY <1>1, <1>4, <2>1
<1>6. mem' \in [Addrs -> Word]
  <2>1. mem' = IF busy \/ ~Writes(granted) \/ granted.addr \in Unmapped THEN mem
               ELSE [mem EXCEPT ![granted.addr] = Merged(@, granted)]
    BY DEF Step, Edge, BusEdge
  <2>2. CASE Writes(granted)
    <3>1. granted # None
      BY <2>2 DEF Writes, None
    <3>2. requestSelect \in Blocks
      BY SelectFacts DEF GroupInv
    <3>3. granted \in Access /\ granted.addr \in Addrs
      BY <3>1, <3>2, RequestFacts DEF granted
    <3>4. Merged(mem[granted.addr], granted) \in Word
      BY <1>1, <3>3, WordsStay
    <3> QED BY <1>1, <2>1, <3>3, <3>4
  <2> QED BY <1>1, <2>1, <2>2
<1> QED BY <1>3, <1>5, <1>6

LEMMA BusMoves ==
  ASSUME GroupInv, NEW new, Step(new)
  PROVE  /\ bus'.cmd = IF busy THEN bus.cmd ELSE granted
         /\ bus' \in [cmd : Access \cup {None}, age : Nat, ready : BOOLEAN]
         /\ bus'.ready => bus'.cmd # None /\ bus'.age >= MinLatency
         /\ ~busy => bus'.age \in 0..1
<1>1. requestSelect \in Blocks
  BY SelectFacts DEF GroupInv
<1>2. granted \in Access \cup {None}
  BY <1>1, RequestFacts DEF granted
<1>3. bus \in [cmd : Access \cup {None}, age : Nat, ready : BOOLEAN]
  BY DEF GroupInv, TypeOK
<1>4. BusEdge
  BY DEF Step, Edge
<1>5. PICK ready \in BOOLEAN :
       /\ bus' = IF busy
                 THEN [bus EXCEPT !.age = IF @ < MinLatency THEN @ + 1 ELSE @, !.ready = ready]
                 ELSE [cmd |-> granted, age |-> IF granted = None THEN 0 ELSE 1, ready |-> ready]
       /\ ready => bus'.cmd # None /\ bus'.age >= MinLatency
  BY ONLY <1>4, Zenon DEF BusEdge
<1>6. CASE busy
  <2>1. bus.age \in Nat /\ (IF bus.age < MinLatency THEN bus.age + 1 ELSE bus.age) \in Nat
    BY <1>3
  <2>2. bus' = [bus EXCEPT !.age = IF bus.age < MinLatency THEN bus.age + 1 ELSE bus.age,
                           !.ready = ready]
    BY <1>5, <1>6
  <2>3. bus'.cmd = bus.cmd /\ bus'.ready = ready
    BY <1>3, <2>2
  <2>4. bus' \in [cmd : Access \cup {None}, age : Nat, ready : BOOLEAN]
    BY <1>3, <2>1, <2>2
  <2> QED BY <1>5, <1>6, <2>3, <2>4
<1>7. CASE ~busy
  <2>1. bus' = [cmd |-> granted, age |-> IF granted = None THEN 0 ELSE 1, ready |-> ready]
    BY <1>5, <1>7
  <2>2. bus'.cmd = granted /\ bus'.ready = ready /\ bus'.age \in 0..1
    BY <2>1
  <2>3. bus' \in [cmd : Access \cup {None}, age : Nat, ready : BOOLEAN]
    BY <1>2, <2>1
  <2> QED BY <1>5, <1>7, <2>2, <2>3
<1> QED BY <1>6, <1>7

LEMMA TypeStep ==
  ASSUME GroupInv, NEW new, Step(new)
  PROVE  TypeOK'
<1>1. requestSelect \in Blocks
  BY SelectFacts DEF GroupInv
<1>2. granted \in Access \cup {None}
  BY <1>1, RequestFacts DEF granted
<1>3. /\ state' = [i \in Blocks |-> nextState(i)]
      /\ accepted' = {i \in Blocks : stall(i) /\ (i \in accepted \/ Accepts(i))}
      /\ resume' = {i \in Blocks : stall(i) /\ (i \in resume \/ WritesLine(i))}
      /\ doomed' = Invalidated /\ sel' = requestSelect
  BY DEF Step, Edge, ControllerEdge, LineEdge, BusEdge
<1>4. state' \in [Blocks -> States]
  BY <1>3, Moves
<1>5. bus' \in [cmd : Access \cup {None}, age : Nat, ready : BOOLEAN]
  BY BusMoves
<1>6. accepted' \in SUBSET Blocks /\ resume' \in SUBSET Blocks /\ doomed' \in SUBSET Blocks
  BY <1>3 DEF Invalidated
<1> QED BY <1>1, <1>3, <1>4, <1>5, <1>6, CommandStep, BufferStep, MemoryTypes
        DEF TypeOK, Step

LEMMA CoupledStep ==
  ASSUME GroupInv, NEW new, Step(new)
  PROVE  Coupled'
<1> SUFFICES ASSUME NEW i \in Blocks, NEW j \in Blocks, runs'[i] = runs'[j]
             PROVE  /\ cmd'[i] # None /\ ~Bypassed(cmd'[i]) => cmd'[j] = cmd'[i]
                    /\ Bypassed(cmd'[i]) => j <= i
                    /\ i \in accepted' /\ j \in accepted' => i = j
  BY DEF Coupled, Bypassed
<1>1. Coupled /\ \A k \in Blocks : Taken(k)
  BY DEF GroupInv, Controller
<1>2. cmd' = [k \in Blocks |-> IF stall(k) THEN cmd[k] ELSE Routed(new, k)]
  BY DEF Step, Edge, CpuEdge
<1>3. accepted' = {k \in Blocks : stall(k) /\ (k \in accepted \/ Accepts(k))}
  BY DEF Step, Edge, ControllerEdge
<1>4. CASE Stays(i)
  <2>1. Stays(j) /\ runs[i] = runs[j] /\ (stall(i) <=> stall(j)) /\ Together(i) = Together(j)
    BY <1>4, StaysTogether, GroupAgrees
  <2>2. CASE stall(i)
    <3>1. cmd'[i] = cmd[i] /\ cmd'[j] = cmd[j]
      BY <1>2, <2>1, <2>2
    <3>2. ASSUME NEW k \in Blocks, NEW l \in Blocks, runs[k] = runs[l],
                 k \in accepted, Accepts(l), k # l
          PROVE  FALSE
      <4>1. l \notin accepted
        BY <1>1, <3>2 DEF Coupled
      <4>2. writePrio(k) = 3 /\ writePrio(l) \in {1, 2}
        BY <3>2, <4>1 DEF writePrio, Accepts, Idle
      <4>3. k \in Together(l) /\ handleWrite(l)
        BY <3>2 DEF Together, Accepts
      <4> QED BY <4>2, <4>3 DEF handleWrite
    <3>3. Accepts(i) /\ Accepts(j) => i = j
      BY <2>1, OneHandles DEF Accepts
    <3>4. i \in accepted /\ j \in accepted => i = j
      BY <1>1, <2>1 DEF Coupled
    <3>5. i \in accepted' /\ j \in accepted' => i = j
      BY <1>3, <2>1, <3>2, <3>3, <3>4
    <3> QED BY <1>1, <2>1, <3>1, <3>5 DEF Coupled
  <2>3. CASE ~stall(i)
    <3>1. cmd'[i] = Routed(new, i) /\ cmd'[j] = Routed(new, j)
      BY <1>2, <2>1, <2>3
    <3>2. i \notin accepted'
      BY <1>3, <2>3
    <3>3. i \in Together(i) /\ j \in Together(i) /\ Together(i) \in SUBSET Blocks
      BY <2>1 DEF Together
    <3>4. j <= Max(Together(i))
      BY <3>3, Extremes
    <3>5. ~Bypassed(None)
      BY DEF Bypassed, None
    <3>6. CASE Bypassed(new[runs[i]])
      BY <2>1, <3>1, <3>2, <3>4, <3>5, <3>6 DEF Routed
    <3>7. CASE ~Bypassed(new[runs[i]])
      BY <2>1, <3>1, <3>2, <3>7 DEF Routed
    <3> QED BY <3>6, <3>7
  <2> QED BY <2>2, <2>3
<1>5. CASE Leaves(i)
  <2>1. cmd'[i] = None /\ ~Bypassed(None)
    BY <1>5 DEF Leaves, Bypassed, None
  <2>2. i \notin accepted'
    BY <1>1, <1>3, <1>5 DEF Leaves, Taken, Accepts, Writes, None
  <2> QED BY <2>1, <2>2
<1> QED BY <1>4, <1>5 DEF Step

\* A block whose group reads a line it does not have gets that line only by its
\* own fill, which is the chosen block's.
LEMMA NobodyElseFills ==
  ASSUME GroupInv, NEW new, Step(new), NEW i \in Blocks, NEW j \in Together(i),
         Reads(cmd[i]), ~Bypassed(cmd[i]), Chosen(i), ~ack(i), ~hit(j), cmd'[j] = cmd[j]
  PROVE  ~hit(j)'
<1>1. j \in Blocks /\ runs[i] = runs[j] /\ Coupled /\ InUpdate(j) /\ runs \in Placements
  BY DEF Together, GroupInv, Controller, TypeOK
<1>2. cmd[j] = cmd[i] /\ cmd[i] # None
  BY <1>1 DEF Coupled, Reads, None
<1>3. ~WritesLine(j)
  BY <1>2 DEF WritesLine, Accepts, Reads, Writes
<1>4. ~Fills(j)
  <2>1. SUFFICES ASSUME state[j] = "UPDATE_1", ack(j) PROVE FALSE
    BY DEF Fills
  <2>2. Chosen(j)
    BY <1>1, <1>2, <2>1 DEF InUpdate, Reads
  <2> QED BY <1>1, <1>2, <2>1, <2>2, OneIsChosen
<1>5. Stored(j) = line[j]
  BY <1>3, <1>4 DEF Stored
<1>6. line'[j] = IF j \in doomed THEN [line[j] EXCEPT !.valid = FALSE] ELSE line[j]
  BY <1>1, <1>5 DEF Step, Edge, LineEdge
<1>7. line[j] \in [addr : Nat, valid : BOOLEAN, data : Word]
  BY <1>1 DEF GroupInv, TypeOK
<1>8. line'[j].valid => line[j].valid /\ line'[j].addr = line[j].addr
  BY <1>6, <1>7
<1> QED BY <1>2, <1>8 DEF hit

LEMMA TakenStep ==
  ASSUME GroupInv, NEW new, Step(new), NEW i \in Blocks
  PROVE  Taken(i)'
<1>1. Taken(i)
  BY DEF GroupInv, Controller
<1>2. /\ accepted' = {k \in Blocks : stall(k) /\ (k \in accepted \/ Accepts(k))}
      /\ resume' = {k \in Blocks : stall(k) /\ (k \in resume \/ WritesLine(k))}
  BY DEF Step, Edge, ControllerEdge
<1>3. i \in accepted' => Writes(cmd[i]) /\ ~Bypassed(cmd[i]) /\ cmd'[i] = cmd[i]
  BY <1>1, <1>2, Moves DEF Taken, Accepts
<1> QED BY <1>1, <1>2, <1>3 DEF Taken, WritesLine, Writes, Bypassed

LEMMA IdleStep ==
  ASSUME GroupInv, NEW new, Step(new), NEW i \in Blocks
  PROVE  InIdle(i)'
<1> SUFFICES ASSUME state'[i] = "IDLE", i \in resume' PROVE FALSE
  BY DEF InIdle, Idle
<1>1. Taken(i) /\ InIdle(i) /\ InUpdate(i) /\ InBypass(i) /\ state[i] \in States
  BY DEF GroupInv, Controller, TypeOK
<1>2. nextState(i) = "IDLE" /\ stall(i) /\ (i \in resume \/ WritesLine(i))
  BY DEF Step, Edge, ControllerEdge
<1>3. ~WritesLine(i)
  <2>1. SUFFICES ASSUME WritesLine(i) PROVE FALSE
    OBVIOUS
  <2>2. Idle(i) /\ ~Bypassed(cmd[i]) /\ request(i) = cmd[i] /\ cmd[i] # None
    BY <2>1 DEF WritesLine, Accepts, request, Writes, None
  <2> QED BY <1>2, <2>1, <2>2 DEF nextState
<1>4. i \in resume /\ i \in accepted /\ ~Idle(i) /\ Writes(cmd[i]) /\ ~Bypassed(cmd[i])
  BY <1>1, <1>2, <1>3 DEF Taken, InIdle
<1>5. state[i] \in {"WRITE", "WAIT_FOR_CPU"}
  BY <1>1, <1>4 DEF InUpdate, InBypass, States, Idle, Reads, Writes
<1> QED BY <1>2, <1>4, <1>5 DEF nextState, AfterAck, Idle

LEMMA BufferHolds ==
  ASSUME GroupInv, WritesMapped, NEW new, Step(new), NEW i \in Blocks
  PROVE  InWrite(i)'
<1>1. /\ InWrite(i) /\ state[i] \in States /\ state'[i] = nextState(i)
      /\ cmd[i] \in Commands(runs[i]) /\ runs[i] \in Contexts
  BY Moves, CacheAssumption DEF GroupInv, Controller, TypeOK
<1>2. buf'[i] = IF nextState(i) # "WRITE" THEN None
                ELSE IF WritesLine(i) THEN cmd[i] ELSE buf[i]
  BY DEF Step, Edge, ControllerEdge
<1>3. SUFFICES ASSUME nextState(i) = "WRITE"
               PROVE  /\ buf'[i] # None /\ Writes(buf'[i])
                      /\ buf'[i].addr \notin Uncached \cup Unmapped
  BY <1>1, <1>2 DEF InWrite, Writes
<1>4. CASE WritesLine(i)
  <2>1. cmd[i] # None /\ Writes(cmd[i]) /\ cmd[i].addr \notin Uncached
    BY <1>4 DEF WritesLine, Accepts, Writes, Bypassed, None
  <2>2. cmd[i] \in Made(runs[i])
    BY <1>1, <2>1 DEF Commands
  <2>3. cmd[i].addr \notin Unmapped
    BY <1>1, <2>1, <2>2 DEF WritesMapped
  <2> QED BY <1>2, <1>3, <1>4, <2>1, <2>3
<1>5. CASE ~WritesLine(i)
  <2>1. state[i] = "WRITE"
    BY <1>1, <1>3, <1>5 DEF nextState, AfterAck, States
  <2> QED BY <1>1, <1>2, <1>3, <1>5, <2>1 DEF InWrite
<1> QED BY <1>4, <1>5

LEMMA FetchStep ==
  ASSUME GroupInv, NEW new, Step(new), NEW i \in Blocks
  PROVE  InUpdate(i)' /\ InBypass(i)'
<1>1. /\ state'[i] = nextState(i) /\ state[i] \in States
      /\ InUpdate(i) /\ InBypass(i) /\ InIdle(i) /\ Coupled
  BY Moves DEF GroupInv, Controller, TypeOK
<1>2. /\ accepted' = {k \in Blocks : stall(k) /\ (k \in accepted \/ Accepts(k))}
      /\ resume' = {k \in Blocks : stall(k) /\ (k \in resume \/ WritesLine(k))}
  BY DEF Step, Edge, ControllerEdge
<1>3. ASSUME nextState(i) = "UPDATE_1"
      PROVE  /\ (Idle(i) /\ request(i) # None /\ ~Bypassed(cmd[i]) /\ ~WritesLine(i))
                \/ (state[i] = "UPDATE_1" /\ ~ack(i))
             /\ cmd'[i] = cmd[i] /\ stall(i) /\ Stays(i) /\ ~ack(i)
  <2>1. (Idle(i) /\ request(i) # None /\ ~Bypassed(cmd[i]) /\ ~WritesLine(i))
                \/ (state[i] = "UPDATE_1" /\ ~ack(i))
    BY <1>1, <1>3 DEF nextState, AfterAck, States
  <2>2. Idle(i) => ~ack(i)
    BY AckFacts DEF Idle, ack
  <2> QED BY <2>1, <2>2, Moves
<1>4. ASSUME nextState(i) = "UPDATE_1"
      PROVE  /\ cmd[i] # None /\ ~Bypassed(cmd[i])
             /\ \/ Reads(cmd[i]) /\ Chosen(i) /\ \A j \in Together(i) : ~hit(j)
                \/ cmd[i].op = "part" /\ i \in accepted' /\ i \notin resume'
  <2>1. CASE Idle(i) /\ updateEnable(i)
    BY <1>1, <2>1, MissMeansNoHit DEF updateEnable, Chosen
  <2>2. CASE Idle(i) /\ ~updateEnable(i)
    <3>1. Accepts(i) /\ NeedsFill(i)
      BY <1>3, <1>4, <2>2 DEF request, WritesLine, Idle
    <3>2. i \in accepted' /\ i \notin resume'
      BY <1>1, <1>2, <1>3, <1>4, <2>2, <3>1 DEF InIdle, WritesLine
    <3>3. cmd[i].op = "part" /\ cmd[i] # None /\ ~Bypassed(cmd[i])
      BY <3>1 DEF NeedsFill, Accepts, None
    <3> QED BY <3>2, <3>3
  <2>3. CASE state[i] = "UPDATE_1"
    <3>1. ~WritesLine(i)
      BY <2>3 DEF WritesLine, Accepts, Idle
    <3> QED BY <1>1, <1>2, <1>3, <1>4, <2>3, <3>1 DEF InUpdate
  <2> QED BY <1>3, <1>4, <2>1, <2>2, <2>3
<1>5. InUpdate(i)'
  <2> SUFFICES ASSUME nextState(i) = "UPDATE_1"
               PROVE  /\ cmd'[i] # None /\ ~Bypassed(cmd'[i])
                      /\ \/ Reads(cmd'[i]) /\ Chosen(i)' /\ \A j \in Together(i)' : ~hit(j)'
                         \/ cmd'[i].op = "part" /\ i \in accepted' /\ i \notin resume'
    BY <1>1 DEF InUpdate, Bypassed, Reads
  <2>1. /\ cmd'[i] = cmd[i] /\ Stays(i) /\ stall(i) /\ ~ack(i)
        /\ cmd[i] # None /\ ~Bypassed(cmd[i])
    BY <1>3, <1>4
  <2>2. ASSUME Reads(cmd[i]), Chosen(i), \A j \in Together(i) : ~hit(j)
        PROVE  Chosen(i)' /\ \A j \in Together(i)' : ~hit(j)'
    <3>1. Chosen(i)'
      BY <2>1, <2>2 DEF Chosen, Stays
    <3>2. ASSUME NEW j \in Together(i) PROVE ~hit(j)'
      <4>1. j \in Blocks /\ runs[j] = runs[i]
        BY DEF Together
      <4>2. stall(j)
        BY <2>1, <4>1, GroupAgrees
      <4>3. cmd'[j] = cmd[j]
        BY <4>1, <4>2, Moves
      <4> QED BY <2>1, <2>2, <4>3, NobodyElseFills
    <3> QED BY <2>1, <3>1, <3>2 DEF Stays
  <2> QED BY <1>4, <2>1, <2>2
<1>6. InBypass(i)'
  <2> SUFFICES ASSUME nextState(i) = "BYPASS"
               PROVE  Bypassed(cmd'[i])
    BY <1>1 DEF InBypass, Bypassed
  <2>1. (Idle(i) /\ request(i) # None /\ Bypassed(cmd[i])) \/ state[i] = "BYPASS"
    BY <1>1 DEF nextState, AfterAck, States
  <2>2. cmd'[i] = cmd[i]
    BY <2>1, Moves
  <2> QED BY <1>1, <2>1, <2>2 DEF InBypass
<1> QED BY <1>5, <1>6

LEMMA WaitStep ==
  ASSUME GroupInv, NEW new, Step(new), NEW i \in Blocks
  PROVE  InWait(i)'
<1>1. /\ state'[i] = nextState(i) /\ state[i] \in States
      /\ InUpdate(i) /\ InBypass(i) /\ InWrite(i) /\ InWait(i) /\ Taken(i)
  BY Moves DEF GroupInv, Controller, TypeOK
<1>2. /\ accepted' = {k \in Blocks : stall(k) /\ (k \in accepted \/ Accepts(k))}
      /\ sync'[i].fault = IF memSyncRegEna(i) THEN fault ELSE sync[i].fault
  BY DEF Step, Edge, ControllerEdge
<1> SUFFICES ASSUME nextState(i) = "WAIT_FOR_CPU"
             PROVE  \/ i \in accepted' \/ Bypassed(cmd'[i])
                    \/ Reads(cmd'[i]) /\ Chosen(i)' /\ sync'[i].fault
  BY <1>1 DEF InWait, Bypassed, Reads
<1>3. CASE state[i] = "WAIT_FOR_CPU"
  <2>1. stall(i) /\ cmd'[i] = cmd[i] /\ ~memSyncRegEna(i)
    BY <1>3, Moves, AckFacts DEF nextState, Idle, memSyncRegEna, ack
  <2>2. Reads(cmd[i]) /\ Chosen(i) => Chosen(i)'
    <3>1. Reads(cmd[i]) => Stays(i)
      BY DEF Step, Leaves, Reads, None
    <3> QED BY <2>1, <3>1 DEF Stays, Chosen
  <2> QED BY <1>1, <1>2, <1>3, <2>1, <2>2 DEF InWait
<1>4. CASE state[i] = "WRITE"
  <2>1. ack(i) /\ bus.cmd = buf[i]
    BY <1>4, AckFacts DEF nextState, Idle, ack, Pending
  <2>2. ~fault
    BY <1>1, <1>4, <2>1 DEF InWrite, fault
  <2> QED BY <1>2, <1>4, <2>1, <2>2 DEF nextState, AfterAck, Idle
<1>5. CASE state[i] = "UPDATE_1"
  <2>1. ack(i) /\ fault
    BY <1>5 DEF nextState, AfterAck, Idle
  <2>2. cmd'[i] = cmd[i] /\ stall(i) /\ Stays(i) /\ memSyncRegEna(i)
    BY <1>5, <2>1, Moves DEF memSyncRegEna
  <2> QED BY <1>1, <1>2, <1>5, <2>1, <2>2 DEF InUpdate, Stays, Chosen
<1>6. CASE state[i] = "BYPASS"
  BY <1>1, <1>6, Moves DEF InBypass
<1>7. CASE Idle(i)
  BY <1>7 DEF nextState, Idle
<1> QED BY <1>1, <1>3, <1>4, <1>5, <1>6, <1>7 DEF States, Idle

LEMMA PendingNext ==
  ASSUME NEW k \in Blocks
  PROVE  /\ state'[k] = "WRITE" => Pending(k)' = buf'[k]
         /\ state'[k] = "UPDATE_1" => Pending(k)' = Fetch(cmd'[k].addr)
         /\ state'[k] = "BYPASS" => Pending(k)' = cmd'[k]
<1>1. /\ state[k] = "WRITE" => Pending(k) = buf[k]
      /\ state[k] = "UPDATE_1" => Pending(k) = Fetch(cmd[k].addr)
      /\ state[k] = "BYPASS" => Pending(k) = cmd[k]
  BY DEF Pending
<1>2. (/\ state[k] = "WRITE" => Pending(k) = buf[k]
       /\ state[k] = "UPDATE_1" => Pending(k) = Fetch(cmd[k].addr)
       /\ state[k] = "BYPASS" => Pending(k) = cmd[k])'
  BY <1>1, PTL
<1> QED BY <1>2 DEF Fetch

LEMMA OnBusStep ==
  ASSUME GroupInv, NEW new, Step(new)
  PROVE  OnBus'
<1>0. PICK k \in Blocks : k = requestSelect
  BY SelectFacts DEF GroupInv
<1>1. sel' = k /\ (busy => k = sel)
  BY <1>0, SelectFacts DEF GroupInv, Step, Edge, BusEdge
<1>5. bus'.cmd = IF busy THEN bus.cmd ELSE granted
  BY BusMoves
<1>6. /\ state'[k] = nextState(k) /\ state[k] \in States
      /\ buf'[k] = IF nextState(k) # "WRITE" THEN None
                   ELSE IF WritesLine(k) THEN cmd[k] ELSE buf[k]
  BY <1>1, Moves DEF GroupInv, TypeOK, Step, Edge, ControllerEdge
<1>2. /\ state'[k] = "WRITE" => Pending(k)' = buf'[k]
      /\ state'[k] = "UPDATE_1" => Pending(k)' = Fetch(cmd'[k].addr)
      /\ state'[k] = "BYPASS" => Pending(k)' = cmd'[k]
  BY PendingNext
<1>7. ASSUME state[k] \in {"WRITE", "UPDATE_1", "BYPASS"}, ~ack(k)
      PROVE  state'[k] \in {"WRITE", "UPDATE_1", "BYPASS"} /\ Pending(k)' = Pending(k)
  <2>1. nextState(k) = state[k] /\ ~WritesLine(k)
    BY <1>7 DEF nextState, Idle, WritesLine, Accepts
  <2>2. CASE state[k] = "WRITE"
    BY <1>2, <1>6, <2>1, <2>2 DEF Pending
  <2>3. CASE state[k] # "WRITE"
    <3>1. cmd'[k] = cmd[k]
      BY <1>1, <1>7, <2>3, Moves
    <3> QED BY <1>2, <1>6, <1>7, <2>1, <2>3, <3>1 DEF Pending
  <2> QED BY <2>2, <2>3
<1>8. ASSUME bus'.cmd # None
      PROVE  state'[k] \in {"WRITE", "UPDATE_1", "BYPASS"} /\ bus'.cmd = Pending(k)'
  <2>1. CASE busy
    <3>1. ~ack(k) /\ state[k] \in {"WRITE", "UPDATE_1", "BYPASS"} /\ bus.cmd = Pending(k)
      BY <1>1, <2>1, AckFacts DEF busy, ack
    <3> QED BY <1>5, <1>7, <2>1, <3>1
  <2>2. CASE ~busy
    <3>1. bus'.cmd = request(k) /\ request(k) # None
      BY <1>0, <1>5, <1>8, <2>2 DEF granted
    <3>2. CASE Idle(k)
      <4>1. cmd'[k] = cmd[k]
        BY <1>1, <3>1, <3>2, Moves
      <4>2. WritesLine(k) => ~Bypassed(cmd[k])
        BY DEF WritesLine, Accepts
      <4>3. CASE Bypassed(cmd[k])
        BY <1>6, <3>1, <3>2, <4>1, <4>3, <1>2 DEF nextState, request, Idle
      <4>4. CASE WritesLine(k)
        BY <1>6, <3>1, <3>2, <4>1, <4>2, <4>4, <1>2 DEF nextState, request, Idle
      <4>5. CASE ~Bypassed(cmd[k]) /\ ~WritesLine(k)
        BY <1>6, <3>1, <3>2, <4>1, <4>5, <1>2 DEF nextState, request, Idle
      <4> QED BY <4>3, <4>4, <4>5
    <3>3. CASE ~Idle(k)
      <4>1. ~ack(k) /\ state[k] \in {"WRITE", "UPDATE_1", "BYPASS"} /\ request(k) = Pending(k)
        BY <1>6, <3>1, <3>3 DEF request, States, Idle
      <4> QED BY <1>7, <3>1, <4>1
    <3> QED BY <3>2, <3>3
  <2> QED BY <2>1, <2>2
<1>9. bus'.ready => bus'.cmd # None /\ bus'.age >= MinLatency
  BY BusMoves
<1> QED BY <1>1, <1>8, <1>9 DEF OnBus, Pending, Fetch

\* The type invariant of the cache and what holds between the controllers of
\* coupled groups are kept by every step.
LEMMA GroupStep ==
  ASSUME GroupInv, WritesMapped, [Next]_vars
  PROVE  GroupInv'
<1>1. CASE Next
  <2>1. PICK new : Step(new)
    BY <1>1, NextSteps DEF GroupInv
  <2>2. TypeOK' /\ Coupled' /\ OnBus'
    BY <2>1, TypeStep, CoupledStep, OnBusStep
  <2>3. \A i \in Blocks : /\ Taken(i)' /\ InIdle(i)' /\ InWrite(i)'
                          /\ InUpdate(i)' /\ InBypass(i)' /\ InWait(i)'
    BY <2>1, TakenStep, IdleStep, BufferHolds, FetchStep, WaitStep
  <2>4. Controller'
    BY <2>3 DEF Controller
  <2> QED BY <2>2, <2>4 DEF GroupInv
<1>2. CASE UNCHANGED vars
  <2> USE <1>2 DEF vars, cpuVars, blockVars
  <2>1. TypeOK' /\ Coupled'
    BY DEF GroupInv, TypeOK, Coupled
  <2>2. Controller'
    BY DEF GroupInv, Controller, Taken, InIdle, InWrite, InUpdate, InBypass, InWait,
           Idle, Chosen, Together, hit
  <2>3. Pending(sel)' = Pending(sel)
    BY DEF Pending
  <2>4. OnBus'
    BY <2>3 DEF GroupInv, OnBus
  <2> QED BY <2>1, <2>2, <2>4 DEF GroupInv
<1> QED BY <1>1, <1>2

LEMMA GroupInit ==
  ASSUME Init
  PROVE  GroupInv
<1>1. /\ runs \in [Blocks -> Contexts] /\ runs \in Placements
      /\ NumBlocks \in Nat \ {0} /\ 0 \in Blocks
  BY CacheAssumption DEF Init, Blocks
<1>2. /\ cmd = [i \in Blocks |-> None] /\ buf = [i \in Blocks |-> None]
      /\ state = [i \in Blocks |-> "IDLE"] /\ accepted = {} /\ resume = {} /\ doomed = {}
      /\ sel = 0 /\ bus = [cmd |-> None, age |-> 0, ready |-> FALSE]
  BY DEF Init
<1>3. TypeOK
  <2>1. program \in [Contexts -> Seq(Access)] /\ program \in Programs
    BY CacheAssumption DEF Init
  <2>2. \A c \in Contexts : program[c] \in Seq(Made(c))
    BY <2>1, ProgramsAreMade
  <2>3. <<0, 0>> \in Word
    BY DEF Word
  <2>4. mem \in [Addrs -> Word] /\ sync \in [Blocks -> [data : Word, fault : BOOLEAN]]
    BY <2>3 DEF Init
  <2>5. line \in [Blocks -> [addr : Nat, valid : BOOLEAN, data : Word]]
    BY <2>3 DEF Init
  <2>6. bus \in [cmd : Access \cup {None}, age : Nat, ready : BOOLEAN]
    BY <1>2
  <2>7. sel \in Blocks /\ state \in [Blocks -> States]
    BY <1>1, <1>2 DEF States
  <2>8. /\ cmd \in [Blocks -> Access \cup {None}] /\ buf \in [Blocks -> Access \cup {None}]
        /\ \A i \in Blocks : cmd[i] \in Commands(runs[i]) /\ buf[i] \in Commands(runs[i])
    BY <1>2 DEF Commands
  <2> QED BY <1>1, <1>2, <2>1, <2>2, <2>4, <2>5, <2>6, <2>7, <2>8 DEF TypeOK
<1>4. Coupled
  BY <1>2 DEF Coupled, Bypassed, None
<1>5. Controller
  BY <1>2 DEF Controller, Taken, InIdle, InWrite, InUpdate, InBypass, InWait
<1>6. OnBus
  BY <1>2 DEF OnBus
<1> QED BY <1>3, <1>4, <1>5, <1>6 DEF GroupInv

\* The invariant of the groups (types, what the blocks of a group have in
\* common, what each controller waits for, what the bus works on) holds for any
\* number of blocks, any coupling and any program whose buffered writes are not
\* answered by a fault.
THEOREM GroupsHold ==
  ASSUME WritesMapped
  PROVE  Spec => []GroupInv
<1>1. Init => GroupInv
  BY GroupInit
<1>2. GroupInv /\ [Next]_vars => GroupInv'
  BY GroupStep
<1> QED BY <1>1, <1>2, PTL DEF Spec

-----------------------------------------------------------------------------
(* The lines.                                                               *)

Granted(k) == bus.cmd # None /\ sel = k

\* The invalidation of the line by the write of another block is under way.
Stale(k) ==
  /\ Writes(bus.cmd) /\ bus.cmd.addr = line[k].addr /\ sel # k
  /\ k \in doomed \/ busy

\* What a block holds: the memory, with the write it has in its buffer.
Buffers(k)  == state[k] = "WRITE" /\ buf[k].addr = line[k].addr /\ ~Granted(k)
Expected(k) ==
  IF Buffers(k) THEN Merged(mem[line[k].addr], buf[k]) ELSE mem[line[k].addr]

LineInv ==
  \A k \in Blocks : line[k].valid =>
    /\ line[k].addr \in Addrs \ (Uncached \cup Unmapped)
    /\ Stale(k) \/ line[k].data = Expected(k)

\* What the bus does in a cycle.
LEMMA GrantFacts ==
  ASSUME GroupInv, NEW new, Step(new)
  PROVE  /\ requestSelect \in Blocks /\ sel' = requestSelect
         /\ bus'.cmd = granted /\ granted \in Access \cup {None}
         /\ granted # None => granted.addr \in Addrs
         /\ busy => granted = bus.cmd /\ requestSelect = sel
         /\ doomed' = Invalidated
         /\ ~busy /\ granted # None /\ MinLatency >= 2 => busy'
<1>1. requestSelect \in Blocks /\ sel' = requestSelect /\ doomed' = Invalidated
  BY SelectFacts DEF GroupInv, Step, Edge, BusEdge, LineEdge
<1>2. granted \in Access \cup {None} /\ (granted # None => granted.addr \in Addrs)
  BY <1>1, RequestFacts DEF granted
<1>3. ASSUME busy PROVE granted = bus.cmd /\ requestSelect = sel
  <2>1. requestSelect = sel
    BY <1>3, SelectFacts DEF GroupInv
  <2>2. /\ state[sel] \in {"WRITE", "UPDATE_1", "BYPASS"} /\ bus.cmd = Pending(sel)
        /\ ~ack(sel)
    BY <1>3, AckFacts DEF busy, ack
  <2>3. request(sel) = Pending(sel)
    BY <2>2 DEF request, Idle
  <2> QED BY <2>1, <2>2, <2>3 DEF granted
<1>4. bus'.cmd = granted
  BY <1>3, BusMoves
<1>5. ASSUME ~busy, granted # None, MinLatency >= 2 PROVE busy'
  <2>1. bus'.age \in 0..1 /\ (bus'.ready => bus'.age >= MinLatency)
    BY <1>5, BusMoves
  <2>2. MinLatency \in Nat
    BY CacheAssumption
  <2>3. ~bus'.ready
    BY <1>5, <2>1, <2>2
  <2> QED BY <1>4, <1>5, <2>3 DEF busy
<1> QED BY <1>1, <1>2, <1>3, <1>4, <1>5

\* How the memory changes.
LEMMA MemoryMoves ==
  ASSUME GroupInv, NEW new, Step(new), NEW a \in Addrs \ Unmapped
  PROVE  mem'[a] = IF ~busy /\ Writes(granted) /\ granted.addr = a
                   THEN Merged(mem[a], granted) ELSE mem[a]
<1>1. mem' = IF busy \/ ~Writes(granted) \/ granted.addr \in Unmapped THEN mem
             ELSE [mem EXCEPT ![granted.addr] = Merged(@, granted)]
  BY DEF Step, Edge, BusEdge
<1>2. mem \in [Addrs -> Word]
  BY DEF GroupInv, TypeOK
<1> QED BY <1>1, <1>2

\* A line that is valid after the cycle is what the block stored.
LEMMA LineMoves ==
  ASSUME GroupInv, NEW new, Step(new), NEW k \in Blocks, line'[k].valid
  PROVE  k \notin doomed /\ line'[k] = Stored(k)
<1>1. line'[k] = LET new0 == IF cmd'[k] # None THEN Stored(k) ELSE line[k]
                 IN IF k \in doomed THEN [new0 EXCEPT !.valid = FALSE] ELSE new0
  BY DEF Step, Edge, LineEdge
<1>2. ASSUME Stored(k) # line[k] PROVE cmd'[k] # None
  <2>1. CASE Fills(k)
    <3>1. state[k] = "UPDATE_1" /\ InUpdate(k)
      BY <2>1 DEF Fills, GroupInv, Controller
    <3> QED BY <3>1, Moves DEF InUpdate
  <2>2. CASE WritesLine(k)
    <3>1. Idle(k) /\ request(k) = cmd[k] /\ cmd[k] # None
      BY <2>2 DEF WritesLine, Accepts, request, Writes, None
    <3> QED BY <3>1, Moves
  <2> QED BY <1>2, <2>1, <2>2 DEF Stored
<1>3. k \notin doomed
  <2>1. SUFFICES ASSUME k \in doomed PROVE FALSE
    OBVIOUS
  <2>2. line' \in [Blocks -> [addr : Nat, valid : BOOLEAN, data : Word]]
    BY MemoryTypes
  <2>3. PICK l : line'[k] = [l EXCEPT !.valid = FALSE]
    BY <1>1, <2>1
  <2>4. line'[k] \in [addr : Nat, valid : BOOLEAN, data : Word]
    BY <2>2
  <2> QED BY <2>3, <2>4
<1> QED BY <1>1, <1>2, <1>3

\* A block whose write reaches the bus has it in its buffer.
LEMMA WriteIsBuffered ==
  ASSUME GroupInv, NEW k \in Blocks, Writes(request(k)), request(k).addr \notin Uncached
  PROVE  \/ WritesLine(k) /\ request(k) = cmd[k]
         \/ state[k] = "WRITE" /\ request(k) = buf[k] /\ ~ack(k)
<1>1. state[k] \in States /\ InBypass(k)
  BY DEF GroupInv, TypeOK, Controller
<1>2. ~Writes(None) /\ \A a : ~Writes(Fetch(a))
  BY DEF Writes, None, Fetch
<1>3. CASE Idle(k)
  <2>1. request(k) = cmd[k] => ~Bypassed(cmd[k])
    BY DEF Bypassed
  <2> QED BY <1>2, <1>3, <2>1 DEF request
<1>4. CASE ~Idle(k)
  <2>1. request(k) = Pending(k) /\ ~ack(k) /\ state[k] # "WAIT_FOR_CPU"
    BY <1>2, <1>4 DEF request
  <2>2. state[k] # "BYPASS"
    BY <1>1, <2>1 DEF Pending, InBypass, Bypassed
  <2>3. state[k] # "UPDATE_1"
    BY <1>2, <2>1 DEF Pending
  <2> QED BY <1>1, <1>4, <2>1, <2>2, <2>3 DEF Pending, States, Idle
<1> QED BY <1>3, <1>4

\* A line that the block leaves alone.
LEMMA UntouchedLine ==
  ASSUME GroupInv, LineInv, MinLatency >= 2, NEW new, Step(new), NEW k \in Blocks,
         ~Fills(k), ~WritesLine(k), line'[k].valid
  PROVE  /\ line'[k].addr \in Addrs \ (Uncached \cup Unmapped)
         /\ Stale(k)' \/ line'[k].data = Expected(k)'
<1>1. line'[k] = line[k] /\ k \notin doomed
  BY LineMoves DEF Stored
<1>2. line[k].addr \in Addrs \ (Uncached \cup Unmapped) /\ (Stale(k) \/ line[k].data = Expected(k))
  BY <1>1 DEF LineInv
<1> SUFFICES Stale(k)' \/ line'[k].data = Expected(k)'
  BY <1>1, <1>2
<1>3. PICK a \in Addrs : a = line[k].addr /\ a \notin Uncached /\ a \notin Unmapped
  BY <1>2
<1>4. /\ requestSelect \in Blocks /\ sel' = requestSelect /\ bus'.cmd = granted
      /\ (busy => granted = bus.cmd /\ requestSelect = sel) /\ doomed' = Invalidated
  BY GrantFacts
<1>5. granted = request(requestSelect)
  BY DEF granted
<1>6. ASSUME Writes(granted), granted.addr = a, requestSelect # k
      PROVE  Stale(k)'
  <2>1. k \in doomed'
    BY <1>3, <1>4, <1>6 DEF Invalidated
  <2> QED BY <1>1, <1>3, <1>4, <1>6, <2>1 DEF Stale, Writes
<1>7. CASE Stale(k)
  BY <1>1, <1>3, <1>4, <1>6, <1>7 DEF Stale
<1>8. CASE ~Stale(k)
  <2>1. line[k].data = Expected(k)
    BY <1>2, <1>8
  <2>2. /\ state'[k] = nextState(k) /\ state[k] \in States /\ InWrite(k)
        /\ buf'[k] = IF nextState(k) # "WRITE" THEN None
                     ELSE IF WritesLine(k) THEN cmd[k] ELSE buf[k]
    BY Moves DEF GroupInv, TypeOK, Controller, Step, Edge, ControllerEdge
  <2>3. state'[k] = "WRITE" <=> state[k] = "WRITE" /\ ~ack(k)
    BY <2>2 DEF nextState, AfterAck, States, Idle
  <2>4. state'[k] = "WRITE" => buf'[k] = buf[k]
    BY <2>2
  <2>5. Granted(k)' <=> granted # None /\ requestSelect = k
    BY <1>4 DEF Granted
  <2>6. Granted(k) /\ ~ack(k) => busy /\ bus.cmd # None
    BY DEF Granted, ack, busy
  <2>7. mem'[a] = IF ~busy /\ Writes(granted) /\ granted.addr = a
                  THEN Merged(mem[a], granted) ELSE mem[a]
    BY <1>3, MemoryMoves
  <2>8. CASE ~busy /\ Writes(granted) /\ granted.addr = a /\ requestSelect = k
    <3>1. state[k] = "WRITE" /\ granted = buf[k] /\ ~ack(k)
      BY <1>3, <1>5, <2>8, WriteIsBuffered
    <3>2. ~Granted(k)
      BY <2>6, <2>8, <3>1
    <3>3. Buffers(k)
      BY <1>3, <2>8, <3>1, <3>2 DEF Buffers
    <3>4. line[k].data = mem'[a]
      BY <1>3, <2>1, <2>7, <2>8, <3>1, <3>3 DEF Expected
    <3>5. granted # None
      BY <2>8 DEF Writes, None
    <3>6. Expected(k)' = mem'[a]
      BY <1>1, <1>3, <2>5, <2>8, <3>5 DEF Expected, Buffers
    <3> QED BY <1>1, <3>4, <3>6
  <2>9. CASE ~(Writes(granted) /\ granted.addr = a)
    <3>1. mem'[a] = mem[a]
      BY <2>7, <2>9
    <3>2. ASSUME state[k] = "WRITE", ~ack(k), buf[k].addr = a
          PROVE  Granted(k)' <=> Granted(k)
      <4>1. CASE busy
        BY <1>4, <2>5, <2>6, <4>1 DEF Granted, busy
      <4>2. CASE ~busy
        <5>1. ~Granted(k)
          BY <2>6, <3>2, <4>2
        <5>2. request(k) = buf[k] /\ Writes(buf[k])
          BY <2>2, <3>2 DEF request, Idle, Pending, InWrite
        <5>3. requestSelect # k
          BY <1>5, <2>9, <3>2, <5>2
        <5> QED BY <2>5, <5>1, <5>3
      <4> QED BY <4>1, <4>2
    <3>3. ack(k) => Granted(k)
      BY DEF ack, Granted
    <3>4. Buffers(k)' <=> Buffers(k)
      BY <1>1, <1>3, <2>3, <2>4, <3>2, <3>3 DEF Buffers
    <3>5. Buffers(k)' => buf'[k] = buf[k]
      BY <2>4 DEF Buffers
    <3>6. Expected(k)' = Expected(k)
      BY <1>1, <1>3, <3>1, <3>4, <3>5 DEF Expected, Merged, Covers
    <3> QED BY <1>1, <2>1, <3>6
  <2>10. CASE busy /\ Writes(granted) /\ granted.addr = a /\ requestSelect = k
    <3>1. mem'[a] = mem[a]
      BY <2>7, <2>10
    <3>2. Granted(k) /\ granted # None
      BY <1>4, <2>10 DEF Granted, busy
    <3>3. Granted(k)'
      BY <2>5, <2>10, <3>2
    <3>4. Expected(k)' = Expected(k)
      BY <1>1, <1>3, <3>1, <3>2, <3>3 DEF Expected, Buffers
    <3> QED BY <1>1, <2>1, <3>4
  <2> QED BY <1>6, <2>8, <2>9, <2>10
<1> QED BY <1>7, <1>8

\* A line that the block fills from the memory.
LEMMA FilledLine ==
  ASSUME GroupInv, MinLatency >= 2, NEW new, Step(new), NEW k \in Blocks,
         Fills(k), line'[k].valid
  PROVE  /\ line'[k].addr \in Addrs \ (Uncached \cup Unmapped)
         /\ Stale(k)' \/ line'[k].data = Expected(k)'
<1>1. k \notin doomed
      /\ line'[k] = [addr |-> cmd[k].addr, valid |-> TRUE, data |-> mem[bus.cmd.addr]]
  BY LineMoves DEF Stored
<1>2. /\ state[k] = "UPDATE_1" /\ ack(k) /\ ~fault /\ ~busy /\ InUpdate(k)
      /\ state'[k] = nextState(k)
  BY Moves DEF Fills, ack, busy, GroupInv, Controller
<1>3. bus.cmd = Fetch(cmd[k].addr) /\ bus.cmd.addr \in Addrs
  BY <1>2, AckFacts DEF ack, Pending
<1>4. PICK a \in Addrs : a = bus.cmd.addr /\ a = cmd[k].addr /\ a \notin Uncached \cup Unmapped
  BY <1>2, <1>3 DEF Fetch, fault, InUpdate, Bypassed, Reads
<1>5. line'[k].addr = a /\ line'[k].data = mem[a]
  BY <1>1, <1>4
<1>6. ~Buffers(k)'
  <2>1. nextState(k) # "WRITE"
    BY <1>2 DEF nextState, AfterAck, Idle
  <2> QED BY <1>2, <2>1 DEF Buffers
<1>7. mem'[a] = IF Writes(granted) /\ granted.addr = a THEN Merged(mem[a], granted) ELSE mem[a]
  BY <1>2, <1>4, MemoryMoves
<1>8. ASSUME Writes(granted), granted.addr = a PROVE Stale(k)'
  <2>1. requestSelect # k
    <3>1. request(k) = None
      BY <1>2 DEF request, Idle
    <3> QED BY <1>8, <3>1 DEF granted, Writes, None
  <2>2. busy' /\ sel' # k /\ bus'.cmd = granted
    BY <1>2, <1>8, <2>1, GrantFacts DEF Writes, None
  <2> QED BY <1>5, <1>8, <2>2 DEF Stale, Writes
<1>9. Stale(k)' \/ line'[k].data = Expected(k)'
  BY <1>5, <1>6, <1>7, <1>8 DEF Expected
<1> QED BY <1>4, <1>5, <1>9

\* A line that the block writes.
LEMMA WrittenLine ==
  ASSUME GroupInv, LineInv, WritesMapped, MinLatency >= 2, NEW new, Step(new),
         NEW k \in Blocks, WritesLine(k), line'[k].valid
  PROVE  /\ line'[k].addr \in Addrs \ (Uncached \cup Unmapped)
         /\ Stale(k)' \/ line'[k].data = Expected(k)'
<1>1. /\ Idle(k) /\ Writes(cmd[k]) /\ ~Bypassed(cmd[k]) /\ cmd[k] # None
      /\ cmd[k].addr \notin Uncached /\ request(k) = cmd[k]
      /\ cmd[k].op = "write" \/ hit(k)
  BY DEF WritesLine, Accepts, NeedsFill, Bypassed, Writes, None, request
<1>2. k \notin doomed
      /\ line'[k] = [addr |-> cmd[k].addr, valid |-> TRUE, data |-> Merged(line[k].data, cmd[k])]
  BY <1>1, LineMoves DEF Stored, Fills, Idle
<1>3. cmd[k] \in Made(runs[k]) /\ runs[k] \in Contexts
  BY <1>1, CacheAssumption DEF GroupInv, TypeOK, Commands
<1>4. PICK a \in Addrs : a = cmd[k].addr /\ a \notin Uncached \cup Unmapped
  BY <1>1, <1>3, MadeIsAccess DEF WritesMapped
<1>5. line'[k].addr = a /\ line'[k].data = Merged(line[k].data, cmd[k])
  BY <1>2, <1>4
<1>6. state'[k] = "WRITE" /\ buf'[k] = cmd[k]
  <2>1. nextState(k) = "WRITE"
    BY <1>1 DEF nextState, Idle
  <2> QED BY <2>1, Moves DEF Step, Edge, ControllerEdge
<1>7. bus.cmd # None => sel # k
  BY <1>1, AckFacts DEF Idle
<1>8. mem'[a] = IF ~busy /\ Writes(granted) /\ granted.addr = a
                THEN Merged(mem[a], granted) ELSE mem[a]
  BY <1>4, MemoryMoves
<1>9. /\ requestSelect \in Blocks /\ sel' = requestSelect /\ bus'.cmd = granted
      /\ (busy => granted = bus.cmd /\ requestSelect = sel)
      /\ (~busy /\ granted # None => busy')
  BY GrantFacts
<1>10. Granted(k)' <=> ~busy /\ requestSelect = k
  <2>1. requestSelect = k => granted = cmd[k]
    BY <1>1 DEF granted
  <2>2. Granted(k)' <=> granted # None /\ requestSelect = k
    BY <1>9 DEF Granted
  <2> QED BY <1>1, <1>7, <1>9, <2>1, <2>2 DEF busy
<1>11. Buffers(k)' <=> ~Granted(k)'
  BY <1>4, <1>5, <1>6 DEF Buffers
<1>12. ASSUME ~busy, Writes(granted), granted.addr = a, requestSelect # k
       PROVE  Stale(k)'
  BY <1>5, <1>9, <1>12 DEF Stale, Writes, None
<1>13. ASSUME busy, Stale(k), line[k].addr = a PROVE Stale(k)'
  <2>1. Writes(granted) /\ granted.addr = a /\ requestSelect # k
    BY <1>9, <1>13 DEF Stale
  <2>2. k \in doomed'
    BY <1>9, <1>13, <2>1, GrantFacts DEF Invalidated
  <2> QED BY <1>5, <1>9, <2>1, <2>2 DEF Stale, Writes
<1>14. ASSUME ~(~busy /\ Writes(granted) /\ granted.addr = a /\ requestSelect # k), ~Stale(k)'
       PROVE  Merged(line[k].data, cmd[k]) = Merged(mem[a], cmd[k])
  <2>1. CASE cmd[k].op = "write"
    BY <2>1 DEF Merged, Covers
  <2>2. CASE hit(k)
    <3>1. line[k].valid /\ line[k].addr = a
      BY <1>4, <2>2 DEF hit
    <3>2. ~Stale(k)
      BY <1>2, <1>13, <1>14, <3>1 DEF Stale
    <3>3. ~Buffers(k)
      BY <1>1 DEF Buffers, Idle
    <3> QED BY <3>1, <3>2, <3>3 DEF LineInv, Expected
  <2> QED BY <1>1, <2>1, <2>2
<1>15. ASSUME ~(~busy /\ Writes(granted) /\ granted.addr = a /\ requestSelect # k)
       PROVE  Expected(k)' = Merged(mem[a], cmd[k])
  <2>1. CASE ~busy /\ requestSelect = k
    <3>1. granted = cmd[k]
      BY <1>1, <2>1 DEF granted
    <3>2. mem'[a] = Merged(mem[a], cmd[k])
      BY <1>1, <1>4, <1>8, <2>1, <3>1
    <3>3. ~Buffers(k)'
      BY <1>10, <1>11, <2>1
    <3> QED BY <1>5, <3>2, <3>3 DEF Expected
  <2>2. CASE ~(~busy /\ requestSelect = k)
    <3>1. mem'[a] = mem[a]
      BY <1>8, <1>15, <2>2
    <3>2. Buffers(k)'
      BY <1>10, <1>11, <2>2
    <3>3. Expected(k)' = Merged(mem'[line'[k].addr], buf'[k])
      BY <3>2 DEF Expected, Merged, Covers
    <3> QED BY <1>5, <1>6, <3>1, <3>3
  <2> QED BY <2>1, <2>2
<1>16. Stale(k)' \/ line'[k].data = Expected(k)'
  BY <1>5, <1>12, <1>14, <1>15
<1> QED BY <1>4, <1>5, <1>16

LEMMA LineStep ==
  ASSUME GroupInv, LineInv, WritesMapped, MinLatency >= 2, [Next]_vars
  PROVE  LineInv'
<1>1. CASE Next
  <2>1. PICK new : Step(new)
    BY <1>1, NextSteps DEF GroupInv
  <2>2. ASSUME NEW k \in Blocks, line'[k].valid
        PROVE  /\ line'[k].addr \in Addrs \ (Uncached \cup Unmapped)
               /\ Stale(k)' \/ line'[k].data = Expected(k)'
    BY <2>1, <2>2, UntouchedLine, FilledLine, WrittenLine
  <2> QED BY <2>2 DEF LineInv
<1>2. CASE UNCHANGED vars
  <2> USE <1>2 DEF vars, cpuVars, blockVars
  <2>1. ASSUME NEW k \in Blocks PROVE (Stale(k)' <=> Stale(k)) /\ Expected(k)' = Expected(k)
    BY DEF Stale, busy, Writes, Expected, Buffers, Granted, Merged, Covers
  <2> QED BY <2>1 DEF LineInv
<1> QED BY <1>1, <1>2

\* Every valid copy is what the memory holds once the writes have settled.
LEMMA LinesAreCoherent ==
  ASSUME GroupInv, LineInv
  PROVE  Coherent
<1> SUFFICES ASSUME NEW i \in Blocks, line[i].valid, Settled(line[i].addr)
             PROVE  line[i].data = mem[line[i].addr]
  BY DEF Coherent
<1>1. Stale(i) \/ line[i].data = Expected(i)
  BY DEF LineInv
<1>2. ~Buffers(i)
  <2>1. SUFFICES ASSUME Buffers(i) PROVE FALSE
    OBVIOUS
  <2>2. state[i] = "WRITE" /\ buf[i].addr = line[i].addr /\ buf[i] # None
    BY <2>1 DEF Buffers, GroupInv, Controller, InWrite
  <2> QED BY <2>2 DEF Settled, UnderWay
<1>3. ~Stale(i)
  <2>1. SUFFICES ASSUME Stale(i) PROVE FALSE
    OBVIOUS
  <2>2. Writes(bus.cmd) /\ bus.cmd.addr = line[i].addr /\ bus.cmd # None
    BY <2>1 DEF Stale, Writes, None
  <2>3. /\ state[sel] \in {"WRITE", "UPDATE_1", "BYPASS"} /\ bus.cmd = Pending(sel)
        /\ sel \in Blocks
    BY <2>2, AckFacts DEF GroupInv, TypeOK
  <2>4. state[sel] # "UPDATE_1"
    BY <2>2, <2>3 DEF Pending, Fetch, Writes
  <2>5. UnderWay(sel) = bus.cmd
    BY <2>3, <2>4 DEF Pending, UnderWay
  <2> QED BY <2>2, <2>3, <2>5 DEF Settled
<1> QED BY <1>1, <1>2, <1>3 DEF Expected

\* Coherent for any number of blocks, any coupling, also while parts of it
\* change, any programs and any timing of the bus.  The invalidation of a line
\* takes two cycles, so the bus must not be done with a write in one.
THEOREM CacheIsCoherent ==
  ASSUME WritesMapped, MinLatency >= 2
  PROVE  Spec => []Coherent
<1>1. Init => GroupInv /\ LineInv
  <2>1. Init => LineInv
    BY DEF Init, LineInv
  <2> QED BY <2>1, GroupInit
<1>2. GroupInv /\ LineInv /\ [Next]_vars => (GroupInv /\ LineInv)'
  BY GroupStep, LineStep
<1>3. GroupInv /\ LineInv => Coherent
  BY LinesAreCoherent
<1> QED BY <1>1, <1>2, <1>3, PTL DEF Spec

-----------------------------------------------------------------------------
(* Reads return the latest write.  With more than two coupled groups beside  *)
(* others this is false, so the groups are uncoupled here, or there are at   *)
(* most two.                                                                 *)

Uncoupled(p) == \A i, j \in Blocks : p[i] = p[j] => i = j
FewGroups == NumBlocks <= 2 \/ \A p \in Placements : Uncoupled(p)

Others(i) == Together(i) \ {i}

\* A block works on the access of its group: it fetches a line, for a read or
\* for a part of a word to be written.
Owns(i) == state[i] = "UPDATE_1" \/ (i \in accepted /\ i \notin resume)

\* The line of a block that buffers a write is the written one.
BufferInv ==
  \A k \in Blocks : state[k] = "WRITE" =>
    /\ line[k].addr = buf[k].addr
    /\ line[k].valid => \A h \in 1..2 : Covers(buf[k], h) => line[k].data[h] = buf[k].v

DoomInv == doomed # {} => Writes(bus.cmd)

\* While a block works on an access no other one has the line, and only a write
\* that the memory works on can still be in another buffer.
OwnerInv ==
  \A i \in Blocks : \A j \in Others(i) : Owns(i) =>
    /\ ~hit(j)
    /\ state[j] = "WRITE" /\ buf[j].addr = cmd[i].addr => Granted(j)

\* A block that has lost the line of a write it still buffers is next at the
\* bus: the other block's write is there.
AloneInv ==
  \A j \in Blocks : \A i \in Others(j) :
    state[j] = "WRITE" /\ ~Granted(j) /\ (~line[j].valid \/ j \in doomed) =>
      Granted(i) /\ Writes(bus.cmd)

\* Two copies of a line that a block of the group writes: the group sees the
\* written one, or the other one is a later write.
PairInv ==
  \A j \in Blocks : \A i \in Others(j) :
    state[j] = "WRITE" /\ line[i].valid /\ line[i].addr = buf[j].addr =>
      \/ i < j /\ line[j].valid /\ state[i] # "WRITE" /\ (j \in doomed => i \in doomed)
      \/ Granted(j) /\ ~line[j].valid /\ state[i] = "WRITE" /\ buf[i].op = "write"

CopyInv == GroupInv /\ BufferInv /\ DoomInv /\ OwnerInv /\ AloneInv /\ PairInv

\* With few groups a block has at most one other in its group, and then there
\* are only these two.
LEMMA OtherFacts ==
  ASSUME FewGroups, runs \in Placements, NEW i \in Blocks, NEW j \in Others(i)
  PROVE  /\ j \in Blocks /\ i # j /\ runs[i] = runs[j] /\ j \in Together(i)
         /\ i \in Together(j) /\ i \in Others(j)
         /\ \A k \in Blocks : k = i \/ k = j
<1>1. j \in Blocks /\ i # j /\ runs[i] = runs[j]
  BY DEF Others, Together
<1>2. NumBlocks <= 2
  BY <1>1 DEF FewGroups, Uncoupled
<1>3. ASSUME NEW k \in Blocks PROVE k = i \/ k = j
  <2>1. \A l \in Blocks : l = 0 \/ l = 1
    BY <1>2, CacheAssumption DEF Blocks
  <2> QED BY <1>1, <2>1
<1> QED BY <1>1, <1>3 DEF Others, Together

\* What a block that is not idle does with its write.
LEMMA WriteMoves ==
  ASSUME GroupInv, NEW new, Step(new), NEW k \in Blocks
  PROVE  /\ state'[k] = "WRITE" <=> WritesLine(k) \/ (state[k] = "WRITE" /\ ~ack(k))
         /\ WritesLine(k) => buf'[k] = cmd[k]
         /\ state[k] = "WRITE" /\ ~ack(k) => buf'[k] = buf[k] /\ ~WritesLine(k)
         /\ state'[k] = "WRITE" => Stays(k)
<1>1. /\ state'[k] = nextState(k) /\ state[k] \in States
      /\ buf'[k] = IF nextState(k) # "WRITE" THEN None
                   ELSE IF WritesLine(k) THEN cmd[k] ELSE buf[k]
      /\ Stays(k) \/ Leaves(k)
  BY Moves DEF GroupInv, TypeOK, Step, Edge, ControllerEdge
<1>2. WritesLine(k) => Idle(k) /\ request(k) = cmd[k] /\ cmd[k] # None /\ ~Bypassed(cmd[k])
  BY DEF WritesLine, Accepts, request, Writes, None
<1>3. nextState(k) = "WRITE" <=> WritesLine(k) \/ (state[k] = "WRITE" /\ ~ack(k))
  BY <1>1, <1>2 DEF nextState, AfterAck, States, Idle
<1>4. state[k] = "WRITE" => ~Idle(k)
  BY DEF Idle
<1>5. Leaves(k) => nextState(k) # "WRITE"
  BY <1>2, <1>3, <1>4 DEF Leaves
<1> QED BY <1>1, <1>2, <1>3, <1>4, <1>5

\* Which lines a cycle brings: those of fills and of writes.
LEMMA LineOrigin ==
  ASSUME GroupInv, NEW new, Step(new), NEW k \in Blocks
  PROVE  /\ line'[k].valid /\ Fills(k) =>
              line'[k].addr = cmd[k].addr /\ line'[k].data = mem[bus.cmd.addr]
         /\ line'[k].valid /\ WritesLine(k) =>
              line'[k].addr = cmd[k].addr /\ line'[k].data = Merged(line[k].data, cmd[k])
         /\ line'[k].valid /\ ~Fills(k) /\ ~WritesLine(k) => line'[k] = line[k]
         /\ line'[k].valid => k \notin doomed
         /\ ~Fills(k) /\ ~WritesLine(k) => line'[k].addr = line[k].addr
         /\ ~Fills(k) /\ ~WritesLine(k) /\ k \notin doomed => line'[k].valid = line[k].valid
         /\ WritesLine(k) => line'[k].addr = cmd[k].addr
         /\ WritesLine(k) /\ k \notin doomed => line'[k].valid
         /\ ~(Fills(k) /\ WritesLine(k))
<1>1. ~(Fills(k) /\ WritesLine(k))
  BY DEF Fills, WritesLine, Accepts, Idle
<1>2. line'[k] = LET new0 == IF cmd'[k] # None THEN Stored(k) ELSE line[k]
                 IN IF k \in doomed THEN [new0 EXCEPT !.valid = FALSE] ELSE new0
  BY DEF Step, Edge, LineEdge
<1>3. line[k] \in [addr : Nat, valid : BOOLEAN, data : Word]
  BY DEF GroupInv, TypeOK
<1>4. ~Fills(k) /\ ~WritesLine(k) =>
        line'[k] = IF k \in doomed THEN [line[k] EXCEPT !.valid = FALSE] ELSE line[k]
  BY <1>2 DEF Stored
<1>5. ~Fills(k) /\ ~WritesLine(k) =>
        /\ line'[k].addr = line[k].addr
        /\ k \notin doomed => line'[k].valid = line[k].valid
  BY <1>3, <1>4
<1>6. ASSUME WritesLine(k)
      PROVE  line'[k].addr = cmd[k].addr /\ (k \notin doomed => line'[k].valid)
  <2>1. Idle(k) /\ request(k) = cmd[k] /\ cmd[k] # None
    BY <1>6 DEF WritesLine, Accepts, request, Writes, None
  <2>2. cmd'[k] = cmd[k]
    BY <2>1, Moves
  <2>3. Stored(k) = [addr |-> cmd[k].addr, valid |-> TRUE, data |-> Merged(line[k].data, cmd[k])]
    BY <1>1, <1>6 DEF Stored
  <2> QED BY <1>2, <2>1, <2>2, <2>3
<1>7. line'[k].valid => k \notin doomed /\ line'[k] = Stored(k)
  BY LineMoves
<1>8. line'[k].valid /\ Fills(k) =>
              line'[k].addr = cmd[k].addr /\ line'[k].data = mem[bus.cmd.addr]
  BY <1>7 DEF Stored
<1>9. line'[k].valid /\ WritesLine(k) =>
              line'[k].addr = cmd[k].addr /\ line'[k].data = Merged(line[k].data, cmd[k])
  BY <1>1, <1>7 DEF Stored
<1>10. line'[k].valid /\ ~Fills(k) /\ ~WritesLine(k) => line'[k] = line[k]
  BY <1>7 DEF Stored
<1> QED BY <1>1, <1>5, <1>6, <1>7, <1>8, <1>9, <1>10

LEMMA BufferStep2 ==
  ASSUME GroupInv, BufferInv, NEW new, Step(new)
  PROVE  BufferInv'
<1> SUFFICES ASSUME NEW k \in Blocks, state'[k] = "WRITE"
             PROVE  /\ line'[k].addr = buf'[k].addr
                    /\ line'[k].valid =>
                         \A h \in 1..2 : Covers(buf'[k], h) => line'[k].data[h] = buf'[k].v
  BY DEF BufferInv, Covers
<1>1. CASE WritesLine(k)
  <2>1. buf'[k] = cmd[k] /\ line'[k].addr = cmd[k].addr
    BY <1>1, WriteMoves, LineOrigin
  <2>2. line'[k].valid => line'[k].data = Merged(line[k].data, cmd[k])
    BY <1>1, LineOrigin
  <2> QED BY <2>1, <2>2 DEF Merged
<1>2. CASE ~WritesLine(k)
  <2>1. state[k] = "WRITE" /\ buf'[k] = buf[k] /\ ~Fills(k)
    BY <1>2, WriteMoves DEF Fills
  <2>2. line'[k].addr = line[k].addr /\ (line'[k].valid => line'[k] = line[k])
    BY <1>2, <2>1, LineOrigin
  <2> QED BY <2>1, <2>2 DEF BufferInv
<1> QED BY <1>1, <1>2

LEMMA DoomStep ==
  ASSUME GroupInv, NEW new, Step(new)
  PROVE  DoomInv'
<1>1. doomed' # {} => Writes(granted)
  BY GrantFacts DEF Invalidated
<1>2. bus'.cmd = granted
  BY GrantFacts
<1> QED BY <1>1, <1>2 DEF DoomInv, Writes

\* A write that the memory works on stays there until it is acknowledged.
LEMMA GrantStays ==
  ASSUME GroupInv, NEW new, Step(new), NEW k \in Blocks, Granted(k), ~ack(k)
  PROVE  busy /\ Granted(k)' /\ bus'.cmd = bus.cmd
<1>1. busy
  BY DEF Granted, ack, busy
<1>2. sel' = sel /\ bus'.cmd = bus.cmd
  BY <1>1, GrantFacts
<1> QED BY <1>1, <1>2 DEF Granted

\* The blocks of a group have the same access, if it is a cached one.
LEMMA GroupCommand ==
  ASSUME GroupInv, NEW i \in Blocks, NEW j \in Together(i), cmd[i] # None, ~Bypassed(cmd[i])
  PROVE  j \in Blocks /\ runs[i] = runs[j] /\ cmd[j] = cmd[i]
BY DEF GroupInv, Coupled, Together

\* One block of a group works on an access.
LEMMA OwnsAlone ==
  ASSUME GroupInv, NEW i \in Blocks, NEW j \in Others(i), Owns(i)
  PROVE  ~Fills(j) /\ ~WritesLine(j)
<1>1. j \in Blocks /\ i # j /\ runs[i] = runs[j] /\ j \in Together(i) /\ i \in Together(j)
  BY DEF Others, Together
<1>2. /\ InUpdate(i) /\ InUpdate(j) /\ Taken(i) /\ Coupled /\ runs \in Placements
  BY <1>1 DEF GroupInv, Controller, TypeOK
<1>3. cmd[i] # None /\ ~Bypassed(cmd[i])
  BY <1>2 DEF Owns, InUpdate, Taken, Writes, None
<1>4. cmd[j] = cmd[i]
  BY <1>1, <1>3, GroupCommand
<1>5. \/ Reads(cmd[i]) /\ Chosen(i)
      \/ Writes(cmd[i]) /\ i \in accepted
  BY <1>2 DEF Owns, InUpdate, Taken, Writes
<1>6. ~Fills(j)
  <2>1. SUFFICES ASSUME state[j] = "UPDATE_1" PROVE FALSE
    BY DEF Fills
  <2>2. CASE Reads(cmd[i]) /\ Chosen(i)
    BY <1>1, <1>2, <1>4, <2>1, <2>2, OneIsChosen DEF InUpdate, Reads
  <2>3. CASE Writes(cmd[i]) /\ i \in accepted
    BY <1>1, <1>2, <1>4, <2>1, <2>3 DEF InUpdate, Reads, Writes, Coupled
  <2> QED BY <1>5, <2>2, <2>3
<1>7. ~WritesLine(j)
  <2>1. SUFFICES ASSUME Accepts(j) PROVE FALSE
    BY DEF WritesLine
  <2>2. i \in accepted /\ j \notin accepted
    BY <1>1, <1>2, <1>4, <1>5, <2>1 DEF Accepts, Reads, Writes, Coupled
  <2>3. writePrio(i) = 3 /\ writePrio(j) \in {1, 2}
    BY <2>1, <2>2 DEF writePrio, Accepts, Idle
  <2> QED BY <1>1, <2>1, <2>3 DEF Accepts, handleWrite
<1> QED BY <1>6, <1>7

\* A block that starts to fetch a line.
Starts(i) ==
  /\ Idle(i) /\ request(i) # None /\ ~Bypassed(cmd[i]) /\ ~WritesLine(i)
  /\ i \notin accepted

LEMMA StartsAlone ==
  ASSUME GroupInv, NEW i \in Blocks, NEW j \in Others(i), Starts(i)
  PROVE  /\ cmd[i] # None /\ cmd[j] = cmd[i] /\ ~hit(j)
         /\ ~Fills(j) /\ ~WritesLine(j)
<1>1. j \in Blocks /\ i # j /\ runs[i] = runs[j] /\ j \in Together(i) /\ i \in Together(j)
  BY DEF Others, Together
<1>2. /\ InUpdate(j) /\ Coupled /\ runs \in Placements
  BY <1>1 DEF GroupInv, Controller, TypeOK
<1>3. CASE updateEnable(i)
  <2>1. /\ Reads(cmd[i]) /\ cmd[i] # None /\ ~hit(j) /\ cmd[j] = cmd[i] /\ Chosen(i)
    BY <1>1, <1>2, <1>3, MissMeansNoHit DEF updateEnable, Chosen
  <2>2. ~Fills(j)
    BY <1>1, <1>2, <2>1, OneIsChosen DEF Fills, InUpdate, Reads
  <2>3. ~WritesLine(j)
    BY <2>1 DEF WritesLine, Accepts, Reads, Writes
  <2> QED BY <2>1, <2>2, <2>3
<1>4. CASE Accepts(i) /\ NeedsFill(i) /\ ~updateEnable(i)
  <2>1. cmd[i] # None /\ cmd[j] = cmd[i] /\ Writes(cmd[i])
    BY <1>1, <1>4, GroupCommand DEF Accepts, Writes, None, Starts
  <2>2. writePrio(i) = 1
    BY <1>4 DEF writePrio, Starts, Accepts, NeedsFill, Idle
  <2>3. writePrio(j) \in {0, 1}
    <3>1. writePrio(j) < 1 \/ writePrio(j) = 1
      BY <1>1, <1>4, <2>2 DEF Accepts, handleWrite
    <3> QED BY <1>1, <3>1, PrioRange
  <2>4. ~hit(j) /\ j \notin accepted /\ state[j] # "UPDATE_1"
    BY <2>3 DEF writePrio
  <2>5. ~WritesLine(j)
    BY <1>1, <1>4, OneHandles DEF WritesLine, Accepts
  <2> QED BY <2>1, <2>4, <2>5 DEF Fills
<1> QED BY <1>3, <1>4 DEF Starts, request, WritesLine

LEMMA OwnerMoves ==
  ASSUME GroupInv, NEW new, Step(new), NEW i \in Blocks, Owns(i)'
  PROVE  /\ Owns(i) \/ Starts(i)
         /\ stall(i) /\ Stays(i) /\ cmd'[i] = cmd[i] /\ cmd[i] # None /\ ~Bypassed(cmd[i])
<1>1. /\ state'[i] = nextState(i) /\ state[i] \in States
      /\ InUpdate(i) /\ InBypass(i) /\ InIdle(i) /\ Taken(i) /\ Coupled
  BY Moves DEF GroupInv, Controller, TypeOK
<1>2. /\ accepted' = {k \in Blocks : stall(k) /\ (k \in accepted \/ Accepts(k))}
      /\ resume' = {k \in Blocks : stall(k) /\ (k \in resume \/ WritesLine(k))}
  BY DEF Step, Edge, ControllerEdge
<1>3. CASE state'[i] = "UPDATE_1"
  <2>1. (Idle(i) /\ request(i) # None /\ ~Bypassed(cmd[i]) /\ ~WritesLine(i))
                \/ state[i] = "UPDATE_1"
    BY <1>1, <1>3 DEF nextState, AfterAck, States
  <2>2. Owns(i) \/ Starts(i)
    BY <1>1, <2>1 DEF Owns, Starts, InIdle
  <2>3. stall(i) /\ Stays(i) /\ cmd'[i] = cmd[i]
    BY <2>1, Moves
  <2>4. InUpdate(i)'
    BY FetchStep
  <2> QED BY <1>3, <2>2, <2>3, <2>4 DEF InUpdate, Bypassed
<1>4. CASE i \in accepted' /\ i \notin resume'
  <2>1. stall(i) /\ (i \in accepted \/ Accepts(i)) /\ i \notin resume /\ ~WritesLine(i)
    BY <1>2, <1>4
  <2>2. cmd'[i] = cmd[i]
    BY <2>1, Moves
  <2>3. cmd[i] # None /\ ~Bypassed(cmd[i])
    BY <1>1, <2>1 DEF Taken, Accepts, Writes, None
  <2>4. Stays(i)
    BY <2>3 DEF Step, Leaves
  <2>5. Owns(i) \/ Starts(i)
    <3>1. CASE i \in accepted
      BY <2>1, <3>1 DEF Owns
    <3>2. CASE i \notin accepted
      <4>1. Accepts(i)
        BY <2>1, <3>2
      <4>2. Idle(i) /\ request(i) = Fetch(cmd[i].addr)
        BY <2>1, <2>3, <4>1 DEF request, Accepts
      <4>3. request(i) # None
        BY <4>2 DEF Fetch, None
      <4> QED BY <2>1, <2>3, <3>2, <4>2, <4>3 DEF Starts
    <3> QED BY <3>1, <3>2
  <2> QED BY <2>1, <2>2, <2>3, <2>4, <2>5
<1> QED BY <1>3, <1>4 DEF Owns

LEMMA OwnerStep ==
  ASSUME CopyInv, NEW new, Step(new)
  PROVE  OwnerInv'
<1>0. GroupInv /\ BufferInv /\ OwnerInv /\ AloneInv
  BY DEF CopyInv
<1> SUFFICES ASSUME NEW i \in Blocks, NEW j \in Others(i)', Owns(i)'
             PROVE  /\ ~hit(j)'
                    /\ state'[j] = "WRITE" /\ buf'[j].addr = cmd'[i].addr => Granted(j)'
  BY DEF OwnerInv
<1>1. /\ Owns(i) \/ Starts(i)
      /\ stall(i) /\ Stays(i) /\ cmd'[i] = cmd[i] /\ cmd[i] # None /\ ~Bypassed(cmd[i])
  BY <1>0, OwnerMoves
<1>2. j \in Others(i) /\ j \in Blocks /\ j # i /\ runs[i] = runs[j] /\ i \in Others(j)
  BY <1>1 DEF Others, Stays, Together
<1>3. cmd[j] = cmd[i] /\ cmd'[j] = cmd[j]
  <2>1. cmd[j] = cmd[i]
    BY <1>0, <1>1, <1>2, GroupCommand DEF Others
  <2>2. stall(j)
    BY <1>1, <1>2, GroupAgrees
  <2> QED BY <1>0, <1>2, <2>1, <2>2, Moves
<1>4. ~hit(j) /\ ~Fills(j) /\ ~WritesLine(j)
  BY <1>0, <1>1, <1>2, OwnsAlone, StartsAlone DEF OwnerInv
<1>5. ~hit(j)'
  BY <1>0, <1>2, <1>3, <1>4, LineOrigin DEF hit
<1>6. ASSUME state'[j] = "WRITE", buf'[j].addr = cmd'[i].addr PROVE Granted(j)'
  <2>1. state[j] = "WRITE" /\ ~ack(j) /\ buf'[j] = buf[j]
    BY <1>0, <1>2, <1>4, <1>6, WriteMoves
  <2>2. Granted(j)
    <3>1. CASE Owns(i)
      BY <1>0, <1>1, <1>2, <1>6, <2>1, <3>1 DEF OwnerInv
    <3>2. CASE Starts(i)
      <4>1. line[j].addr = cmd[j].addr
        BY <1>0, <1>1, <1>2, <1>3, <1>6, <2>1 DEF BufferInv
      <4>2. ~line[j].valid
        BY <1>1, <1>3, <1>4, <4>1 DEF hit
      <4>3. ~Granted(i)
        BY <1>0, <3>2, AckFacts DEF Granted, Starts, Idle
      <4> QED BY <1>0, <1>2, <2>1, <4>2, <4>3 DEF AloneInv
    <3> QED BY <1>1, <3>1, <3>2
  <2> QED BY <1>0, <1>2, <2>1, <2>2, GrantStays
<1> QED BY <1>5, <1>6

\* Of two blocks the one that asks gets the bus when the other one does not ask.
LEMMA OnlyOneAsks ==
  ASSUME GroupInv, NEW i \in Blocks, NEW j \in Blocks, \A k \in Blocks : k = i \/ k = j,
         ~busy, request(j) # None, request(i) = None
  PROVE  requestSelect = j
<1> DEFINE asking == {k \in Blocks : request(k) # None}
<1>1. asking # {} /\ asking \in SUBSET Blocks /\ sel \in Blocks
  BY DEF GroupInv, TypeOK
<1>2. requestSelect = CHOOSE k \in asking :
            \A l \in asking : (k - sel - 1) % NumBlocks <= (l - sel - 1) % NumBlocks
  BY <1>1 DEF requestSelect
<1>3. \A k \in asking : k = j
  OBVIOUS
<1> HIDE DEF asking
<1>4. requestSelect \in asking
  BY <1>1, <1>2, SomeoneIsNext, Zenon
<1> QED BY <1>3, <1>4

LEMMA AloneStep ==
  ASSUME CopyInv, FewGroups, NEW new, Step(new)
  PROVE  AloneInv'
<1>0. GroupInv /\ DoomInv /\ AloneInv /\ runs \in Placements
  BY DEF CopyInv, GroupInv, TypeOK
<1> SUFFICES ASSUME NEW j \in Blocks, NEW i \in Others(j)',
                    state'[j] = "WRITE", ~Granted(j)', ~line'[j].valid \/ j \in doomed'
             PROVE  Granted(i)' /\ Writes(bus'.cmd)
  BY DEF AloneInv, Writes
<1>1. i \in Others(j)
  <2>1. Stays(j)
    BY <1>0, WriteMoves
  <2> QED BY <2>1 DEF Others, Stays
<1>2. i \in Blocks /\ i # j /\ \A k \in Blocks : k = i \/ k = j
  BY <1>0, <1>1, OtherFacts
<1>3. /\ sel' = requestSelect /\ requestSelect \in Blocks /\ bus'.cmd = granted
      /\ doomed' = Invalidated
  BY <1>0, GrantFacts
<1>4. requestSelect = j => granted = None
  BY <1>3 DEF Granted
<1>5. CASE j \in doomed'
  <2>1. Writes(granted) /\ granted # None
    BY <1>3, <1>5 DEF Invalidated, Writes, None
  <2>2. requestSelect = i
    BY <1>2, <1>3, <1>4, <2>1
  <2> QED BY <1>3, <2>1, <2>2 DEF Granted
<1>6. CASE j \notin doomed'
  <2>1. Granted(i) /\ Writes(bus.cmd) /\ request(j) # None
    <3>1. CASE WritesLine(j)
      <4>1. j \in doomed
        BY <1>0, <1>6, <3>1, LineOrigin
      <4>2. Writes(bus.cmd) /\ bus.cmd # None
        BY <1>0, <4>1 DEF DoomInv, Writes, None
      <4>3. sel # j /\ sel \in Blocks
        BY <1>0, <3>1, <4>2, AckFacts DEF WritesLine, Accepts, Idle, GroupInv, TypeOK
      <4>4. request(j) # None
        BY <3>1 DEF WritesLine, Accepts, request, Writes, None
      <4> QED BY <1>2, <4>2, <4>3, <4>4 DEF Granted
    <3>2. CASE ~WritesLine(j)
      <4>1. state[j] = "WRITE" /\ ~ack(j)
        BY <1>0, <3>2, WriteMoves
      <4>2. ~Granted(j)
        BY <1>0, <4>1, GrantStays
      <4>3. ~line[j].valid \/ j \in doomed
        BY <1>0, <1>6, <3>2, <4>1, LineOrigin DEF Fills
      <4>4. buf[j] # None
        BY <1>0, <4>1 DEF GroupInv, Controller, InWrite
      <4>5. request(j) = buf[j]
        BY <4>1 DEF request, Idle, Pending
      <4> QED BY <1>0, <1>1, <4>1, <4>2, <4>3, <4>4, <4>5 DEF AloneInv
    <3> QED BY <3>1, <3>2
  <2>2. CASE busy
    <3>1. ~ack(i)
      BY <2>2 DEF busy, ack
    <3> QED BY <1>0, <1>2, <2>1, <3>1, GrantStays
  <2>3. CASE ~busy
    <3>1. ack(i)
      BY <2>1, <2>3 DEF busy, ack, Granted
    <3>2. state[i] \in {"WRITE", "UPDATE_1", "BYPASS"}
      BY <1>0, <3>1, AckFacts DEF ack
    <3>3. request(i) = None
      BY <3>1, <3>2 DEF request, Idle
    <3>4. requestSelect = j
      BY <1>0, <1>2, <2>1, <2>3, <3>3, OnlyOneAsks
    <3> QED BY <1>4, <2>1, <3>4 DEF granted
  <2> QED BY <2>2, <2>3
<1> QED BY <1>5, <1>6

\* A line in two blocks, one of which goes on with a write of it.
LEMMA PairGoesOn ==
  ASSUME CopyInv, FewGroups, NEW new, Step(new), NEW j \in Blocks, NEW i \in Others(j),
         state[j] = "WRITE", ~ack(j), line'[i].valid, line'[i].addr = buf[j].addr
  PROVE  \/ i < j /\ line'[j].valid /\ state'[i] # "WRITE" /\ (j \in doomed' => i \in doomed')
         \/ Granted(j)' /\ ~line'[j].valid /\ state'[i] = "WRITE" /\ buf'[i].op = "write"
<1>0. /\ GroupInv /\ BufferInv /\ DoomInv /\ OwnerInv /\ AloneInv /\ PairInv
      /\ runs \in Placements
  BY DEF CopyInv, GroupInv, TypeOK
<1>1. /\ i \in Blocks /\ i # j /\ runs[i] = runs[j] /\ j \in Together(i) /\ i \in Together(j)
      /\ j \in Others(i) /\ \A k \in Blocks : k = i \/ k = j
  BY <1>0, OtherFacts
<1>2. /\ line[j].addr = buf[j].addr /\ ~Fills(j) /\ ~WritesLine(j)
      /\ InWrite(j) /\ InUpdate(i) /\ InBypass(i) /\ Coupled /\ InIdle(i) /\ Taken(i)
  BY <1>0, <1>1, WriteMoves DEF BufferInv, Fills, GroupInv, Controller
<1>3. buf[j].addr \notin Uncached
  BY <1>2 DEF InWrite
<1>4. Granted(j) => Granted(j)'
  BY <1>0, GrantStays
<1>5. ~line[j].valid => ~line'[j].valid
  BY <1>0, <1>2, LineOrigin
<1>6. CASE Fills(i)
  <2>1. state[i] = "UPDATE_1" /\ Granted(i) /\ Owns(i) /\ line'[i].addr = cmd[i].addr
    BY <1>0, <1>1, <1>6, LineOrigin DEF Fills, ack, Granted, Owns
  <2>2. Granted(j)
    BY <1>0, <1>1, <2>1 DEF OwnerInv
  <2> QED BY <1>1, <2>1, <2>2 DEF Granted
<1>7. CASE WritesLine(i)
  <2>1. /\ cmd[i].addr = buf[j].addr /\ Idle(i) /\ Accepts(i) /\ cmd[i] # None
        /\ ~Bypassed(cmd[i]) /\ Writes(cmd[i]) /\ (cmd[i].op = "write" \/ hit(i))
    BY <1>0, <1>1, <1>7, LineOrigin DEF WritesLine, Accepts, Writes, None, NeedsFill
  <2>2. cmd[j] = cmd[i]
    BY <1>0, <1>1, <2>1, GroupCommand
  <2>3. ~Granted(i)
    BY <1>0, <2>1, AckFacts DEF Granted, Idle
  <2>4. ~line[j].valid
    <3>1. SUFFICES ASSUME line[j].valid PROVE FALSE
      OBVIOUS
    <3>2. hit(j)
      BY <1>2, <2>1, <2>2, <3>1 DEF hit
    <3>3. i \notin accepted
      <4>1. SUFFICES ASSUME i \in accepted PROVE FALSE
        OBVIOUS
      <4>2. Owns(i)
        BY <1>2, <2>1, <4>1 DEF Owns, InIdle
      <4> QED BY <1>0, <1>1, <3>2, <4>2 DEF OwnerInv
    <3>4. writePrio(j) \in {2, 3} /\ writePrio(i) \in {1, 2} /\ (writePrio(i) = 2 => hit(i))
      BY <2>1, <3>2, <3>3 DEF writePrio, Idle
    <3>5. writePrio(j) < writePrio(i) \/ (writePrio(j) = writePrio(i) /\ j <= i)
      BY <1>1, <2>1 DEF Accepts, handleWrite
    <3>6. hit(i) /\ j <= i
      BY <3>4, <3>5
    <3>7. line[i].valid /\ line[i].addr = buf[j].addr
      BY <2>1, <3>6 DEF hit
    <3>8. i < j
      BY <1>0, <3>1, <3>7 DEF PairInv
    <3>9. i \in Int /\ j \in Int
      BY <1>1, CacheAssumption DEF Blocks
    <3> QED BY <3>6, <3>8, <3>9
  <2>5. Granted(j)
    BY <1>0, <2>3, <2>4 DEF AloneInv
  <2>6. state'[i] = "WRITE" /\ buf'[i] = cmd[i]
    BY <1>0, <1>1, <1>7, WriteMoves
  <2>7. cmd[i].op = "write"
    <3>1. SUFFICES ASSUME hit(i) PROVE FALSE
      BY <2>1
    <3>2. line[i].valid /\ line[i].addr = buf[j].addr
      BY <2>1, <3>1 DEF hit
    <3>3. state[i] = "WRITE"
      BY <1>0, <2>4, <3>2 DEF PairInv
    <3> QED BY <2>1, <3>3 DEF Idle
  <2> QED BY <1>4, <1>5, <2>4, <2>5, <2>6, <2>7
<1>8. CASE ~Fills(i) /\ ~WritesLine(i)
  <2>1. line[i].valid /\ line[i].addr = buf[j].addr /\ i \notin doomed
    BY <1>0, <1>1, <1>8, LineOrigin
  <2>2. CASE i < j /\ line[j].valid /\ state[i] # "WRITE" /\ (j \in doomed => i \in doomed)
    <3>1. line'[j].valid
      BY <1>0, <1>2, <2>1, <2>2, LineOrigin
    <3>2. state'[i] # "WRITE"
      BY <1>0, <1>1, <1>8, <2>2, WriteMoves
    <3>3. ASSUME j \in doomed' PROVE i \in doomed'
      <4>1. Writes(granted) /\ granted.addr = buf[j].addr /\ doomed' = Invalidated
        BY <1>0, <1>2, <3>3, GrantFacts DEF Invalidated
      <4>2. requestSelect # i
        <5>1. SUFFICES ASSUME requestSelect = i PROVE FALSE
          OBVIOUS
        <5>2. WritesLine(i) \/ state[i] = "WRITE"
          BY <1>0, <1>1, <1>3, <4>1, <5>1, WriteIsBuffered DEF granted
        <5> QED BY <1>8, <2>2, <5>2
      <4> QED BY <1>1, <2>1, <4>1, <4>2 DEF Invalidated
    <3> QED BY <2>2, <3>1, <3>2, <3>3
  <2>3. CASE Granted(j) /\ ~line[j].valid /\ state[i] = "WRITE" /\ buf[i].op = "write"
    <3>1. ~ack(i)
      BY <1>1, <2>3 DEF Granted, ack
    <3>2. state'[i] = "WRITE" /\ buf'[i] = buf[i]
      BY <1>0, <1>1, <2>3, <3>1, WriteMoves
    <3> QED BY <1>4, <1>5, <2>3, <3>2
  <2> QED BY <1>0, <2>1, <2>2, <2>3 DEF PairInv
<1> QED BY <1>6, <1>7, <1>8

\* A line in two blocks, one of which starts to write it.
LEMMA PairStarts ==
  ASSUME CopyInv, FewGroups, NEW new, Step(new), NEW j \in Blocks, NEW i \in Others(j),
         WritesLine(j), line'[i].valid, line'[i].addr = cmd[j].addr
  PROVE  i < j /\ line'[j].valid /\ state'[i] # "WRITE" /\ (j \in doomed' => i \in doomed')
<1>0. /\ GroupInv /\ BufferInv /\ DoomInv /\ OwnerInv /\ AloneInv /\ PairInv
      /\ runs \in Placements
  BY DEF CopyInv, GroupInv, TypeOK
<1>1. /\ i \in Blocks /\ i # j /\ runs[i] = runs[j] /\ j \in Together(i) /\ i \in Together(j)
      /\ j \in Others(i) /\ \A k \in Blocks : k = i \/ k = j
  BY <1>0, OtherFacts
<1>2. /\ Idle(j) /\ Accepts(j) /\ cmd[j] # None /\ ~Bypassed(cmd[j]) /\ Writes(cmd[j])
      /\ handleWrite(j) /\ cmd[j].addr \notin Uncached
  BY DEF WritesLine, Accepts, Writes, None, Bypassed
<1>3. cmd[i] = cmd[j]
  BY <1>0, <1>1, <1>2, GroupCommand
<1>4. /\ InBypass(i) /\ InUpdate(i) /\ InIdle(j) /\ Taken(j) /\ Coupled
  BY <1>0, <1>1 DEF GroupInv, Controller
<1>5. ~WritesLine(i)
  BY <1>1, <1>2, OneHandles DEF WritesLine, Accepts
<1>6. ~Owns(i)
  BY <1>0, <1>1, OwnsAlone
<1>7. ~Fills(i)
  BY <1>6 DEF Fills, Owns
<1>8. line[i].valid /\ line[i].addr = cmd[j].addr /\ i \notin doomed /\ hit(i)
  BY <1>0, <1>1, <1>2, <1>3, <1>5, <1>7, LineOrigin DEF hit
<1>9. j \notin accepted
  <2>1. SUFFICES ASSUME j \in accepted PROVE FALSE
    OBVIOUS
  <2>2. Owns(j)
    BY <1>2, <1>4, <2>1 DEF Owns, InIdle
  <2> QED BY <1>0, <1>8, <2>2 DEF OwnerInv
<1>10. hit(j) /\ i < j
  <2>1. writePrio(i) \in {2, 3} /\ writePrio(j) \in {1, 2} /\ (writePrio(j) = 2 => hit(j))
    BY <1>2, <1>8, <1>9 DEF writePrio, Idle
  <2>2. writePrio(i) < writePrio(j) \/ (writePrio(i) = writePrio(j) /\ i <= j)
    BY <1>1, <1>2 DEF handleWrite
  <2>3. i \in Int /\ j \in Int
    BY <1>1, CacheAssumption DEF Blocks
  <2> QED BY <1>1, <2>1, <2>2, <2>3
<1>11. line[j].valid /\ line[j].addr = cmd[j].addr
  BY <1>10 DEF hit
<1>12. state[i] # "WRITE"
  <2>1. SUFFICES ASSUME state[i] = "WRITE" PROVE FALSE
    OBVIOUS
  <2>2. line[j].valid /\ line[j].addr = buf[i].addr
    BY <1>0, <1>1, <1>8, <1>11, <2>1 DEF BufferInv
  <2>3. j < i
    BY <1>0, <1>1, <1>8, <2>1, <2>2 DEF PairInv
  <2>4. i \in Int /\ j \in Int
    BY <1>1, CacheAssumption DEF Blocks
  <2> QED BY <1>10, <2>3, <2>4
<1>13. state'[i] # "WRITE"
  BY <1>0, <1>1, <1>5, <1>12, WriteMoves
<1>14. j \notin doomed
  <2>1. SUFFICES ASSUME j \in doomed PROVE FALSE
    OBVIOUS
  <2>2. Writes(bus.cmd) /\ bus.cmd # None
    BY <1>0, <2>1 DEF DoomInv, Writes, None
  <2>3. /\ state[sel] \in {"WRITE", "UPDATE_1", "BYPASS"} /\ bus.cmd = Pending(sel)
        /\ sel \in Blocks
    BY <1>0, <2>2, AckFacts DEF GroupInv, TypeOK
  <2>4. sel = i
    BY <1>1, <1>2, <2>3 DEF Idle
  <2>5. state[i] # "BYPASS"
    BY <1>2, <1>3, <1>4 DEF InBypass
  <2>6. state[i] # "UPDATE_1"
    BY <1>6 DEF Owns
  <2> QED BY <1>12, <2>3, <2>4, <2>5, <2>6
<1>15. line'[j].valid
  BY <1>0, <1>14, LineOrigin
<1>16. ASSUME j \in doomed' PROVE i \in doomed'
  <2>1. Writes(granted) /\ granted.addr = cmd[j].addr /\ doomed' = Invalidated
    BY <1>0, <1>11, <1>16, GrantFacts DEF Invalidated
  <2>2. requestSelect # i
    BY <1>0, <1>1, <1>2, <1>5, <1>12, <2>1, WriteIsBuffered DEF granted
  <2> QED BY <1>1, <1>8, <2>1, <2>2 DEF Invalidated
<1> QED BY <1>10, <1>13, <1>15, <1>16

LEMMA PairStep ==
  ASSUME CopyInv, FewGroups, NEW new, Step(new)
  PROVE  PairInv'
<1>0. GroupInv
  BY DEF CopyInv
<1> SUFFICES ASSUME NEW j \in Blocks, NEW i \in Others(j)',
                    state'[j] = "WRITE", line'[i].valid, line'[i].addr = buf'[j].addr
             PROVE  \/ i < j /\ line'[j].valid /\ state'[i] # "WRITE"
                       /\ (j \in doomed' => i \in doomed')
                    \/ Granted(j)' /\ ~line'[j].valid /\ state'[i] = "WRITE"
                       /\ buf'[i].op = "write"
  BY DEF PairInv
<1>1. i \in Others(j)
  <2>1. Stays(j)
    BY <1>0, WriteMoves
  <2> QED BY <2>1 DEF Others, Stays
<1>2. CASE WritesLine(j)
  <2>1. buf'[j] = cmd[j]
    BY <1>0, <1>2, WriteMoves
  <2> QED BY <1>1, <1>2, <2>1, PairStarts
<1>3. CASE ~WritesLine(j)
  <2>1. state[j] = "WRITE" /\ ~ack(j)
    BY <1>0, <1>3, WriteMoves
  <2>2. buf'[j] = buf[j]
    BY <1>0, <2>1, WriteMoves
  <2> QED BY <1>1, <2>1, <2>2, PairGoesOn
<1> QED BY <1>2, <1>3

LEMMA CopyStep ==
  ASSUME CopyInv, FewGroups, WritesMapped, [Next]_vars
  PROVE  CopyInv'
<1>0. GroupInv /\ BufferInv /\ DoomInv /\ OwnerInv /\ AloneInv /\ PairInv
  BY DEF CopyInv
<1>1. GroupInv'
  BY <1>0, GroupStep
<1>2. CASE Next
  <2>1. PICK new : Step(new)
    BY <1>0, <1>2, NextSteps DEF GroupInv
  <2>2. BufferInv' /\ DoomInv' /\ OwnerInv' /\ AloneInv' /\ PairInv'
    BY <1>0, <2>1, BufferStep2, DoomStep, OwnerStep, AloneStep, PairStep
  <2> QED BY <1>1, <2>2 DEF CopyInv
<1>3. CASE UNCHANGED vars
  <2> USE <1>3 DEF vars, cpuVars, blockVars
  <2>1. BufferInv' /\ DoomInv'
    BY <1>0 DEF BufferInv, DoomInv, Covers, Writes
  <2>2. OwnerInv'
    BY <1>0 DEF OwnerInv, Others, Together, Owns, hit, Granted
  <2>3. AloneInv' /\ PairInv'
    BY <1>0 DEF AloneInv, PairInv, Others, Together, Granted, Writes
  <2> QED BY <1>1, <2>1, <2>2, <2>3 DEF CopyInv
<1> QED BY <1>2, <1>3

-----------------------------------------------------------------------------
(* What may be read.                                                        *)

\* A write to a part of an address that is under way, and one that does not
\* have the bus yet.
Late(i, a, h)    == UnderWay(i).addr = a /\ Covers(UnderWay(i), h)
Waiting(i, a, h) == Late(i, a, h) /\ ~Granted(i)

UnderMay ==
  \A i \in Blocks, a \in Addrs, h \in 1..2 :
    Waiting(i, a, h) => \A c \in Contexts : UnderWay(i).v \in may[c][a][h]

\* The memory is what a context may read once its own writes have the bus.
MemMay ==
  \A c \in Contexts, a \in Addrs \ Unmapped, h \in 1..2 :
    (\A j \in Blocks : runs[j] = c => ~Waiting(j, a, h)) => mem[a][h] \in may[c][a][h]

\* An older value that still waits for its invalidation: any context may read
\* it but those whose own write is under way.
StaleMay ==
  \A k \in Blocks, c \in Contexts, h \in 1..2 :
    /\ line[k].valid /\ Stale(k)
    /\ \A j \in Blocks : runs[j] = c => ~Late(j, line[k].addr, h)
    => line[k].data[h] \in may[c][line[k].addr][h]

SyncMay ==
  \A i \in Blocks, h \in 1..2 :
    state[i] = "WAIT_FOR_CPU" /\ Bypassed(cmd[i]) /\ Reads(cmd[i]) /\ ~sync[i].fault =>
      sync[i].data[h] \in may[runs[i]][cmd[i].addr][h]

MayInv == UnderMay /\ MemMay /\ StaleMay /\ SyncMay

\* Some block of a group handles a write.
LEMMA SomeoneHandles ==
  ASSUME NEW i \in Blocks
  PROVE  \E j \in Together(i) : handleWrite(j)
<1> DEFINE Of(p) == {j \in Together(i) : writePrio(j) = p}
           Upto(p) == \A j \in Together(i) : writePrio(j) <= p
<1>1. i \in Together(i) /\ \A j \in Together(i) : j \in Blocks /\ Together(j) = Together(i)
  BY DEF Together
<1>2. \A j \in Together(i) : writePrio(j) \in 0..3
  BY <1>1, PrioRange
<1>3. ASSUME NEW p \in 0..3, Of(p) # {}, Upto(p)
      PROVE  \E j \in Together(i) : handleWrite(j)
  <2>1. Of(p) \in SUBSET Blocks
    BY <1>1
  <2>2. \A j \in Together(i) : writePrio(j) < p \/ (writePrio(j) = p /\ j \in Of(p))
    BY <1>2, <1>3
  <2>3. Max(Of(p)) \in Together(i) /\ writePrio(Max(Of(p))) = p
    <3>1. Max(Of(p)) \in Of(p)
      BY <1>3, <2>1, Extremes
    <3> QED BY <3>1
  <2>4. \A j \in Of(p) : j <= Max(Of(p))
    BY <1>3, <2>1, Extremes
  <2> HIDE DEF Of
  <2> QED BY <1>1, <2>2, <2>3, <2>4 DEF handleWrite
<1>4. Upto(3)
  BY <1>2
<1>5. Of(3) = {} => Upto(2)
  BY <1>2
<1>6. Of(3) = {} /\ Of(2) = {} => Upto(1)
  BY <1>2
<1>7. Of(3) = {} /\ Of(2) = {} /\ Of(1) = {} => Upto(0) /\ i \in Of(0)
  BY <1>1, <1>2
<1> HIDE DEF Of, Upto
<1> QED BY <1>3, <1>4, <1>5, <1>6, <1>7

\* No write is left behind: before an instruction leaves the processor a block
\* has taken its write.
LEMMA NoneLost ==
  ASSUME GroupInv, NEW i \in Blocks
  PROVE  ~Lost(i)
<1> SUFFICES ASSUME Lost(i) PROVE FALSE
  OBVIOUS
<1>1. /\ Writes(cmd[i]) /\ ~Bypassed(cmd[i]) /\ ~stall(i) /\ ~busFault(i)
      /\ Together(i) \cap accepted = {} /\ cmd[i] # None
  BY DEF Lost, Writes, None
<1>2. PICK j \in Together(i) : handleWrite(j)
  BY SomeoneHandles
<1>3. j \in Blocks /\ runs[i] = runs[j] /\ cmd[j] = cmd[i] /\ j \notin accepted
  BY <1>1, GroupCommand
<1>4. ~writeOrBypassStall(j)
  BY <1>1 DEF stall, stallIn
<1>5. InWait(j) /\ Taken(j)
  BY <1>3 DEF GroupInv, Controller
<1>6. state[j] = "WAIT_FOR_CPU"
  BY <1>1, <1>2, <1>3, <1>4, <1>5 DEF writeOrBypassStall, Taken
<1> QED BY <1>1, <1>3, <1>5, <1>6 DEF InWait, Reads, Writes

\* How what may be read changes.
Begins(i, a, h) == Issues(i) /\ cmd[i].addr = a /\ Covers(cmd[i], h)

LEMMA MayMoves ==
  ASSUME GroupInv, NEW new, Step(new), NEW c \in Contexts, NEW a \in Addrs, NEW h \in 1..2
  PROVE  /\ \A i \in Blocks : Begins(i, a, h) => cmd[i].v \in may'[c][a][h]
         /\ (\A i \in Blocks : runs[i] = c => ~Begins(i, a, h)) =>
              \A v \in may[c][a][h] : v \in may'[c][a][h]
         /\ (\E i \in Blocks : runs[i] = c /\ Begins(i, a, h)) =>
              \A j \in Blocks : runs[j] # c /\ Late(j, a, h) => UnderWay(j).v \in may'[c][a][h]
<1> DEFINE starts == {i \in Blocks : Begins(i, a, h)}
           own    == {i \in starts : runs[i] = c}
           late   == {i \in Blocks : runs[i] # c /\ UnderWay(i).addr = a /\ Covers(UnderWay(i), h)}
<1>1. Visible
  BY DEF Step, Edge
<1>2. {i \in Blocks : (Issues(i) \/ Lost(i)) /\ cmd[i].addr = a /\ Covers(cmd[i], h)} = starts
  BY NoneLost DEF Begins
<1>3. may'[c][a][h] =
        (IF {i \in {k \in Blocks : (Issues(k) \/ Lost(k)) /\ cmd[k].addr = a /\ Covers(cmd[k], h)} :
               runs[i] = c} = {}
         THEN may[c][a][h]
         ELSE {cmd[i].v : i \in {j \in {k \in Blocks : (Issues(k) \/ Lost(k)) /\ cmd[k].addr = a
                                                       /\ Covers(cmd[k], h)} : runs[j] = c}}
              \cup {UnderWay(i).v : i \in late})
        \cup {cmd[i].v : i \in {k \in Blocks : (Issues(k) \/ Lost(k)) /\ cmd[k].addr = a
                                               /\ Covers(cmd[k], h)}}
  BY <1>1 DEF Visible
<1>4. may'[c][a][h] =
        (IF own = {} THEN may[c][a][h] ELSE {cmd[i].v : i \in own} \cup {UnderWay(i).v : i \in late})
        \cup {cmd[i].v : i \in starts}
  BY <1>2, <1>3
<1> QED BY <1>4 DEF Late

\* A write is under way until the bus acknowledges it.
LEMMA LateGoesOn ==
  ASSUME GroupInv, NEW new, Step(new), NEW i \in Blocks, NEW a, NEW h \in 1..2
  PROVE  /\ Late(i, a, h)' => \/ Begins(i, a, h) /\ UnderWay(i)' = cmd[i]
                              \/ Late(i, a, h) /\ ~ack(i) /\ UnderWay(i)' = UnderWay(i)
         /\ Begins(i, a, h) \/ (Late(i, a, h) /\ ~ack(i)) => Late(i, a, h)' /\ Stays(i)
         /\ Begins(i, a, h) => Idle(i) /\ request(i) = cmd[i]
         /\ Late(i, a, h) => state[i] \in {"WRITE", "BYPASS"} /\ ~Idle(i)
         /\ Late(i, a, h) /\ ~ack(i) => request(i) = UnderWay(i)
<1>1. /\ state'[i] = nextState(i) /\ state[i] \in States
      /\ InWrite(i) /\ InBypass(i)
  BY Moves DEF GroupInv, Controller, TypeOK
<1>2. /\ state'[i] = "WRITE" <=> WritesLine(i) \/ (state[i] = "WRITE" /\ ~ack(i))
      /\ WritesLine(i) => buf'[i] = cmd[i]
      /\ state[i] = "WRITE" /\ ~ack(i) => buf'[i] = buf[i] /\ ~WritesLine(i)
      /\ state'[i] = "WRITE" => Stays(i)
  BY WriteMoves
<1>3. state'[i] # "WRITE" => buf'[i] = None
  BY <1>1 DEF Step, Edge, ControllerEdge
<1>4. ~Covers(None, h) /\ (\A x : ~Covers(Fetch(x), h)) /\ (\A x : Covers(x, h) => Writes(x))
  BY DEF Covers, None, Fetch, Writes
<1>5. /\ UnderWay(i)' = IF state'[i] = "BYPASS" THEN cmd'[i] ELSE buf'[i]
      /\ Late(i, a, h)' <=> UnderWay(i)'.addr = a /\ Covers(UnderWay(i)', h)
  BY DEF UnderWay, Late, Covers
<1>6. ASSUME Begins(i, a, h)
      PROVE  /\ Idle(i) /\ request(i) = cmd[i] /\ request(i) # None
             /\ Bypassed(cmd[i]) \/ WritesLine(i)
  BY <1>4, <1>6 DEF Begins, Issues, request, Writes, None, Fetch
<1>7. ASSUME Late(i, a, h) PROVE state[i] \in {"WRITE", "BYPASS"} /\ ~Idle(i)
  BY <1>1, <1>4, <1>7 DEF Late, UnderWay, InWrite, Idle
<1>8. ASSUME state'[i] = "BYPASS"
      PROVE  /\ (Idle(i) /\ request(i) = cmd[i]) \/ (state[i] = "BYPASS" /\ ~ack(i))
             /\ cmd'[i] = cmd[i] /\ Stays(i)
  <2>1. (Idle(i) /\ request(i) # None /\ Bypassed(cmd[i])) \/ (state[i] = "BYPASS" /\ ~ack(i))
    BY <1>1, <1>8 DEF nextState, AfterAck, States
  <2>2. Idle(i) /\ Bypassed(cmd[i]) => request(i) = cmd[i]
    BY DEF request
  <2>3. cmd'[i] = cmd[i] /\ Stays(i)
    BY <2>1, Moves
  <2> QED BY <2>1, <2>2, <2>3
<1>9. ASSUME Late(i, a, h)'
      PROVE  \/ Begins(i, a, h) /\ UnderWay(i)' = cmd[i]
             \/ Late(i, a, h) /\ ~ack(i) /\ UnderWay(i)' = UnderWay(i)
  <2>1. CASE state'[i] = "BYPASS"
    <3>1. UnderWay(i)' = cmd[i] /\ cmd[i].addr = a /\ Covers(cmd[i], h)
      BY <1>5, <1>8, <1>9, <2>1
    <3> QED BY <1>4, <1>8, <2>1, <3>1 DEF Begins, Issues, Late, UnderWay
  <2>2. CASE state'[i] = "WRITE"
    <3>1. UnderWay(i)' = buf'[i] /\ buf'[i].addr = a /\ Covers(buf'[i], h)
      BY <1>5, <1>9, <2>2
    <3>2. CASE WritesLine(i)
      <4>1. Idle(i) /\ request(i) = cmd[i] /\ buf'[i] = cmd[i]
        BY <1>2, <3>2 DEF WritesLine, Accepts, request
      <4> QED BY <1>4, <3>1, <4>1 DEF Begins, Issues
    <3>3. CASE ~WritesLine(i)
      <4>1. state[i] = "WRITE" /\ ~ack(i) /\ buf'[i] = buf[i]
        BY <1>2, <2>2, <3>3
      <4> QED BY <3>1, <4>1 DEF Late, UnderWay
    <3> QED BY <3>2, <3>3
  <2>3. CASE state'[i] # "BYPASS" /\ state'[i] # "WRITE"
    BY <1>3, <1>4, <1>5, <1>9, <2>3
  <2> QED BY <2>1, <2>2, <2>3
<1>10. ASSUME Begins(i, a, h) PROVE Late(i, a, h)' /\ Stays(i)
  <2>1. Idle(i) /\ request(i) = cmd[i] /\ request(i) # None /\ (Bypassed(cmd[i]) \/ WritesLine(i))
    BY <1>6, <1>10
  <2>2. cmd'[i] = cmd[i] /\ Stays(i)
    BY <2>1, Moves
  <2>3. CASE Bypassed(cmd[i])
    <3>1. state'[i] = "BYPASS"
      BY <1>1, <2>1, <2>3 DEF nextState, Idle
    <3> QED BY <1>5, <1>10, <2>2, <3>1 DEF Begins
  <2>4. CASE WritesLine(i)
    <3>1. state'[i] = "WRITE" /\ buf'[i] = cmd[i]
      BY <1>2, <2>4
    <3> QED BY <1>5, <1>10, <2>2, <3>1 DEF Begins
  <2> QED BY <2>1, <2>3, <2>4
<1>11. ASSUME Late(i, a, h), ~ack(i)
       PROVE  Late(i, a, h)' /\ Stays(i) /\ request(i) = UnderWay(i)
  <2>1. CASE state[i] = "WRITE"
    <3>1. state'[i] = "WRITE" /\ buf'[i] = buf[i] /\ Stays(i)
      BY <1>2, <1>11, <2>1
    <3>2. request(i) = buf[i]
      BY <1>11, <2>1 DEF request, Idle, Pending
    <3> QED BY <1>5, <1>11, <2>1, <3>1, <3>2 DEF Late, UnderWay
  <2>2. CASE state[i] = "BYPASS"
    <3>1. state'[i] = "BYPASS"
      BY <1>1, <1>11, <2>2 DEF nextState, Idle
    <3>2. cmd'[i] = cmd[i] /\ Stays(i)
      BY <2>2, Moves
    <3>3. request(i) = cmd[i]
      BY <1>11, <2>2 DEF request, Idle, Pending
    <3> QED BY <1>5, <1>11, <2>2, <3>1, <3>2, <3>3 DEF Late, UnderWay
  <2> QED BY <1>7, <1>11, <2>1, <2>2
<1> QED BY <1>6, <1>7, <1>9, <1>10, <1>11

\* No block starts to write an address while another one of its group has a
\* write to it that the memory does not know of.
LEMMA OneWriteWaits ==
  ASSUME CopyInv, FewGroups, NEW new, Step(new), NEW a \in Addrs, NEW h \in 1..2,
         NEW i \in Blocks, NEW j \in Blocks, runs[i] = runs[j],
         Waiting(i, a, h), Begins(j, a, h)
  PROVE  FALSE
<1>0. /\ GroupInv /\ BufferInv /\ OwnerInv /\ AloneInv /\ PairInv
      /\ runs \in Placements
  BY DEF CopyInv, GroupInv, TypeOK
<1>1. /\ Idle(j) /\ request(j) = cmd[j] /\ cmd[j].addr = a /\ Writes(cmd[j]) /\ cmd[j] # None
      /\ state[i] \in {"WRITE", "BYPASS"} /\ i # j
      /\ UnderWay(i).addr = a /\ Covers(UnderWay(i), h) /\ ~Granted(i)
  BY <1>0, LateGoesOn DEF Waiting, Late, Begins, Issues, Writes, None
<1>2. /\ i \in Others(j) /\ j \in Others(i) /\ i \in Together(j) /\ j \in Together(i)
  BY <1>1 DEF Others, Together
<1>3. /\ InBypass(i) /\ InWrite(i) /\ InIdle(j) /\ Taken(j) /\ Coupled
  BY <1>0 DEF GroupInv, Controller
<1>4. CASE state[i] = "BYPASS"
  <2>1. Bypassed(cmd[i]) /\ cmd[i].addr = a
    BY <1>1, <1>3, <1>4 DEF InBypass, UnderWay
  <2>2. Bypassed(cmd[j])
    BY <1>1, <2>1 DEF Bypassed, Writes
  <2>3. i <= j /\ j <= i
    BY <1>3, <2>1, <2>2 DEF Coupled
  <2>4. i \in Int /\ j \in Int
    BY CacheAssumption DEF Blocks
  <2> QED BY <1>1, <2>3, <2>4
<1>5. CASE state[i] = "WRITE"
  <2>1. buf[i].addr = a /\ a \notin Uncached /\ line[i].addr = a
    BY <1>0, <1>1, <1>3, <1>5 DEF UnderWay, InWrite, BufferInv
  <2>2. ~Bypassed(cmd[j])
    BY <1>1, <2>1 DEF Bypassed
  <2>3. cmd[i] = cmd[j] /\ Accepts(j) /\ handleWrite(j)
    <3>1. cmd[i] = cmd[j]
      BY <1>0, <1>1, <1>2, <2>2, GroupCommand
    <3>2. WritesLine(j)
      BY <1>1, <2>2 DEF request, Fetch, Writes
    <3> QED BY <3>1, <3>2 DEF WritesLine, Accepts
  <2>4. line[i].valid
    <3>1. SUFFICES ASSUME ~line[i].valid PROVE FALSE
      OBVIOUS
    <3>2. Granted(j)
      BY <1>0, <1>1, <1>2, <1>5, <3>1 DEF AloneInv
    <3> QED BY <1>0, <1>1, <3>2, AckFacts DEF Granted, Idle
  <2>5. hit(i)
    BY <1>1, <2>1, <2>3, <2>4 DEF hit
  <2>6. j \notin accepted
    <3>1. SUFFICES ASSUME j \in accepted PROVE FALSE
      OBVIOUS
    <3>2. Owns(j)
      BY <1>1, <1>3, <3>1 DEF Owns, InIdle
    <3> QED BY <1>0, <1>2, <2>5, <3>2 DEF OwnerInv
  <2>7. hit(j) /\ i <= j
    <3>1. writePrio(i) \in {2, 3} /\ writePrio(j) \in {1, 2} /\ (writePrio(j) = 2 => hit(j))
      BY <1>1, <2>5, <2>6 DEF writePrio, Idle
    <3>2. writePrio(i) < writePrio(j) \/ (writePrio(i) = writePrio(j) /\ i <= j)
      BY <1>2, <2>3 DEF handleWrite
    <3> QED BY <3>1, <3>2
  <2>8. j < i
    <3>1. line[j].valid /\ line[j].addr = buf[i].addr
      BY <1>1, <2>1, <2>7 DEF hit
    <3> QED BY <1>0, <1>2, <1>5, <2>4, <3>1 DEF PairInv
  <2>9. i \in Int /\ j \in Int
    BY CacheAssumption DEF Blocks
  <2> QED BY <2>7, <2>8, <2>9
<1> QED BY <1>1, <1>4, <1>5

\* A value that waits for the bus may be read, and stays one that may.
LEMMA WaitingMay ==
  ASSUME CopyInv, UnderMay, FewGroups, NEW new, Step(new), NEW c \in Contexts,
         NEW a \in Addrs, NEW h \in 1..2, NEW i \in Blocks, Waiting(i, a, h)
  PROVE  UnderWay(i).v \in may'[c][a][h]
<1>0. GroupInv
  BY DEF CopyInv
<1>1. UnderWay(i).v \in may[c][a][h]
  BY DEF UnderMay
<1>2. CASE \A j \in Blocks : runs[j] = c => ~Begins(j, a, h)
  BY <1>0, <1>1, <1>2, MayMoves
<1>3. CASE \E j \in Blocks : runs[j] = c /\ Begins(j, a, h)
  <2>1. runs[i] # c
    BY <1>3, OneWriteWaits
  <2>2. Late(i, a, h)
    BY DEF Waiting
  <2> QED BY <1>0, <1>3, <2>1, <2>2, MayMoves
<1> QED BY <1>2, <1>3

LEMMA UnderStep ==
  ASSUME CopyInv, UnderMay, FewGroups, NEW new, Step(new)
  PROVE  UnderMay'
<1>0. GroupInv
  BY DEF CopyInv
<1> SUFFICES ASSUME NEW i \in Blocks, NEW a \in Addrs, NEW h \in 1..2, Waiting(i, a, h)',
                    NEW c \in Contexts
             PROVE  UnderWay(i)'.v \in may'[c][a][h]
  BY DEF UnderMay
<1>1. Late(i, a, h)' /\ ~Granted(i)'
  BY DEF Waiting
<1>2. CASE Begins(i, a, h) /\ UnderWay(i)' = cmd[i]
  BY <1>0, <1>2, MayMoves
<1>3. CASE Late(i, a, h) /\ ~ack(i) /\ UnderWay(i)' = UnderWay(i)
  <2>1. Waiting(i, a, h)
    BY <1>0, <1>1, <1>3, GrantStays DEF Waiting
  <2> QED BY <1>3, <2>1, WaitingMay
<1> QED BY <1>0, <1>1, <1>2, <1>3, LateGoesOn

\* What is under way for a context after the cycle without having the bus is all
\* that keeps the context from reading the memory.
LEMMA MemMayStep ==
  ASSUME CopyInv, UnderMay, MemMay, FewGroups, NEW new, Step(new)
  PROVE  MemMay'
<1>0. GroupInv
  BY DEF CopyInv
<1> SUFFICES ASSUME NEW c \in Contexts, NEW a \in Addrs \ Unmapped, NEW h \in 1..2,
                    \A j \in Blocks : runs'[j] = c => ~Waiting(j, a, h)'
             PROVE  mem'[a][h] \in may'[c][a][h]
  BY DEF MemMay
<1>1. mem'[a] = IF ~busy /\ Writes(granted) /\ granted.addr = a
                THEN Merged(mem[a], granted) ELSE mem[a]
  BY <1>0, MemoryMoves
<1>2. PICK k \in Blocks : k = requestSelect
  BY <1>0, GrantFacts
<1>3. /\ sel' = k /\ bus'.cmd = granted /\ granted = request(k) /\ (busy => sel = k)
  BY <1>0, <1>2, GrantFacts DEF granted
<1>4. CASE ~busy /\ Writes(granted) /\ granted.addr = a /\ Covers(granted, h)
  <2>1. mem'[a][h] = granted.v
    BY <1>1, <1>4 DEF Merged
  <2>2. state[k] \in States /\ InBypass(k) /\ InWrite(k)
    BY <1>0 DEF GroupInv, Controller, TypeOK
  <2>3. Begins(k, a, h) \/ (Late(k, a, h) /\ ~ack(k))
    <3>1. CASE Idle(k)
      <4>1. request(k) = cmd[k]
        BY <1>3, <1>4, <3>1 DEF request, Writes, Fetch, None
      <4> QED BY <1>3, <1>4, <3>1, <4>1 DEF Begins, Issues
    <3>2. CASE ~Idle(k)
      <4>1. ~ack(k) /\ request(k) = Pending(k) /\ state[k] # "WAIT_FOR_CPU"
        BY <1>3, <1>4, <3>2 DEF request, Writes, None
      <4>2. state[k] # "UPDATE_1"
        BY <1>3, <1>4, <4>1 DEF Pending, Writes, Fetch
      <4>3. request(k) = UnderWay(k)
        BY <2>2, <3>2, <4>1, <4>2 DEF Pending, UnderWay, States, Idle
      <4> QED BY <1>3, <1>4, <4>1, <4>3 DEF Late
    <3> QED BY <3>1, <3>2
  <2>4. CASE Begins(k, a, h)
    BY <1>0, <1>3, <2>1, <2>4, MayMoves, LateGoesOn
  <2>5. CASE Late(k, a, h) /\ ~ack(k)
    <3>1. ~Granted(k)
      BY <1>4, <2>5 DEF Granted, ack, busy
    <3>2. UnderWay(k).v \in may'[c][a][h]
      BY <2>5, <3>1, WaitingMay DEF Waiting
    <3>3. request(k) = UnderWay(k)
      BY <1>0, <2>5, LateGoesOn
    <3> QED BY <1>3, <2>1, <3>2, <3>3
  <2> QED BY <2>3, <2>4, <2>5
<1>5. CASE ~(~busy /\ Writes(granted) /\ granted.addr = a /\ Covers(granted, h))
  <2>1. mem'[a][h] = mem[a][h]
    BY <1>1, <1>5 DEF Merged
  <2>2. ASSUME NEW j \in Blocks, Late(j, a, h)', runs[j] = c, Stays(j),
               request(j).addr = a, Covers(request(j), h), ~Granted(j)
        PROVE  FALSE
    <3>1. Granted(j)'
      BY <2>2 DEF Stays, Waiting
    <3>2. k = j /\ granted # None
      BY <1>3, <3>1 DEF Granted
    <3>3. ~busy
      BY <1>3, <2>2, <3>2 DEF busy, Granted
    <3>4. Writes(granted)
      BY <1>3, <2>2, <3>2 DEF Covers, Writes
    <3> QED BY <1>3, <1>5, <2>2, <3>2, <3>3, <3>4
  <2>3. ASSUME NEW j \in Blocks, runs[j] = c, Begins(j, a, h) PROVE FALSE
    <3>1. Late(j, a, h)' /\ Stays(j) /\ Idle(j) /\ request(j) = cmd[j]
      BY <1>0, <2>3, LateGoesOn
    <3>2. ~Granted(j)
      BY <1>0, <3>1, AckFacts DEF Granted, Idle
    <3> QED BY <2>2, <2>3, <3>1, <3>2 DEF Begins
  <2>4. ASSUME NEW j \in Blocks, runs[j] = c, Waiting(j, a, h) PROVE FALSE
    <3>1. ~ack(j) /\ Late(j, a, h) /\ ~Granted(j)
      BY <2>4 DEF Waiting, ack, Granted
    <3>2. Late(j, a, h)' /\ Stays(j) /\ request(j) = UnderWay(j)
      BY <1>0, <3>1, LateGoesOn
    <3> QED BY <2>2, <2>4, <3>1, <3>2 DEF Late
  <2>5. mem[a][h] \in may[c][a][h]
    BY <2>4 DEF MemMay
  <2> QED BY <1>0, <2>1, <2>3, <2>5, MayMoves
<1> QED BY <1>4, <1>5

\* What a block holds may be read by a context whose writes do not wait, unless
\* it is older than a write of the context that has the bus.
LEMMA HeldMay ==
  ASSUME LineInv, MayInv, NEW k \in Blocks, NEW c \in Contexts, NEW h \in 1..2,
         line[k].valid,
         \A j \in Blocks : runs[j] = c => ~Waiting(j, line[k].addr, h),
         Stale(k) => \A j \in Blocks : runs[j] = c => ~Late(j, line[k].addr, h)
  PROVE  line[k].data[h] \in may[c][line[k].addr][h]
<1>1. PICK a \in Addrs \ Unmapped : a = line[k].addr
  BY DEF LineInv
<1>2. Stale(k) \/ line[k].data = Expected(k)
  BY DEF LineInv
<1>3. CASE Stale(k)
  BY <1>3 DEF MayInv, StaleMay
<1>4. CASE line[k].data = Expected(k) /\ Buffers(k) /\ Covers(buf[k], h)
  <2>1. UnderWay(k) = buf[k] /\ buf[k].addr = a /\ ~Granted(k)
    BY <1>1, <1>4 DEF Buffers, UnderWay
  <2>2. Waiting(k, a, h)
    BY <1>4, <2>1 DEF Waiting, Late
  <2>3. line[k].data[h] = buf[k].v
    BY <1>1, <1>4 DEF Expected, Merged
  <2> QED BY <1>1, <2>1, <2>2, <2>3 DEF MayInv, UnderMay
<1>5. CASE line[k].data = Expected(k) /\ ~(Buffers(k) /\ Covers(buf[k], h))
  <2>1. line[k].data[h] = mem[a][h]
    BY <1>1, <1>5 DEF Expected, Merged
  <2> QED BY <1>1, <2>1 DEF MayInv, MemMay
<1> QED BY <1>2, <1>3, <1>4, <1>5

LEMMA StaleStep ==
  ASSUME CopyInv, LineInv, LineInv', MayInv, FewGroups, NEW new, Step(new)
  PROVE  StaleMay'
<1>0. GroupInv
  BY DEF CopyInv
<1> SUFFICES ASSUME NEW k \in Blocks, NEW c \in Contexts, NEW h \in 1..2,
                    line'[k].valid, Stale(k)', NEW b, b = line'[k].addr,
                    \A j \in Blocks : runs'[j] = c => ~Late(j, b, h)'
             PROVE  line'[k].data[h] \in may'[c][line'[k].addr][h]
  BY DEF StaleMay, Late
<1>1. PICK a \in Addrs \ Unmapped : a = line'[k].addr
  BY DEF LineInv
<1>2. \A j \in Blocks : runs'[j] = c => ~Late(j, a, h)'
  BY <1>1
<1>3. ASSUME NEW j \in Blocks, runs[j] = c PROVE ~Begins(j, a, h)
  BY <1>0, <1>2, <1>3, LateGoesOn DEF Stays
<1>4. ASSUME NEW j \in Blocks, runs[j] = c, Late(j, a, h) PROVE ack(j)
  BY <1>0, <1>2, <1>4, LateGoesOn DEF Stays
<1>5. ASSUME NEW j \in Blocks, runs[j] = c PROVE ~Waiting(j, a, h)
  BY <1>4, <1>5 DEF Waiting, ack, Granted
<1>6. \A v \in may[c][a][h] : v \in may'[c][a][h]
  BY <1>0, <1>3, MayMoves
<1>7. ASSUME line[k].valid, line[k].addr = a, k \notin doomed
      PROVE  line[k].data[h] \in may'[c][a][h]
  <2>1. ASSUME Stale(k), NEW j \in Blocks, runs[j] = c PROVE ~Late(j, a, h)
    <3>1. ~ack(j)
      BY <1>7, <2>1 DEF Stale, busy, ack
    <3> QED BY <1>4, <2>1, <3>1
  <2>2. line[k].data[h] \in may[c][a][h]
    BY <1>5, <1>7, <2>1, HeldMay
  <2> QED BY <1>6, <2>2
<1>8. k \notin doomed
  BY <1>0, LineOrigin
<1>9. CASE Fills(k)
  <2>1. a = bus.cmd.addr /\ line'[k].data = mem[a]
    <3>1. line'[k].addr = cmd[k].addr /\ line'[k].data = mem[bus.cmd.addr]
      BY <1>0, <1>9, LineOrigin
    <3>2. bus.cmd = Fetch(cmd[k].addr)
      BY <1>0, <1>9, AckFacts DEF Fills, ack, Pending
    <3> QED BY <1>1, <3>1, <3>2 DEF Fetch
  <2>2. mem[a][h] \in may[c][a][h]
    BY <1>5 DEF MayInv, MemMay
  <2> QED BY <1>1, <1>6, <2>1, <2>2
<1>10. CASE WritesLine(k)
  <2>1. line'[k].addr = cmd[k].addr /\ line'[k].data = Merged(line[k].data, cmd[k])
    BY <1>0, <1>10, LineOrigin
  <2>2. CASE Covers(cmd[k], h)
    <3>1. Begins(k, a, h)
      BY <1>1, <1>10, <2>1, <2>2 DEF Begins, Issues, WritesLine, Accepts, request
    <3>2. line'[k].data[h] = cmd[k].v
      BY <2>1, <2>2 DEF Merged
    <3> QED BY <1>0, <1>1, <3>1, <3>2, MayMoves
  <2>3. CASE ~Covers(cmd[k], h)
    <3>1. hit(k)
      BY <1>10, <2>3 DEF WritesLine, Accepts, NeedsFill, Covers, Writes
    <3>2. line[k].valid /\ line[k].addr = a
      BY <1>1, <2>1, <3>1 DEF hit
    <3>3. line'[k].data[h] = line[k].data[h]
      BY <2>1, <2>3 DEF Merged
    <3> QED BY <1>1, <1>7, <1>8, <3>2, <3>3
  <2> QED BY <2>2, <2>3
<1>11. CASE ~Fills(k) /\ ~WritesLine(k)
  <2>1. line'[k] = line[k]
    BY <1>0, <1>11, LineOrigin
  <2> QED BY <1>1, <1>7, <1>8, <2>1
<1> QED BY <1>9, <1>10, <1>11

LEMMA SyncStep ==
  ASSUME CopyInv, MayInv, FewGroups, NEW new, Step(new)
  PROVE  SyncMay'
<1>0. GroupInv
  BY DEF CopyInv
<1> SUFFICES ASSUME NEW i \in Blocks, NEW h \in 1..2, state'[i] = "WAIT_FOR_CPU",
                    Bypassed(cmd'[i]), Reads(cmd'[i]), ~sync'[i].fault
             PROVE  sync'[i].data[h] \in may'[runs'[i]][cmd'[i].addr][h]
  BY DEF SyncMay, Bypassed, Reads
<1>1. /\ state'[i] = nextState(i) /\ state[i] \in States
      /\ InWrite(i) /\ InUpdate(i) /\ InBypass(i) /\ Taken(i) /\ Coupled
      /\ runs[i] \in Contexts /\ cmd[i] \in Commands(runs[i])
  BY <1>0, Moves, CacheAssumption DEF GroupInv, Controller, TypeOK
<1>2. /\ sync'[i].data = IF memSyncRegEna(i) /\ ~fault THEN mem[bus.cmd.addr] ELSE sync[i].data
      /\ sync'[i].fault = IF memSyncRegEna(i) THEN fault ELSE sync[i].fault
  BY <1>1 DEF Step, Edge, ControllerEdge
<1>3. (state[i] = "WAIT_FOR_CPU" /\ stall(i)) \/ (ack(i) /\ state[i] = "BYPASS")
  <2>1. state[i] = "UPDATE_1" => cmd'[i] = cmd[i]
    BY <1>0, Moves
  <2>2. state[i] # "UPDATE_1"
    BY <1>1, <2>1 DEF InUpdate
  <2>3. state[i] # "WRITE"
    <3>1. SUFFICES ASSUME state[i] = "WRITE" PROVE FALSE
      OBVIOUS
    <3>2. ack(i) /\ (fault \/ (stall(i) /\ i \in accepted))
      BY <1>1, <3>1 DEF nextState, AfterAck, Idle
    <3>3. bus.cmd = buf[i]
      BY <1>0, <3>1, <3>2, AckFacts DEF ack, Pending
    <3>4. ~fault
      BY <1>1, <3>1, <3>3 DEF InWrite, fault
    <3>5. cmd'[i] = cmd[i] /\ Writes(cmd[i])
      BY <1>0, <1>1, <3>2, <3>4, Moves DEF Taken
    <3> QED BY <3>5 DEF Reads, Writes
  <2> QED BY <1>1, <2>2, <2>3 DEF nextState, AfterAck, States, Idle
<1>4. cmd'[i] = cmd[i] /\ runs'[i] = runs[i]
  <2>1. cmd'[i] = cmd[i]
    BY <1>0, <1>3, Moves
  <2>2. ~Leaves(i)
    BY <2>1 DEF Leaves, Reads, None
  <2> QED BY <2>1, <2>2 DEF Step, Stays
<1>5. PICK a \in Addrs : a = cmd[i].addr /\ a \in Uncached
  <2>1. cmd[i] \in Made(runs[i])
    BY <1>1, <1>4 DEF Commands, Bypassed, None
  <2> QED BY <1>1, <1>4, <2>1, MadeIsAccess DEF Bypassed
<1>6. ~Idle(i) /\ Bypassed(cmd[i]) /\ Reads(cmd[i])
  BY <1>3, <1>4 DEF Idle
<1>7. ASSUME NEW j \in Blocks, runs[j] = runs[i], Bypassed(cmd[j]) PROVE j = i
  <2>1. i <= j /\ j <= i
    BY <1>1, <1>6, <1>7 DEF Coupled
  <2>2. i \in Int /\ j \in Int
    BY CacheAssumption DEF Blocks
  <2> QED BY <2>1, <2>2
<1>8. ASSUME NEW j \in Blocks, runs[j] = runs[i] PROVE ~Begins(j, a, h)
  <2>1. SUFFICES ASSUME Begins(j, a, h) PROVE FALSE
    OBVIOUS
  <2>2. Idle(j) /\ cmd[j].addr = a /\ Covers(cmd[j], h)
    BY <2>1 DEF Begins, Issues
  <2>3. Bypassed(cmd[j])
    BY <1>5, <2>2 DEF Bypassed, Covers
  <2> QED BY <1>6, <1>7, <1>8, <2>2, <2>3
<1>9. \A v \in may[runs[i]][a][h] : v \in may'[runs[i]][a][h]
  BY <1>0, <1>1, <1>8, MayMoves
<1>10. CASE state[i] = "WAIT_FOR_CPU"
  <2>1. ~memSyncRegEna(i)
    BY <1>0, <1>10, AckFacts DEF memSyncRegEna, ack
  <2>2. sync[i].data[h] \in may[runs[i]][a][h]
    BY <1>2, <1>5, <1>6, <1>10, <2>1 DEF MayInv, SyncMay
  <2> QED BY <1>2, <1>4, <1>5, <1>9, <2>1, <2>2
<1>11. CASE ack(i) /\ state[i] = "BYPASS"
  <2>1. memSyncRegEna(i) /\ bus.cmd = cmd[i]
    BY <1>0, <1>11, AckFacts DEF memSyncRegEna, ack, Pending
  <2>2. ~fault /\ a \notin Unmapped /\ sync'[i].data = mem[a]
    BY <1>2, <1>5, <2>1 DEF fault
  <2>3. ASSUME NEW j \in Blocks, runs[j] = runs[i] PROVE ~Waiting(j, a, h)
    <3>1. SUFFICES ASSUME Late(j, a, h) PROVE FALSE
      BY DEF Waiting
    <3>2. state[j] \in {"WRITE", "BYPASS"} /\ InBypass(j) /\ InWrite(j)
      BY <1>0, <3>1, LateGoesOn DEF GroupInv, Controller
    <3>3. state[j] = "BYPASS"
      BY <1>5, <3>1, <3>2 DEF Late, UnderWay, InWrite
    <3>4. j = i
      BY <1>7, <2>3, <3>2, <3>3 DEF InBypass
    <3> QED BY <1>6, <3>1, <3>3, <3>4 DEF Late, UnderWay, Reads, Covers
  <2>4. mem[a][h] \in may[runs[i]][a][h]
    BY <1>1, <2>2, <2>3 DEF MayInv, MemMay
  <2> QED BY <1>4, <1>5, <1>9, <2>2, <2>4
<1> QED BY <1>3, <1>10, <1>11

\* The read of a cached address: the highest block of the group that has it.
LEMMA CachedReadIsLatest ==
  ASSUME CopyInv, LineInv, MayInv, FewGroups, NEW i \in Blocks, NEW h \in 1..2,
         Reads(cmd[i]), ~stall(i), ~busFault(i), ~Bypassed(cmd[i])
  PROVE  readData(i)[h] \in may[runs[i]][cmd[i].addr][h]
<1>0. /\ GroupInv /\ BufferInv /\ OwnerInv /\ AloneInv /\ PairInv
      /\ runs \in Placements /\ runs \in [Blocks -> Contexts]
  BY CacheAssumption DEF CopyInv, GroupInv, TypeOK
<1>1. cmd[i] # None
  BY DEF Reads, None
<1>2. PICK s \in Together(i) : s = Source(i)
  BY SourceIsUsable
<1>3. s \in Blocks /\ runs[i] = runs[s] /\ cmd[s] = cmd[i]
  BY <1>0, <1>1, GroupCommand
<1>4. hit(s)
  <2>1. ~readMiss(i)
    BY DEF stall, stallIn
  <2> QED BY <1>2, <1>3, <2>1 DEF readMiss
<1>5. state[s] # "WAIT_FOR_CPU"
  <2>1. SUFFICES ASSUME state[s] = "WAIT_FOR_CPU" PROVE FALSE
    OBVIOUS
  <2>2. InWait(s) /\ Taken(s)
    BY <1>0, <1>3 DEF GroupInv, Controller
  <2>3. ~sync[s].fault
    BY <2>1 DEF busFault
  <2> QED BY <1>3, <2>1, <2>2, <2>3 DEF InWait, Taken, Reads, Writes
<1>6. readData(i) = line[s].data
  BY <1>2, <1>5 DEF readData
<1>7. PICK a \in Addrs \ Unmapped : a = cmd[i].addr /\ line[s].valid /\ line[s].addr = a
  BY <1>3, <1>4 DEF LineInv, hit
<1>8. runs[i] \in Contexts
  BY <1>0
<1>9. ASSUME NEW j \in Blocks, runs[j] = runs[i], Late(j, a, h)
      PROVE  /\ state[j] = "WRITE" /\ buf[j].addr = a
             /\ j # s => Granted(j) /\ Late(s, a, h)
  <2>1. InWrite(j) /\ InBypass(j)
    BY <1>0 DEF GroupInv, Controller
  <2>2. j \in Together(i) /\ cmd[j] = cmd[i]
    BY <1>0, <1>1, <1>9, GroupCommand DEF Together
  <2>3. state[j] = "WRITE" /\ buf[j].addr = a
    BY <1>9, <2>1, <2>2 DEF Late, UnderWay, InWrite, InBypass, Covers, None
  <2>4. CASE j # s
    <3>1. s \in Others(j)
      BY <1>3, <1>9, <2>4 DEF Others, Together
    <3>2. line[j].addr = a
      BY <1>0, <2>3 DEF BufferInv
    <3>3. ~(s < j /\ line[j].valid)
      <4>1. SUFFICES ASSUME s < j, line[j].valid PROVE FALSE
        OBVIOUS
      <4>2. hit(j)
        BY <1>1, <1>7, <2>2, <3>2, <4>1 DEF hit
      <4>3. j <= s
        BY <1>2, <2>2, <4>2, SourceIsUsable
      <4>4. s \in Int /\ j \in Int
        BY <1>3, CacheAssumption DEF Blocks
      <4> QED BY <4>1, <4>3, <4>4
    <3>4. Granted(j) /\ state[s] = "WRITE" /\ buf[s].op = "write"
      BY <1>0, <1>7, <2>3, <3>1, <3>3 DEF PairInv
    <3>5. buf[s].addr = a
      BY <1>0, <1>3, <1>7, <3>4 DEF BufferInv
    <3> QED BY <2>3, <3>4, <3>5 DEF Late, UnderWay, Covers
  <2> QED BY <2>3, <2>4
<1>10. CASE Late(s, a, h)
  <2>1. state[s] = "WRITE" /\ buf[s].addr = a
    BY <1>3, <1>9, <1>10
  <2>2. UnderWay(s) = buf[s] /\ Covers(buf[s], h) /\ line[s].data[h] = buf[s].v
    BY <1>0, <1>3, <1>7, <1>10, <2>1 DEF Late, UnderWay, BufferInv
  <2>3. CASE ~Granted(s)
    BY <1>3, <1>6, <1>7, <1>8, <1>10, <2>2, <2>3 DEF MayInv, UnderMay, Waiting
  <2>4. CASE Granted(s)
    <3>1. line[s].data = mem[a]
      BY <1>3, <1>7, <2>4 DEF LineInv, Stale, Expected, Buffers, Granted
    <3>2. ASSUME NEW j \in Blocks, runs[j] = runs[i] PROVE ~Waiting(j, a, h)
      BY <1>9, <2>4, <3>2 DEF Waiting
    <3>3. mem[a][h] \in may[runs[i]][a][h]
      BY <1>8, <3>2 DEF MayInv, MemMay
    <3> QED BY <1>6, <1>7, <3>1, <3>3
  <2> QED BY <2>3, <2>4
<1>11. CASE ~Late(s, a, h)
  <2>1. ASSUME NEW j \in Blocks, runs[j] = runs[i] PROVE ~Late(j, a, h)
    BY <1>9, <1>11, <2>1
  <2>2. line[s].data[h] \in may[runs[i]][a][h]
    BY <1>3, <1>7, <1>8, <2>1, HeldMay DEF Waiting
  <2> QED BY <1>6, <1>7, <2>2
<1> QED BY <1>10, <1>11

LEMMA ReadIsLatest ==
  ASSUME CopyInv, LineInv, MayInv, FewGroups
  PROVE  ReadsLatest
<1> SUFFICES ASSUME NEW i \in Blocks, NEW h \in 1..2, Reads(cmd[i]), ~stall(i), ~busFault(i)
             PROVE  readData(i)[h] \in may[runs[i]][cmd[i].addr][h]
  BY DEF ReadsLatest
<1>1. CASE Bypassed(cmd[i])
  <2>1. i \in Together(i) /\ Coupled
    BY DEF Together, CopyInv, GroupInv
  <2>2. Source(i) \in Together(i) /\ i <= Source(i)
    BY <1>1, <2>1, SourceIsUsable
  <2>3. Source(i) = i
    <3>1. Source(i) \in Blocks /\ runs[Source(i)] = runs[i]
      BY <2>2 DEF Together
    <3>2. Source(i) <= i
      BY <1>1, <2>1, <3>1 DEF Coupled
    <3>3. i \in Int /\ Source(i) \in Int
      BY <3>1, CacheAssumption DEF Blocks
    <3> QED BY <2>2, <3>2, <3>3
  <2>4. state[i] = "WAIT_FOR_CPU"
    BY <1>1, <2>1 DEF stall, stallIn, writeOrBypassStall
  <2>5. ~sync[i].fault
    BY <2>1, <2>4 DEF busFault
  <2>6. readData(i) = sync[i].data
    BY <2>3, <2>4 DEF readData
  <2> QED BY <1>1, <2>4, <2>5, <2>6 DEF MayInv, SyncMay
<1>2. CASE ~Bypassed(cmd[i])
  BY <1>2, CachedReadIsLatest
<1> QED BY <1>1, <1>2

LatestInv == CopyInv /\ LineInv /\ MayInv

LEMMA LatestInit ==
  ASSUME Init
  PROVE  LatestInv
<1>1. GroupInv /\ 0 \in Blocks
  BY GroupInit, CacheAssumption DEF Blocks
<1>2. /\ cmd = [i \in Blocks |-> None] /\ buf = [i \in Blocks |-> None]
      /\ state = [i \in Blocks |-> "IDLE"] /\ accepted = {} /\ resume = {} /\ doomed = {}
      /\ line = [i \in Blocks |-> [addr |-> 0, valid |-> FALSE, data |-> <<0, 0>>]]
      /\ mem = [a \in Addrs |-> <<0, 0>>]
      /\ may = [c \in Contexts |-> [a \in Addrs |-> <<{0}, {0}>>]]
  BY DEF Init
<1>3. \A i \in Blocks : ~Owns(i) /\ state[i] = "IDLE" /\ ~line[i].valid /\ UnderWay(i) = None
  BY <1>2 DEF Owns, UnderWay
<1>4. BufferInv /\ DoomInv /\ OwnerInv /\ AloneInv /\ PairInv
  BY <1>2, <1>3 DEF BufferInv, DoomInv, OwnerInv, AloneInv, PairInv, Others, Together
<1>5. LineInv
  BY <1>3 DEF LineInv
<1>6. UnderMay /\ StaleMay /\ SyncMay
  BY <1>3 DEF UnderMay, StaleMay, SyncMay, Waiting, Late, Covers, None
<1>7. MemMay
  <2>1. ASSUME NEW c \in Contexts, NEW a \in Addrs, NEW h \in 1..2
        PROVE  mem[a][h] \in may[c][a][h]
    BY <1>2
  <2> QED BY <2>1 DEF MemMay
<1> QED BY <1>1, <1>4, <1>5, <1>6, <1>7 DEF LatestInv, CopyInv, MayInv

LEMMA LatestStep ==
  ASSUME LatestInv, FewGroups, WritesMapped, MinLatency >= 2, [Next]_vars
  PROVE  LatestInv'
<1>0. CopyInv /\ LineInv /\ MayInv /\ GroupInv
  BY DEF LatestInv, CopyInv
<1>1. CopyInv' /\ LineInv'
  BY <1>0, CopyStep, LineStep
<1>2. CASE Next
  <2>1. PICK new : Step(new)
    BY <1>0, <1>2, NextSteps DEF GroupInv
  <2>2. UnderMay' /\ MemMay' /\ StaleMay' /\ SyncMay'
    BY <1>0, <1>1, <2>1, UnderStep, MemMayStep, StaleStep, SyncStep DEF MayInv
  <2> QED BY <1>1, <2>2 DEF LatestInv, MayInv
<1>3. CASE UNCHANGED vars
  <2> USE <1>3 DEF vars, cpuVars, blockVars
  <2>1. UnderMay' /\ MemMay'
    BY <1>0 DEF MayInv, UnderMay, MemMay, Waiting, Late, UnderWay, Granted, Covers
  <2>2. StaleMay' /\ SyncMay'
    BY <1>0 DEF MayInv, StaleMay, SyncMay, Stale, Late, UnderWay, Covers, busy, Writes,
                Bypassed, Reads
  <2> QED BY <1>1, <2>1, <2>2 DEF LatestInv, MayInv
<1> QED BY <1>2, <1>3

\* ReadsLatest for any number of uncoupled lane groups, and for two lane groups
\* in any coupling, with any reconfigurations, programs and timing of the bus.
\* With more groups, some of them coupled, it is false (run overtake).
THEOREM ReadsAreLatest ==
  ASSUME FewGroups, WritesMapped, MinLatency >= 2
  PROVE  Spec => []ReadsLatest
<1>1. Init => LatestInv
  BY LatestInit
<1>2. LatestInv /\ [Next]_vars => LatestInv'
  BY LatestStep
<1>3. LatestInv => ReadsLatest
  BY ReadIsLatest DEF LatestInv
<1> QED BY <1>1, <1>2, <1>3, PTL DEF Spec
=============================================================================
