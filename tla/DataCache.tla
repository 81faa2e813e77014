----------------------------- MODULE DataCache ------------------------------
(***************************************************************************)
(* The data cache: one block per lane group, the network that makes the    *)
(* blocks of coupled groups work together (cache_data.vhd), a block with   *)
(* its memories and invalidation (cache_data_block*.vhd), the controller   *)
(* of a block with its write buffer (cache_data_mainCtrl.vhd), and the bus *)
(* and snooping of rvsys_standalone_cachedCore.vhd.                        *)
(*                                                                         *)
(* A state is one enabled clock cycle: the registers, and the inputs of    *)
(* the cycle.  Every signal is an operator.  All addresses have the same   *)
(* offset, so that a block holds one line, and an address is its tag.  A   *)
(* word has two parts; sub-word writes change the first one.               *)
(***************************************************************************)
EXTENDS Integers, Sequences, FiniteSets, FiniteSetsExt

CONSTANTS
  NumBlocks,
  Contexts,
  Placements,   \* what runs on the lane groups: groups of one context are coupled
  Programs,     \* pairs of programs: sequences of accesses, one for each context
  Uncached,     \* addresses in cache_bypassRange
  Unmapped,     \* addresses that give a bus fault
  MinLatency    \* cycles from a bus request to its acknowledge, at least

Blocks == 0..(NumBlocks - 1)
Access == [op : {"read", "write", "part"}, addr : Nat, v : Nat]
Made(c) == UNION {{p[c][k] : k \in DOMAIN p[c]} : p \in Programs}
Addrs == UNION {{x.addr : x \in Made(c)} : c \in Contexts}

\* Coupled groups are aligned, so that the lowest bits of a tag choose one of
\* them.
ASSUME CacheAssumption ==
  /\ NumBlocks \in Nat \ {0} /\ MinLatency \in Nat \ {0}
  /\ Placements \subseteq [Blocks -> Contexts] /\ Placements # {}
  /\ \A p \in Placements : \A i, j \in Blocks :
       LET n == Cardinality({k \in Blocks : p[k] = p[i]})
       IN p[i] = p[j] /\ i % n = j % n => i = j
  /\ Programs \subseteq [Contexts -> Seq(Access)]

VARIABLES
  runs,        \* the context of each lane group: decouple
  otherStall,  \* the contexts that are stalled for another reason in this cycle
  cmd,         \* cpuAddr_r, readEnable_r, writeEnable_r, writeData_r, writeMask_r, bypass_r
  state,
  buf,         \* writeBufAddr, writeBufData, writeBufMask
  sync,        \* memSyncRegData, memSyncRegFault
  accepted,    \* the blocks with writeAccepted
  resume,      \* the blocks with resumeAfterWrite
  line,        \* ram_tag, ram_valid, ram_data
  doomed,      \* the blocks with invalidate: invalEnable_r and invalHit
  sel,         \* resultSelect of the arbiter
  bus,         \* the request the memory works on, for how long, and whether it is done
  mem,
  program,     \* what the contexts still have to do
  clk,         \* which cycle: odd or even
  may          \* history: may[c][a][h]: what c may read in part h of a

cpuVars == <<runs, otherStall, cmd>>
blockVars == <<state, buf, sync, accepted, resume, line, doomed>>
vars == <<cpuVars, blockVars, sel, bus, mem, program, clk, may>>

None == [op |-> "none", addr |-> 0, v |-> 0]
Fetch(a) == [op |-> "read", addr |-> a, v |-> 0]
Reads(c)  == c.op = "read"
Writes(c) == c.op \in {"write", "part"}
Covers(c, h) == c.op = "write" \/ (c.op = "part" /\ h = 1)
Merged(word, c) == [h \in 1..2 |-> IF Covers(c, h) THEN c.v ELSE word[h]]
Bypassed(c) == c.op # "none" /\ c.addr \in Uncached

-----------------------------------------------------------------------------
(* The output network: from the blocks to the lane groups.                  *)

Together(i) == {j \in Blocks : runs[j] = runs[i]}

hit(i) == cmd[i] # None /\ line[i].valid /\ line[i].addr = cmd[i].addr

\* The block whose data a coupled group sees.
Source(i) ==
  LET usable == {j \in Together(i) : hit(j) \/ Bypassed(cmd[j])}
  IN IF usable = {} THEN Min(Together(i)) ELSE Max(usable)

writePrio(i) ==
  IF i \in accepted \/ state[i] \in {"UPDATE_1", "BYPASS"} THEN 3
  ELSE IF hit(i) THEN 2
  ELSE IF state[i] = "WRITE" THEN 0 ELSE 1

handleWrite(i) ==
  \A j \in Together(i) : writePrio(j) < writePrio(i) \/ (writePrio(j) = writePrio(i) /\ j <= i)

busFault(i) == \E j \in Together(i) : state[j] = "WAIT_FOR_CPU" /\ sync[j].fault

writeOrBypassStall(i) ==
  /\ state[i] # "WAIT_FOR_CPU"
  /\ (Writes(cmd[i]) /\ handleWrite(i) /\ i \notin resume) \/ Bypassed(cmd[i])

readMiss(i) ==
  LET s == Source(i) IN Reads(cmd[s]) /\ ~hit(s) /\ ~Bypassed(cmd[s])

stallIn(i) ==
  /\ readMiss(i) \/ \E j \in Together(i) : writeOrBypassStall(j)
  /\ ~busFault(i)

stall(i) == stallIn(i) \/ runs[i] \in otherStall

readData(i) ==
  LET s == Source(i) IN IF state[s] = "WAIT_FOR_CPU" THEN sync[s].data ELSE line[s].data

\* Which block of a coupled set is filled depends on the lowest bits of the tag.
updateEnable(i) ==
  LET n == Cardinality(Together(i))
  IN readMiss(i) /\ ~busFault(i) /\ i % n = cmd[i].addr % n

-----------------------------------------------------------------------------
(* The controller of a block.                                               *)

busy == bus.cmd # None /\ ~bus.ready
ack(i) == bus.cmd # None /\ bus.ready /\ sel = i
fault == bus.cmd.addr \in Unmapped

Idle(i) == state[i] = "IDLE"
Accepts(i) ==
  Idle(i) /\ ~Bypassed(cmd[i]) /\ ~updateEnable(i) /\ Writes(cmd[i]) /\ handleWrite(i)
NeedsFill(i) == cmd[i].op = "part" /\ ~hit(i)
WritesLine(i) == Accepts(i) /\ ~NeedsFill(i)
Fills(i) == state[i] = "UPDATE_1" /\ ack(i) /\ ~fault

\* The request a block that waits for the bus keeps up.
Pending(i) ==
  CASE state[i] = "WRITE" -> buf[i]
    [] state[i] = "UPDATE_1" -> Fetch(cmd[i].addr)
    [] state[i] = "BYPASS" -> cmd[i]

\* cacheToBus.
request(i) ==
  IF Idle(i) THEN IF Bypassed(cmd[i]) \/ WritesLine(i) THEN cmd[i]
                  ELSE IF updateEnable(i) \/ Accepts(i) THEN Fetch(cmd[i].addr)
                  ELSE None
  ELSE IF ack(i) \/ state[i] = "WAIT_FOR_CPU" THEN None ELSE Pending(i)

\* Seeded fault: the result of a bypass does not wait for the processor.
ForgetsBypass(i) ==
  IF \/ fault
     \/ state[i] = "WRITE" /\ stall(i) /\ i \in accepted
  THEN "WAIT_FOR_CPU" ELSE "IDLE"

\* Where an acknowledge leads: a result or a fault waits for the processor, and
\* so does a write whose instruction has not been left yet.
AfterAck(i) ==
  IF \/ fault
     \/ state[i] = "BYPASS"
     \/ state[i] = "WRITE" /\ stall(i) /\ i \in accepted
  THEN "WAIT_FOR_CPU" ELSE "IDLE"

nextState(i) ==
  CASE Idle(i) -> IF request(i) = None THEN "IDLE"
                  ELSE IF Bypassed(cmd[i]) THEN "BYPASS"
                  ELSE IF WritesLine(i) THEN "WRITE" ELSE "UPDATE_1"
    [] state[i] = "WAIT_FOR_CPU" -> IF stall(i) THEN "WAIT_FOR_CPU" ELSE "IDLE"
    [] OTHER -> IF ack(i) THEN AfterAck(i) ELSE state[i]

\* Seeded fault: a buffered write does not hold up a reconfiguration.
IgnoresBuffer(i) == state[i] # "WRITE" /\ (~Idle(i) \/ request(i) # None)

blockReconfig(i) == ~Idle(i) \/ request(i) # None

memSyncRegEna(i) == ack(i) /\ (state[i] # "WRITE" \/ fault)

-----------------------------------------------------------------------------
(* The bus: the arbiter grants the next block in cyclic order, and all       *)
(* blocks see the address of a write.                                       *)

requestSelect ==
  LET asking == {i \in Blocks : request(i) # None}
  IN IF busy \/ asking = {} THEN sel
     ELSE CHOOSE i \in asking :
            \A j \in asking : (i - sel - 1) % NumBlocks <= (j - sel - 1) % NumBlocks

granted == request(requestSelect)

\* A block ignores the invalidation it causes itself, unless by a bypass.  The
\* tag is the one before this edge.
Invalidated ==
  IF ~Writes(granted) THEN {}
  ELSE {i \in Blocks : /\ Bypassed(cmd[i]) \/ i # requestSelect
                       /\ line[i].addr = granted.addr}

-----------------------------------------------------------------------------
Init ==
  /\ runs \in Placements
  /\ otherStall = {}
  /\ cmd = [i \in Blocks |-> None]
  /\ state = [i \in Blocks |-> "IDLE"]
  /\ buf = cmd
  /\ sync = [i \in Blocks |-> [data |-> <<0, 0>>, fault |-> FALSE]]
  /\ accepted = {} /\ resume = {}
  /\ line = [i \in Blocks |-> [addr |-> 0, valid |-> FALSE, data |-> <<0, 0>>]]
  /\ doomed = {}
  /\ sel = 0
  /\ bus = [cmd |-> None, age |-> 0, ready |-> FALSE]
  /\ mem = [a \in Addrs |-> <<0, 0>>]
  /\ program \in Programs
  /\ clk = FALSE
  /\ may = [c \in Contexts |-> [a \in Addrs |-> <<{0}, {0}>>]]

\* The input network: a bypassed access goes to the highest block only.
Routed(new, i) ==
  IF Bypassed(new[runs[i]]) /\ i # Max(Together(i)) THEN None ELSE new[runs[i]]

CpuEdge(new) ==
  cmd' = [i \in Blocks |-> IF stall(i) THEN cmd[i] ELSE Routed(new, i)]

\* The registers of the controller.  What the write buffer and the
\* synchronisation register hold is forgotten when nobody can see it any more.
ControllerEdge ==
  /\ state' = [i \in Blocks |-> nextState(i)]
  /\ buf' = [i \in Blocks |-> IF nextState(i) # "WRITE" THEN None
                              ELSE IF WritesLine(i) THEN cmd[i] ELSE buf[i]]
  /\ sync' = [i \in Blocks |->
                [data |-> IF nextState(i) # "WAIT_FOR_CPU" THEN <<0, 0>>
                          ELSE IF memSyncRegEna(i) /\ ~fault THEN mem[bus.cmd.addr]
                          ELSE sync[i].data,
                 fault |-> IF memSyncRegEna(i) THEN fault ELSE sync[i].fault]]
  /\ accepted' = {i \in Blocks : stall(i) /\ (i \in accepted \/ Accepts(i))}
  /\ resume' = {i \in Blocks : stall(i) /\ (i \in resume \/ WritesLine(i))}

\* The memories of a block, which are enabled by the command of the next cycle;
\* an invalidation wins over an update.
Stored(i) ==
  IF Fills(i) THEN [addr |-> cmd[i].addr, valid |-> TRUE, data |-> mem[bus.cmd.addr]]
  ELSE IF WritesLine(i) THEN [addr |-> cmd[i].addr, valid |-> TRUE,
                              data |-> Merged(line[i].data, cmd[i])]
  ELSE line[i]

\* Seeded fault: an update of the line wins over an invalidation.
ValidateWins ==
  /\ line' = [i \in Blocks |->
                IF cmd'[i] # None /\ Stored(i) # line[i] THEN Stored(i)
                ELSE IF i \in doomed THEN [line[i] EXCEPT !.valid = FALSE] ELSE line[i]]
  /\ doomed' = Invalidated

LineEdge ==
  /\ line' = [i \in Blocks |->
                LET new == IF cmd'[i] # None THEN Stored(i) ELSE line[i]
                IN IF i \in doomed THEN [new EXCEPT !.valid = FALSE] ELSE new]
  /\ doomed' = Invalidated

BusEdge ==
  /\ sel' = requestSelect
  /\ \E ready \in BOOLEAN :
       /\ bus' = IF busy
                 THEN [bus EXCEPT !.age = IF @ < MinLatency THEN @ + 1 ELSE @, !.ready = ready]
                 ELSE [cmd |-> granted, age |-> IF granted = None THEN 0 ELSE 1, ready |-> ready]
       /\ ready => bus'.cmd # None /\ bus'.age >= MinLatency
  /\ mem' = IF busy \/ ~Writes(granted) \/ granted.addr \in Unmapped THEN mem
            ELSE [mem EXCEPT ![granted.addr] = Merged(@, granted)]

\* A write takes effect when a block issues it, and at the latest when its
\* instruction leaves the processor.  Its own context sees it from then on, the
\* others may; writes of others that are under way may still come later.
Issues(i) == Idle(i) /\ Writes(request(i))
Lost(i) ==
  /\ Writes(cmd[i]) /\ ~Bypassed(cmd[i]) /\ ~stall(i) /\ ~busFault(i)
  /\ Together(i) \cap accepted = {}
UnderWay(i) == IF state[i] = "BYPASS" THEN cmd[i] ELSE buf[i]
Visible ==
  may' = [c \in Contexts |-> [a \in Addrs |-> [h \in 1..2 |->
    LET starts == {i \in Blocks : (Issues(i) \/ Lost(i)) /\ cmd[i].addr = a /\ Covers(cmd[i], h)}
        own    == {i \in starts : runs[i] = c}
        late   == {i \in Blocks : /\ runs[i] # c /\ UnderWay(i).addr = a
                                  /\ Covers(UnderWay(i), h)}
    IN (IF own = {} THEN may[c][a][h]
        ELSE {cmd[i].v : i \in own} \cup {UnderWay(i).v : i \in late})
       \cup {cmd[i].v : i \in starts}]]]

Edge(new) ==
  /\ CpuEdge(new) /\ ControllerEdge /\ LineEdge /\ BusEdge /\ Visible
  /\ clk' = ~clk
  /\ otherStall' \in SUBSET {runs[i] : i \in {j \in Blocks : cmd'[j] # None}}

\* One cycle, in which the contexts in asking make their next access.
Cycle(asking) ==
  /\ \A c \in asking : program[c] # <<>>
  /\ program' = [c \in Contexts |-> IF c \in asking THEN Tail(program[c]) ELSE program[c]]
  /\ Edge([c \in Contexts |-> IF c \in asking THEN Head(program[c]) ELSE None])

Tick ==
  /\ \E asking \in SUBSET {runs[i] : i \in {j \in Blocks : ~stall(j)}} : Cycle(asking)
  /\ UNCHANGED runs

\* A commit of the reconfiguration controller: the contexts whose lane groups
\* change have drained, and their memories do not block.
Reconfigure ==
  \E r \in Placements \ {runs} :
    LET kept == {i \in Blocks : /\ r[i] = runs[i]
                                /\ {j \in Blocks : r[j] = r[i]} = Together(i)}
    IN /\ \A i \in Blocks \ kept : cmd[i] = None /\ ~blockReconfig(i)
       /\ \E asking \in SUBSET {runs[i] : i \in {j \in kept : ~stall(j)}} : Cycle(asking)
       /\ runs' = r

Next == Tick \/ Reconfigure
Spec == Init /\ [][Next]_vars

\* The clock runs, and no slave is busy for ever.  (The two values of clk say
\* the same as weak fairness of Next, for less work.)
FairSpec == Spec /\ []<>clk /\ []<>~clk /\ []<>(~busy)

-----------------------------------------------------------------------------
\* What a context reads, whether from a block, from the memory or past the
\* cache, is its own last write or a write of another context that is not
\* older, also when its lane groups were coupled, taken away or exchanged
\* between the write and the read (rules at the top of cache_data.vhd).
ReadsLatest ==
  \A i \in Blocks :
    Reads(cmd[i]) /\ ~stall(i) /\ ~busFault(i) =>
      \A h \in 1..2 : readData(i)[h] \in may[runs[i]][cmd[i].addr][h]

\* No write to the address is buffered, and no invalidation is on its way.
Settled(a) ==
  /\ \A i \in Blocks : UnderWay(i) # None => UnderWay(i).addr # a
  /\ doomed = {}

\* Once the writes to an address have reached the memory, every valid copy of
\* it in a block is what the memory holds: no invalidation is lost between a
\* fill of one block and a write of another.
Coherent ==
  \A i \in Blocks :
    line[i].valid /\ Settled(line[i].addr) => line[i].data = mem[line[i].addr]

\* Every access lets the processor go on, whatever the blocks of the other
\* groups do with the bus and however long the processor is stalled elsewhere.
AccessesEnd == \A i \in Blocks : cmd[i] # None ~> ~stallIn(i)
=============================================================================
