# A TLA+ model of the rho-VEX core, its bus and caches, and its debugger

The repository holds the rho-VEX processor (VHDL under `lib/rvex`), a VLIW
processor whose lane groups can be given to hardware contexts at run time, and
the programs around it, among them the debug server `rvsrv` and the debugger
`rvd` (C under `tools/debug-interface`). This project models the parts in which
several actors have to agree without seeing each other's present state: the
reconfiguration controller of the core, the data caches and the bus, the debug
link between `rvsrv` and the processor with the serial line below it and the
main loop above it, and the debugger with its gdb bridge.

## Inventory

| part | state | operations | talks to |
|---|---|---|---|
| reconfiguration controller `core_cfgCtrl.vhd` | current configuration registers, busy / error / requester ID, registered block signals | request, reject, decode, wait, commit | contexts' programs (CRR), debug bus (BCRR), wake-up system, pipelanes, memories |
| configuration decoder `core_cfgCtrl_decode.vhd` | new configuration registers, busy, group counter | start, evaluate a group, abort | the controller |
| wake-up registers `core_contextRegLogic.vhd` | WCFG, SAWC.S | program stores, acknowledge | the controller, the interrupt input |
| pipelanes and branch unit `core_pipelane.vhd`, `core_br.vhd` | instructions in flight | fetch, drain | controller (`requestReconfig`, `blockReconfig`), memories |
| data cache `cache_data*.vhd` | a line store, a state machine and a write buffer per lane group | read, write, fill, bypass, invalidate | pipelanes, bus, the other blocks (snooping), controller (`blockReconfig`, `decouple`) |
| bus fabric `bus/` | grant, lock, pipelined result select | arbitrate, demultiplex, delay | debug UART, caches, peripherals |
| debug UART `periph_uart_*.vhd` | stream switch, packet buffers, address / data / result registers, valid flag | escape, set page, bulk read / write, prepare, execute | serial line, bus |
| command sequencer `rvsrv/uart/debugCommands.c` | operation queues, 16 slots, two sequence counters, issue count, timer | queue, receive, time out, retry, give up, issue, pass a barrier | serial line, requests |
| requests `rvsrv/uart/debugReadWrite.c` | callback data per request | split into commands, collect replies, answer | sequencer, TCP clients |
| serial port `rvsrv/serial.c` | ring buffers for both streams and the raw line, escape and packet state | route received characters, interleave, pad, flush | tty, main loop |
| main loop `rvsrv/main.c`, `tcpserv.c`, `select.c` | sockets, client structures, descriptor sets, command buffers | select, accept, read, handle, reply, reconnect, stop | clients, serial port, rvex interface |
| `rvd` evaluator and commands `rvd/parser.c`, `definitions.c`, `commands/` | definitions per context, preload buffer, files | scan and evaluate, read, write, fill, upload, download | `rvsrv` |
| gdb bridge `rvd/gdb/` | child process, packet buffers, breakpoint registry | select, read, handle packet, set / remove breakpoint, wait | gdb, `rvsrv` |
| instruction cache, interrupt controller, trace unit, I2C, systems, generators, platforms, tests | | | |

What is hard here, and why tests hardly reach it:

* the commit of a configuration is decided on copies of the contexts' and
  memories' signals that are one clock cycle old;
* the wake-up system, the debug bus and every context may ask for different
  words in the same cycle, and a decoding may fail half way;
* the blocks of the data cache fill, buffer writes and invalidate each other on
  their own, while the lane groups they belong to are coupled and split;
* a bus grant, its result and its lock belong to different clock cycles;
* the debug link retries commands whose replies may be only late, with 4-bit
  sequence numbers and an issue count that is not reduced modulo 16, and
  accesses with side effects must happen exactly once over a line that loses
  packets;
* two streams share a serial line with escapes, and buffers that are full in
  the middle of a packet;
* client IDs and descriptor numbers are used again while something still
  refers to them;
* `rvd` executes text while it scans it, and must scan text that it must not
  execute;
* gdb may exit, and a memory access may fail, at any moment;
* everything ends: a request is committed or failed, a sleeping core wakes up,
  an access and a bus request are served, a client, a packet and a command are
  answered, a server that is told to stop stops.

What makes each part correct: the decoder accepts exactly the legal words and
decodes them right; the controller never disturbs a context it need not halt
and never takes lanes from under one that is running; software sees requests as
atomic; a context reads what it wrote, wherever it runs now; a bus result
reaches the master that asked; the sequencer's bookkeeping is consistent, its
barriers wait, its commands are never in two places; both streams of the serial
line arrive unchanged; each client gets one answer, its own; an expression does
what its tree means; gdb's idea of the breakpoints is true.

`PROJECT.json` lists every component, the hazards at their lines, and where
each definition comes from.

## Modules

### Reconfiguration

* `ConfigWord`: configuration words, the mask, and the combinatorial part of
  the decoder (group IDs, match tree, size encoder); and, independently of it,
  what a word means by the rules of the user manual (`LegalWord`,
  `DecodedWord`). A word has eight nibbles as in the hardware.
* `CfgDecode`: the decoder's registers and its three kinds of clock edges
  (`DecodeStart`, `DecodeGroup`, `DecodeAbort`). `last` and `num` are
  `lastPipelaneGroupForContext` and `numPipelaneGroupsLog2ForContext`; a
  matrix or a vector of bits is the set of positions whose bit is high.
* `LaneDecode`: lane indices and PC increments (`pc_add_val_decoder`), which are
  functions of the decoded registers, and what `core_pipelane.vhd` makes of
  them: the next PC and the next fetch address, put together from a short adder
  per lane and one of two upper halves (`combinePC`), also when nothing was
  fetched yet (`limmValid`).
* `CfgCtrl`: the controller. A step is one enabled clock edge; `NoRequest`,
  `RejectRequest`, `RepeatRequest`, `AcceptRequest`, `Decode`, `FailDecode`,
  `AwaitIdle` and `Commit` are the cases the status registers distinguish, and
  every one includes what happens in the same cycle around the controller
  (`Surroundings`): the block registers sample, pipelines fill or drain,
  memories start or stop blocking, the interrupt line and the wake-up registers
  change. Pipelines are abstracted to whether a context has anything in them:
  they may fill only when the context may run, and may drain at any pace.
  Memories follow the contract written in `core.vhd`: a memory starts to block
  only in answer to requests of lanes that were active, and coupled groups see
  the same signal.
* `Reconf`: the controller; the controller of a core whose program sleeps while
  the debug bus keeps asking; or the decoder by itself with many more words.
* `AtomicReconf`: what software relies on, without decoder, pipelines or block
  signals: a request is refused, ignored, or pending, and a pending one is
  applied as a whole or fails. `CfgCtrl` maps to it by `Abstract`: `pending`
  is the decoder's word while `busy` is high. Whether a request for the current
  configuration clears the error flag is left open in it, because code and
  documentation differ.
* `ErrorFlag`: the controller with a note of how the last request ended, to
  compare the error flag with what is documented of it (run `flag`).

### Bus and data cache

Both modules describe hardware cycle by cycle. A state holds the registers and
the inputs of one clock cycle, every other signal is an operator with the
signal's name, and `Tick` is the rising edge with the inputs of the next cycle.

* `BusFabric`: `bus_arbiter` with its lock, `bus_stage`, and `bus_demux` with
  slaves of disjoint ranges. Slaves take any number of cycles, masters hold a
  request until it is acknowledged (`bus_pkg.vhd`), and data are the identity of
  the request they answer. `wait` and `asked` are history.
* `DataCache`: `cache_data` (the routing networks of coupled groups),
  `cache_data_block` with its tag, valid and data memories and its invalidation,
  `cache_data_mainCtrl`, and the arbiter and the snooping of
  `rvsys_standalone_cachedCore`. A context executes a given sequence of reads,
  writes of words and writes of parts of words, is stalled for other reasons at
  any time, and `Reconfigure` is a commit of the controller: the groups that it
  changes are idle and no block of theirs raises `blockReconfig`, which is what
  `CommitQuiet` and `DecoupleContract` say of `CfgCtrl`, while the others go on. All addresses have the
  same offset, so that a block holds one line and an address is its tag.
  `may[c][a][h]` is history: the values context `c` may find in part `h` of `a`,
  namely its own last write and whatever others have issued since, or had under
  way then.

### Debug link

* `SerialLink`: packets in flight in both directions, at most `Depth` each; a
  packet is lost when it is corrupted (either receiver checks the CRC) or when
  it arrives at occupied receive buffers. Packets are never reordered.
* `DebugCommands`: the sequencer, and the commands its requests consist of. One
  round of `rvsrv`'s main loop is a sequence of steps (`phase`): requests are
  queued, replies received one at a time, the timer is looked at, commands are
  issued one at a time. The line and the processor move between any two of
  them. Requests have some bulk packets within one page of their own and a last
  word, because `handleRead` and `handleWrite` always access the last word by a
  volatile operation.
* `PacketHandler`: the state machine of the processor's end. A packet is
  handled in one step: the next packet is only looked at when the reply has been
  handed over, so nothing can come between. `astray` and `performed` record what
  happened on the bus.
* `DebugLink`: the three together, and the properties of the whole.

### Serial line

What `SerialLink` takes for granted, packets that arrive whole or not at all, is
the work of `serial.c` on one side and `periph_uart_switch` on the other.

* `UartStream`: control characters, escapes, and the hardware's receiver.
* `SerialTransmit`: the ring buffers of `serial.c` towards the processor and
  `serial_flush`: one step per decision of its loop, which interleaves the
  application's bytes with packets, keeps the delay a packet asks for by padding,
  and stops at a full raw buffer to write it out. What is static in the C code
  is a variable.
* `SerialReceive`: the hardware's transmitter, which changes between the two
  streams at its own pace, the line, and `serial_update` with the calls of the
  main loop that empty its buffers.
* `SerialPort`: either direction; they share nothing.

### Debug server

* `DebugServer`: a round of `rvsrv`'s main loop, one step per call it makes:
  `select_wait`, `serial_update` or reconnecting, `tcpServer_update` of either
  server (accept, then read), the handling of bytes and commands, replies,
  flushing. Clients connect, send, and leave between any two steps; the port is
  unplugged and plugged in; SIGTERM arrives. For a client that has gone `read()`
  and `write()` may fail, which ends the server's turn (`ReadUpTo`,
  `FlushUpTo`), or raise SIGPIPE, which ends `rvsrv`. Descriptor numbers are the lowest
  free ones, as the kernel gives them. Clients follow a script of symbols.

### rvd

* `RvdEval`: the scanner and evaluator of `parser.c`, with definitions bound per
  context mask, the preload buffer, and the accesses through `rvsrv`. `evaluate`
  is one pass over a text of tokens, as in the code.
* `RvdFiles`: blocks, pages, S-records and straight files; upload and download.
* `RvdCommands`: one run of a command for each selected context. Beside the
  world the code works on it keeps a second one by the meaning of expressions as
  trees: the reference.
* `GdbBridge`: `rvd gdb`. rvd's steps are those between two system calls (pc),
  gdb is the environment: it sends packets that are cut anywhere into chunks,
  exits, or closes the connection; the target halts at any time.
* `Rvd`: either of the two.

Definitions called *seeded fault* are broken variants of the definition that
follows them; they are used to show that a property can fail.

## Runs

| run | shows |
|---|---|
| `controller` | `DecodeSound`: error exactly for illegal words, right registers otherwise; `LanesSound`; `TypeOK`, `CurrentConfigSound`, `HaltsAffectedOnly`, `CommitQuiet`, `DecoupleContract`, the inductive invariant `CommitInv`; and `AtomicToSoftware`: the controller implements `AtomicReconf`, its liveness included, so that every accepted request ends. And of a sleeping core `WakeupServed` |
| `fabric` | `RightAnswer`, `RequestHeld`, `LockKept`, `BoundedWait`, `Served` |
| `cache` | `ReadsLatest`, `Coherent`, `AccessesEnd` |
| `link` | `CounterSound`, `CallbacksSafe`, `ExactlyOnce`, `OnOwnPage`, `BarrierWaits`, `RequestsAnswered` |
| `serial` | out: `StreamsDelivered`, `DelayKept`, `FlushEnds`; in: `StreamsRecovered`, `NothingLeftBehind`, `RepliesArrive` |
| `server` | `Watched`, `OwnReplies`, `CommandsAnswered`, `Stops` |
| `rvd` | `Meant`, `BlocksExact`, `BreakpointsInPlace`, `ProgramRestored`, `BridgeEnds`, `PacketsAnswered` |
| `flag` (violation) | a valid request for the current configuration leaves the error flag of a refused one up |
| `narrow` (violation) | with fewer contexts than groups the commit looks at the wrong memory |
| `exactly_once` (violation) | late replies break the exactly-once guarantee |
| `overtake` (violation) | with coupled groups among four, a read passes a buffered write whose line was invalidated by mistake |
| `escape` (violation) | an escape is separated from its byte by a packet |

### Bounds

* `controller` has four groups, four contexts, eight lanes and a bundle
  alignment of two (the default configuration of the core). The decoder by
  itself gets all words over the nibbles 0..3, 8 and 9; cores of one, two or
  eight groups add no new kind of node to the match tree. The controller gets
  four words that split, move, misalign and leave the mask; one context and the
  bus may ask. The sleeping core gets those of them that do not wake it from the
  bus, and a wake-up word that runs context 0 on half of the core. Pipelines, memories and request
  pulses are unconstrained. `flag` has the controller of this core alone.
* `fabric` has three masters, one of which may lock, one of which also asks for
  an address nobody has, and two slaves of any speed; with and without the
  pipeline stage.
* `cache` has two blocks, the placements "both groups to context 0", "one
  group each" in either order, and a third context in the place of the second
  one while the first goes on; and five pairs of programs of one to four
  accesses, in which the contexts write to an address the other one reads,
  evict lines, write parts of words that are cached or not, bypass the cache,
  and read from an address that gives a fault. Two tags suffice for both
  blocks to be chosen for a fill. The memory answers after `MinLatency` = 2
  cycles or any number more; a system with latency injection, the default, has
  more. What happens with 1 is told below. What three blocks or more can do is
  the theorems' part. `overtake` has four blocks, in coupled pairs, and the
  programs of its counterexample.
* `link` has `MaxIssued` = 3 where the code has 4: with four bulk packets the
  pipeline is full either way. `Retries` = 3 and 16 sequence numbers are those
  of the code. `Depth` = 2: one packet being handled and one being received is
  what the hardware's two buffers hold. `MaxLosses` = 1 corrupted packet and
  `MaxLate` = 1 timeout that fires while a packet is on its way; a timeout with
  nothing on its way is not bounded. `exactly_once` has the code's 4, a read of
  five bulk packets and two early timeouts: the border beyond which
  `ExactlyOnce`, and with it `OnOwnPage` and `BarrierWaits`, fail.
* `serial` has bytes of three bits (three control characters, their
  complements and two others), ring buffers of four entries and packets of up to
  three characters, so that every buffer is full in the middle of something.
* `server` has command buffers of two symbols and four scenarios: clients that
  inherit the ID of one that left, clients that leave during SIGTERM, a port
  that is unplugged, comes back and leaves its descriptor to a new client (also
  during SIGTERM), and a client with too long a command.
* `rvd` has bytes of two bits, words of four bytes, eight bytes of memory, pages
  of four bytes, records of two, a preload buffer of four, three levels of
  expansion, and three breakpoint slots. The texts it evaluates contain every
  construct of the language at least once; the gdb sessions set, hit, remove and
  fail to set breakpoints and watchpoints at four addresses, one of which can
  neither be read nor written and one of which can only be read, and write
  memory.

### Fairness

* `CfgCtrl`: the clock runs while there is something to do (`busy` or a
  wake-up), a halted context's pipeline drains, and its memories stop blocking
  when it makes no requests, which `core.vhd` states as an assumption of the
  processor. Nobody is assumed to make requests or to leave the line free.
* `BusFabric`: the clock runs, a slave is not busy for ever, a lock is released.
* `DataCache`: the clock runs and the bus is not busy for ever. That the stalls
  of other units end is not assumed: an access ends when the cache no longer
  stalls.
* `DebugLink`: the main loop goes round (`select_wait` returns at the latest
  after its timeout), a reply that keeps being available is read, time passes
  while a reply is expected, and the packet handler answers. Losses and early
  timeouts end because they are bounded; nothing else is assumed of the line.
  Without that bound a reply may always come just after its timeout, and the
  client is then never answered: the timer is not restarted by a retry, and the
  replies that arrive reset `timeoutCount`.
* `SerialPort`: `serial_flush` does not stop on its way, the UART sends what it
  is given, the main loop goes round.
* `DebugServer`: the loop goes round, the rvex interface completes what it was
  given again and again (`RequestsAnswered` is about this), and `read()` does not
  fail for ever: a connection reports its end once as an error, and then as end
  of file. Nothing is asked of the clients, who may stay connected and say
  nothing; a server that sleeps in `read()` for one of them (`InRead`) owes
  nothing until it is woken, and `CommandsAnswered` and `Stops` say so.
* `Rvd`: rvd runs when it can, the program under test halts at last, gdb takes
  the replies it is sent.

## Proofs

Each proof module extends the component's module and TLAPS; `SequenceFacts` has
the facts about sequences that several of them use. The results hold for
every value of the constants the module's assumption admits: every number of
groups and contexts the generics allow, any number of masters, slaves and
clients, any buffer sizes, words and scripts, where TLC has the small ones of
the cfg.

| module | theorems | property of a run |
|---|---|---|
| `CfgCtrlProofs` | `DecoderIsSound`, `TypeCorrect`, `CommitInvariant`, `CommitIsQuiet`, `DecodedInvariant`, `ConfigIsSound`, `HaltIsExact`, `DecoupleIsKept`, `ImplementsAtomic` | `DecodeSound`, `TypeOK`, `CommitInv`, `CommitQuiet`, `CurrentConfigSound`, `HaltsAffectedOnly`, `DecoupleContract`; the safety part of `AtomicToSoftware` |
| `BusFabricProofs` | `FabricInvariant`, `EveryAnswerRight`, `EveryRequestHeld`, `LockIsKept`, `WaitIsBounded` | `RightAnswer`, `RequestHeld`, `LockKept`, `BoundedWait` |
| `DataCacheProofs` | `GroupsHold`, `CacheIsCoherent`, `ReadsAreLatest` | `Coherent`, `ReadsLatest` |
| `SerialPortProofs` | `RoundInvariant`, `NothingIsLeft`, `DistanceInvariant`, `DelayIsKept`, `StreamInvariant`, `StreamsArrive` | `NothingLeftBehind`, `DelayKept`, `StreamsDelivered` |
| `DebugServerProofs` | `LoopInvariant`, `SleepIsWatched`, `AnswerInvariant`, `AnswersAreOwn` | `Watched`, `OwnReplies` |
| `DebugLinkProofs` | `LinkInvariant`, `CountersAreSound`, `PlacesInvariant`, `CallbacksAreSafe`, `BarriersWait`, `BarriersWaitInTime`, `OnceInvariant`, `AccessesHappenOnce`, `PagesAreOwn` | `CounterSound`; up to the first early timeout `CallbacksSafe`, `BarrierWaits`, `ExactlyOnce` and `OnOwnPage` |
| `GdbBridgeProofs` | `BridgeInvariant`, `BreakpointsStay`, `ProgramStays` | `BreakpointsInPlace`, `ProgramRestored` |

The assumptions are those the code states or its types imply:
`GenericsAssumption` and `EnvironmentAssumption` (the generics of the core, and
who drives its inputs), `RequestWordsAssumption` (words of eight nibbles),
`FabricAssumption` (at least one master and one slave; a request names its master
and a slave or nobody), `StreamAssumption`, `TransmitAssumption` and
`ReceiveAssumption` (bytes hold the control characters, buffers are not empty,
packets are sequences of bytes), `ServerAssumption` (finitely many connection
attempts, any scripts), `SequencerAssumption` (requests of any size, at least
one command in the pipeline and one retry), `LinkAssumption` (buffers that hold a
packet) and `CompositionAssumption` (the requests are the clients' own),
`AddressAssumption`, `UnitAssumption` and
`SlotAssumption` (addresses, breakpoint units, the number of slots). Two
theorems, `CommitIsQuiet` and `DecoupleIsKept`, also assume
`NumContextsLog2 >= NumLaneGroupsLog2`: the run `narrow` is the counterexample
without it, and the proofs use it exactly where the last group is truncated to
the width of a context index.

The data cache has `CacheAssumption` (at least one block and one cycle of
latency, programs of accesses, and coupled groups that are aligned, so that the
lowest bits of a tag choose exactly one block of each) and three hypotheses of
single theorems:

* `WritesMapped`, of all three: no write that goes through a buffer is to an
  address that faults. A comment at `cache_data.vhd:303` excludes the case
  ("writes cannot generate bus faults at this time because of the write
  buffer"); without it a line would keep what the memory did not take. Reads,
  fills and writes past the cache may fault;
* `MinLatency >= 2`, of `CacheIsCoherent` and `ReadsAreLatest`: with 1 both are
  false (see below);
* `FewGroups`, of `ReadsAreLatest`: two lane groups in any coupling, or any
  number of groups none of which are ever coupled. The run `overtake` is a
  counterexample with four groups in coupled pairs.

The arguments:

* *Decoder.* `WalkInv` says what the registers hold after the first groups of
  the word have been looked at: the groups walked form whole aligned blocks
  (`WholeBlocks`) as long as there is no error, and the registers are those the
  manual's rules give for that part of the word (`WalkRegs`). An error is raised
  exactly when the next group breaks a rule of `LegalWord`.
* *Commit.* `CommitQuiet` is not inductive, because the commit looks at
  registers that are one cycle old. `Settled` says that once halting has been
  requested for a full cycle (`blockDecode` low), what the block registers do
  not show cannot have started since: a halted context does not fetch, so its
  pipe stays empty once it is, and its memories do not start to block. That needs
  the last group registers to name a group the context really runs on
  (`LastGroupRuns`), which in turn needs the words in the decoder to lie within
  the mask, so that the context bits of an enabled group are the whole nibble.
* *Configuration.* `DecodedInv` joins the two: while `busy` is high the decoder
  is on its way through the requested word or holds exactly what a legal word
  means, and the current registers are always those of the current word. With it, the halted contexts are exactly
  those whose lanes change. `MemoryInv` says that memories of coupled groups
  block together, which `DecoupleIsKept` needs.
* *Refinement.* `KnownInv` says that the words in the registers are words
  somebody asked for; with it and the invariants above every clock edge is a
  step of `AtomicReconf` or a stutter. This is the safety part; fairness is
  TLC's.
* *Bus.* `FabricInv`: below the arbiter there is never anything but the request
  of the master the result select points at (`OneTransfer`), the stage follows
  it (`StageFollows`), and a master that is kept waiting holds its request
  (`Holding`). `TurnComes` bounds the wait by the masters in cyclic order: those
  still before a waiting one have not been counted.
* *Data cache.* `GroupInv`: the lane groups of a context see the same access,
  and exactly one of their blocks is asked for a miss, or for a write (the
  alignment makes the first unique, priority and index the second). A block that
  waits has a reason the others can see (`Controller`), so nothing else of the
  group moves on meanwhile, and a block that is left by its context has nothing
  to do, so that a commit beside it changes nothing. `LineInv` says what a valid
  line holds: what the memory holds, with the block's own buffered write over
  it, unless another block's write to the address is on the bus and the
  invalidation is still under way (`Stale`). A fill is the hard case: the bus is
  granted to a write in the cycle in which the fill ends, and the comparison
  sees the old tag; the line goes one cycle later because the write is still on
  the bus then. That is where two cycles of latency are needed.
  `ReadsLatest` needs to know which copies of a line a group can have.
  `PairInv` and `AloneInv`: if a block buffers a write, a copy in the other
  block of the group is either lower and not the one that is read, or a later
  write; and a block that lost the line of a buffered write is the next at the
  bus, since the write that took it is there and round robin has only one other
  block to serve. `OwnerInv` says the same of a block that fetches. With three
  groups somebody else may be served first, and this is what `overtake` is
  about. `MayInv` then carries the history along: every value in a
  buffer, in the memory, in a line or in a result that waits is one its readers
  may find.
* *Serial port.* Receiving: what a round reads fits into either stream's buffer,
  whatever the characters, because a character of the line is at most one of a
  stream (`RoundInv`). Transmitting: the characters sent since the last packet,
  the delay left and the bytes of the packet that is ready always add up to at
  least what was asked for (`Distance`), also across a full raw buffer.
  `StreamsDelivered` compares a stream with what the hardware's receiver, a fold
  over all characters, has made of the line, so that its invariant says where
  everything is that was sent and has not arrived (`Delivery`): an application
  byte is on the wire, in the buffer or about to be pushed; a packet is on the
  wire, was left out because it is too long, or lies in what waits as its bytes
  and a delimiter (`Holds`). `Carries` says what the characters on the wire
  are, together with what the receiver has of them already: an escape whose
  byte is still to come, or the beginning of a packet. Taking a character only
  moves that border, and each step of the flush moves one element from one
  place to the next.
* *Debug server.* `LoopInv`: a connection is one client or waits once; a
  descriptor number has one owner; a client is registered exactly while its
  buffer is empty; which buffers are empty at which call of the round; and a
  listening socket that was ready has still something to accept. That a number
  is free when one is needed is a pigeonhole argument over the connections.
  `AnswerInv` follows the requests: a command is counted when it is given; its
  tag is in the interface's queue or in the answers of one client, and never
  twice; a connection that was not served yet has no tags; and an ID with
  requests of another makes its new owner an heir. `OwnReplies` alone says
  nothing of the queue, so no step of it could be proved.
* *Debug link.* What `numIssuedPackets` counts holds for any number of early
  timeouts (`Counted`): a reply that makes `requeueUntil` go through d numbers
  takes d from it modulo 16 and empties at most d slots, and issuing adds one to
  both. While no timeout came early (`late = 0`) the slots in use are exactly
  the window of `numIssued` numbers from `rxSeqCounter` (`Window`); the packets
  on the line carry ascending numbers of that window, replies before commands
  (`Flight`): so a reply is always of a slot that waits for it and counts what
  was lost before it. `Placed` holds for any lateness: an operation is in the
  queue, in the reissue queue or in one slot. `Unanswered` adds that with
  `late = 0` an idle link has no slot in use, and that the completing operation
  is the last of its request, so that nothing is left of a request when its
  client is answered. `OnceInv` follows a request through its commands: the
  queue continues them without a gap (`Chain`), so that the next operation says
  how far the link has come. What waits, is to be repeated or is on the line are
  commands of the kind issued last (`Repeatable`), because only alike commands
  follow each other without a barrier (`Neighbours`). For every place in the
  request, `Stage` says what page, prepared operation, result and count of
  accesses the target can have: after EXECUTE was issued it has either not been
  handled (`Fresh`) or been performed once and every reply carries its result
  (`Done`), and it cannot be prepared again before the reply is in. This holds
  with any number of lost packets, retries and requests given up.
* *gdb bridge.* `BridgeInv`: however packets are cut, there is one frame or one
  result between gdb and rvd at a time (`ProtocolSound`); memory holds a
  breakpoint instruction exactly where the registry has a slot for it
  (`Registry`); and the answer that is on its way tells gdb what is true of the
  registry (`Agreement`).

Facts about sequences that need an induction (the length of an escaped stream,
the least free number) are proved by looking at the least counterexample, with
the well-foundedness of the natural numbers, instead of an induction rule.

Only model-checked:

* all liveness properties (`WakeupServed`, `Served`, `AccessesEnd`,
  `RequestsAnswered`, `FlushEnds`, `RepliesArrive`, `CommandsAnswered`, `Stops`,
  `BridgeEnds`, `PacketsAnswered`), and the fairness part of `AtomicToSoftware`:
  out of the prover's reach;
* `LanesSound`, which is about sums over the lanes of a group;
* `StreamsRecovered`: it fails when the user's bytes need escapes (run
  `escape`), and `serial` checks it for bytes that need none;
* `CallbacksSafe`, `BarrierWaits`, `ExactlyOnce` and `OnOwnPage` after a first
  early timeout. They hold for one (run `link`) and some of them fail for
  enough (run `exactly_once`), so that a proof would have to count the copies of
  a command that are on their way;
* `Meant` and `BlocksExact`: `RvdEval` and `RvdFiles` are recursive functions
  over texts and files and use the operators on bits.

## What the model showed about the code

Besides the findings of `PROJECT.json`, met on the way.

Reconfiguration:

* a write to WCFG does not set SAWC.S: the assignment at
  `core_contextRegLogic.vhd:1631` is overridden in the same process by the one
  at 1692, which writes the old value back. `core-ug-reconf.tex:196` says that it
  arms the wake-up system;
* the mask accepts disable encodings 9..15 as far as the context bits allow,
  which the manual reserves (`core-ug-reconf.tex:35`);
* the PC increment registers after a commit can differ from those after reset
  (the clearing loop in `pc_add_val_decoder` covers as many bits as there are
  lanes, so that bit 2 survives in a two-lane core); the branch unit aligns the
  sum again, so the next PC is the same.

Data cache:

* a context on coupled groups may read a value older than its own last write,
  in two ways. The tag an invalidation is compared with is read at the edge at
  which a write of the block may replace it, and the valid bit is cleared by its
  place in the memory one cycle later (`cache_data_block.vhd:423`), so that a
  line that has just been written is lost although the write on the bus is to
  another address; the next read misses and may reach the memory before the
  buffered write (`overtake`). And the priority of a block for the next write
  does not depend on the address it buffers a write to
  (`cache_data_mainCtrl.vhd:454`): when a write of another context has taken its
  line, the next write to the same address goes to the other block of the pair,
  and the arbiter serves the two in the order of the blocks, so that the older
  one is what remains (`Programs <- MCTwice` in `MCOvertake.cfg`). Both need a
  third lane group to be served in between: `ReadsAreLatest` shows that nothing
  of the kind happens with two groups, or without coupling;
* with `MinLatency` = 1, a memory that acknowledges in the cycle after the
  request (`bus_ramBlock` without latency injection), `Coherent` fails. Block 0
  waits for the fill of `x`; in the cycle of its acknowledge the arbiter grants
  block 1's write to `x`. At the next edge block 0 writes the tag of `x`, and at
  the same edge reads the old tag for the comparison with the invalidated address
  (`cache_data_blockTag.vhd:164`). The write is over in one cycle, so the
  invalidation is not repeated, and block 0 keeps the old value as valid. With
  one cycle more the request is still on the bus at the following edge, and the
  line goes. `standalone.tex:28` calls the cache coherent for accesses of the
  processor itself. To see it, set `MinLatency = 1` in `MCDataCache.cfg`;
* `memSyncRegFault` is only written together with a result, so that a fault
  of an earlier access is still there when a buffered write is acknowledged
  while the processor is stalled: `STATE_WAIT_FOR_CPU` then reports it again;
* a bus fault of a buffered write, which the comment at `cache_data.vhd:303`
  excludes, lowers the stall of a coupled block that is being filled, and the
  fill ends at the address of the next access;
* a flush while a write is buffered drops the only block that knows the new
  value; a coupled read may then fetch the old one;
* `STATE_UPDATE_2` is never reached: every system connects both clock enables
  to one signal (`rvsys_standalone_cachedCore.vhd:362`,
  `rvsys_grlib_rctrl.vhd:318`).

Debug link and serial line:

* `timeoutCount` is incremented before it is compared, so there are two retries
  where `TIMEOUT_RETRIES` says three;
* `transmitPacket(...) < -1` in `issueCommandOperation` never holds; a failed
  send is handled as a lost packet;
* `resetQueue` calls no callbacks for commands in the slots and the reissue
  queue; this is right for the callbacks in use, which do nothing on failure
  but for the final barrier's, and that one is always in `opQueue`;
* `init_uart_iface` assigns its parameter `tty` to itself, so that the file's
  own `tty` stays 0;
* the statics of `serial_flush` and `serial_update` are not reset when the port
  is opened again, and the result of the last write in `serial_flush` is
  ignored;
* padding within a packet, and packets cut by a full buffer, reach the hardware
  as empty packets, which it drops; `rvsrv` itself only asks for delay 0;
* `pcie_write` reports the length 0, and the mapped length of the mmio interface
  is not that of the mapping.

Debug server:

* `select_isReady` looks a descriptor number up in the set of the last
  `select()` (`select.c:154`) although it may have been closed and handed out
  again since. When an application client leaves, and a debug client is accepted
  in the same round and gets its number, or when the port is closed in a round
  in which it was ready, `tcpServer_update` calls `read()` for a client that
  has sent nothing, and the server sleeps until it does (`InRead`). Other
  clients wait for their answers as long as it says nothing, and SIGTERM does
  not end the sleep, because `read()` is started again after the handler
  (`signal()`, `main.c`). Without `InRead` in them both `CommandsAnswered` and
  `Stops` are violated: in the third scenario of `MCScenarios` the port is
  unplugged while client 2 connects;
* a client that has gone makes `write()` in `tcpServer_flushClient`
  (`tcpserv.c:506`) fail, or ends `rvsrv` by SIGPIPE, which nobody handles: the
  answers of all other clients are lost with it;
* replies to a client that left go to the client who inherited its ID
  (`tcpserv.c:204`); `OwnReplies` names these heirs and excludes no one else;
* failed attempts to open the port again are reported every round
  (`main.c:549`); the comment on EINTR is outdated.

rvd and gdb bridge:

* `&&` and `||` evaluate both sides; `set()` loses the access size of its
  value; a binding made by `set()` in one context may be shadowed by an older
  one for all contexts; a definition that redefines itself while it is expanded
  frees the text that is being scanned;
* a preloaded read at the end of the address space passes the check of the
  bounds; `write()` leaves the preload buffer as it was; a shift by 32 is used
  for a mask;
* replies of `rvsrv` are matched by the name of the command only;
* removing a hardware breakpoint leaves slot and index taken; a slot whose
  memory could not be read stays taken after Z0; an M packet over an inserted
  breakpoint is lost when the breakpoint is removed;
* when gdb is killed by a signal the pipe is not written; `fork()` may return
  after the child's exit was signalled; ^C is ignored while the target is
  polled; the read loop returns to `select()` only at the end of the stream;
* the checksum of a received packet is computed over unescaped bytes, and a
  packet gdb sends again is executed again;
* an upload of an unknown file type never ends; an empty S1 record and a
  record that jumps back to the start of its page are misread; a file that
  cannot be opened is reported but the command goes on.

## Not modelled

The instruction cache, which reads through the same networks without writing;
flushes of the data cache, and several lines in a block. Data paths (ALU,
multiplier, FPU, forwarding, register files), trap routing, the bit level of the
UART, I2C, the trace unit, the interrupt controller, clock crossing, the
generated register files but for the registers named above, wiring of systems
and platforms, generators, test programs and vendored libraries. `PROJECT.json`
gives the reason for each part. Most of the repository's lines of code are test
programs, generated tables and compiler configurations in which nothing has
state that two parties share. Reset and the clock enable appear as the initial
state and as steps that do not happen.

## Plan

1. (done) Reconfiguration controller, decoder, lanes; abstract specification;
   type invariant and `CommitQuiet` proved; the debug link.
2. (done) Bus fabric, data cache, serial line, main loop of `rvsrv`, `rvd` and
   its gdb bridge.
3. (done) Proofs: the decoder and the refinement of `AtomicReconf`, the bus
   fabric, the serial port's buffers and delays, the main loop of `rvsrv`, the
   gdb bridge, and the command sequencer with the packet handler up to the first early
   timeout.
4. (done) Proofs: `Coherent` and `ReadsLatest` of the data cache, and
   `StreamsDelivered` of the serial port.
5. The miss controller of the instruction cache and flushes, in `DataCache`; the
   interrupt controller, composed with the wake-up system.
