----------------------------- MODULE GdbBridge -----------------------------
(***************************************************************************)
(* "rvd gdb": rvd starts gdb as a child process, serves its remote serial  *)
(* protocol on a TCP connection and keeps the registry of breakpoints that *)
(* gdb inserts and removes (gdb-main.c, rsp-protocol.c, rsp-commands.c,    *)
(* rsp-breakpoints.c).  Characters of a packet's body are one item, which  *)
(* carries the packet; the connection loses and corrupts nothing.          *)
(***************************************************************************)
EXTENDS Integers, Sequences, FiniteSets

CONSTANTS
  Addresses,       \* addresses of syllables
  Unreadable,      \* those where a read ends in a bus fault
  Unwritable,      \* those where a write does
  MaxBreakpoints,  \* slots of the registry (1024)
  HwIndices,       \* hardware breakpoint indices rvd hands out (0 .. 31)
  HwUnits,         \* indices the memory map's _GDB_HARDBRK accepts
  Sessions         \* what the user has gdb do: sequences of packets

ASSUME AddressAssumption ==
  Addresses \subseteq Nat /\ Unreadable \subseteq Addresses /\ Unwritable \subseteq Addresses
ASSUME UnitAssumption == HwIndices \subseteq Nat /\ HwUnits \subseteq HwIndices
ASSUME SlotAssumption == MaxBreakpoints \in Nat

\* Software breakpoints, hardware breakpoints, and three sorts of watchpoints.
Types == 0 .. 4

\* rvd switches a hardware unit off by writing type 0 to it.
Off == [type |-> 0, a |-> 0]

NoPacket == [k |-> "none", type |-> 0, a |-> 0]
Packets ==
  [k : {"Z", "z"}, type : Types, a : Addresses]
    \cup [k : {"M"}, type : {0}, a : Addresses]
    \cup [k : {"c", "vRun", "D", "q"}, type : {0}, a : {0}]

VARIABLES
  alive,       \* "running", or how gdb ended: "exited" or "killed"
  conn,        \* "none", "pending" (not accepted yet), "open" or "closed"
  toRvd,       \* items on their way to rvd
  toGdb,       \* replies on their way to gdb
  asked,       \* the packet gdb waits for
  held,        \* breakpoints that gdb was told are in place
  script,      \* packets gdb has still to send
  chld,        \* a SIGCHLD is on its way
  pc,          \* where rvd is
  pid,         \* gdbPid: 0 before fork() returned or after gdb exited, else 1
  reaped,      \* the child was waited for
  pipe,        \* gdbTermPipe holds a byte
  chunk,       \* rest of what read() returned
  rxState, rxBuf,
  tx,          \* replies in txBuf
  attached,
  mem, text,   \* memory, and what the program has there
  running,     \* the program runs
  slots,       \* breakpointReg
  inUse,       \* hwBreakpointsInUse
  hw           \* what each hardware unit watches

gdbVars == <<alive, conn, toRvd, toGdb, asked, held, script>>
procVars == <<chld, pid, reaped, pipe>>
rspVars == <<chunk, rxState, rxBuf, tx, attached>>
targetVars == <<mem, text, running>>
brkVars == <<slots, inUse, hw>>
bridgeVars == <<gdbVars, procVars, rspVars, targetVars, brkVars, pc>>

Free == [active |-> FALSE, type |-> 0, a |-> 0, index |-> 0, data |-> "old"]

BridgeInit ==
  /\ alive = "running" /\ conn = "none" /\ toRvd = <<>> /\ toGdb = <<>>
  /\ asked = NoPacket /\ held = {} /\ script \in Sessions
  /\ chld = FALSE /\ pid = 0 /\ reaped = FALSE /\ pipe = FALSE
  /\ chunk = <<>> /\ rxState = "idle" /\ rxBuf = NoPacket /\ tx = <<>> /\ attached = TRUE
  /\ running = FALSE
  /\ mem = [a \in Addresses |-> "old"] /\ text = mem
  /\ slots = [i \in 1 .. MaxBreakpoints |-> Free] /\ inUse = {}
  /\ hw = [u \in HwUnits |-> Off]
  /\ pc = "fork"

-----------------------------------------------------------------------------
(* gdb.  It keeps one packet outstanding, inserts a breakpoint it does not  *)
(* hold, removes one it holds, and writes to memory while no software       *)
(* breakpoint is there (external).                                          *)

Sensible(p) ==
  /\ p.k = "Z" => [type |-> p.type, a |-> p.a] \notin held
  /\ p.k = "z" => [type |-> p.type, a |-> p.a] \in held
  /\ p.k = "M" => [type |-> 0, a |-> p.a] \notin held

Item(c, p) == [c |-> c, p |-> p]
Framed(p) == <<Item("$", NoPacket), Item("body", p), Item("#", NoPacket),
               Item("checksum", NoPacket)>>

\* gdb needs longer to start than fork() needs to return; a gdb that cannot be
\* started may have ended by then.
GdbConnect ==
  /\ alive = "running" /\ pid = 1 /\ conn = "none" /\ conn' = "pending"
  /\ UNCHANGED <<alive, toRvd, toGdb, asked, held, script, procVars, rspVars, targetVars, brkVars, pc>>

GdbSend(p) ==
  /\ alive = "running" /\ conn = "open" /\ asked = NoPacket
  /\ script # <<>> /\ p = Head(script) /\ script' = Tail(script)
  /\ IF Sensible(p) THEN asked' = p /\ toRvd' = toRvd \o Framed(p)
     ELSE UNCHANGED <<asked, toRvd>>
  /\ UNCHANGED <<alive, conn, toGdb, held, procVars, rspVars, targetVars, brkVars, pc>>

\* The user presses ^C while the program runs.
GdbInterrupt ==
  /\ alive = "running" /\ conn = "open" /\ asked.k = "c" /\ toRvd = <<>>
  /\ toRvd' = <<Item("^C", NoPacket)>>
  /\ UNCHANGED <<alive, conn, toGdb, asked, held, script, procVars, rspVars, targetVars, brkVars, pc>>

GdbReceive ==
  /\ alive = "running" /\ conn = "open" /\ toGdb # <<>>
  /\ toGdb' = Tail(toGdb)
  /\ IF Head(toGdb) = "+" THEN UNCHANGED <<asked, held, toRvd>>
     ELSE /\ held' = LET b == [type |-> asked.type, a |-> asked.a]
                     IN CASE Head(toGdb) = "OK" /\ asked.k = "Z" -> held \cup {b}
                          [] Head(toGdb) = "OK" /\ asked.k = "z" -> held \ {b}
                          [] OTHER -> held
          /\ asked' = NoPacket
          /\ toRvd' = Append(toRvd, Item("+", NoPacket))
  /\ UNCHANGED <<alive, conn, script, procVars, rspVars, targetVars, brkVars, pc>>

\* The user disconnects, or gdb ends, by itself or by a signal.
GdbDisconnect ==
  /\ alive = "running" /\ conn = "open" /\ conn' = "closed"
  /\ UNCHANGED <<alive, toRvd, toGdb, asked, held, script, procVars, rspVars, targetVars, brkVars, pc>>

GdbEnd(how) ==
  /\ alive = "running" /\ alive' = how /\ chld' = TRUE
  /\ conn' = IF conn \in {"pending", "open"} THEN "closed" ELSE conn
  /\ UNCHANGED <<toRvd, toGdb, asked, held, script, pid, reaped, pipe, rspVars, targetVars, brkVars, pc>>

Gdb ==
  \/ GdbConnect \/ (\E p \in Packets : GdbSend(p)) \/ GdbInterrupt \/ GdbReceive
  \/ GdbDisconnect \/ (\E how \in {"exited", "killed"} : GdbEnd(how))

-----------------------------------------------------------------------------
(* rvd as a process *)

\* gdb_cleanup: the connection is closed, and gdb is killed if rvd did not
\* see it exit.
End ==
  /\ pc' = "ended" /\ chld' = FALSE
  /\ conn' = IF conn = "none" THEN "none" ELSE "closed"
  /\ alive' = IF pid # 0 /\ alive = "running" THEN "killed" ELSE alive
  /\ reaped' = (reaped \/ pid # 0)
  /\ UNCHANGED <<toRvd, toGdb, asked, held, script, pid, pipe>>

Stays == UNCHANGED <<gdbVars, procVars>>

\* Seeded fault: the handler does not write to the pipe.
TellsNobody(normal) == pipe

\* The handler of SIGCHLD runs before rvd does anything else.
Told(normal) == pipe \/ normal
SigChld ==
  /\ chld /\ pc # "ended" /\ chld' = FALSE
  /\ LET mine == pid # 0 /\ ~reaped
         normal == mine /\ alive = "exited"
     IN /\ reaped' = TRUE
        /\ pid' = IF normal THEN 0 ELSE pid
        /\ pipe' = Told(normal)
  /\ UNCHANGED <<gdbVars, rspVars, targetVars, brkVars, pc>>

\* A select() that the signal interrupts leaves every descriptor marked as
\* ready, so that rvd takes it for the end of gdb.
Interrupted ==
  /\ chld /\ pc = "select" /\ End
  /\ UNCHANGED <<rspVars, targetVars, brkVars>>

ForkReturns ==
  /\ pc = "fork" /\ ~chld
  /\ pid' = 1 /\ pc' = "accept"
  /\ UNCHANGED <<gdbVars, chld, reaped, pipe, rspVars, targetVars, brkVars>>

\* Wait at most three seconds for gdb to connect.  A connection that gdb has
\* opened and closed again can still be accepted.
Accept ==
  /\ pc = "accept" /\ ~chld /\ ~pipe /\ conn \in {"pending", "closed"}
  /\ conn' = IF conn = "pending" THEN "open" ELSE conn
  /\ pc' = "select"
  /\ UNCHANGED <<alive, toRvd, toGdb, asked, held, script, procVars, rspVars, targetVars, brkVars>>

GiveUpAccept ==
  /\ pc = "accept" /\ ~chld /\ (pipe \/ conn = "none") /\ End
  /\ UNCHANGED <<rspVars, targetVars, brkVars>>

Readable == toRvd # <<>> \/ conn = "closed"

Select ==
  /\ pc = "select" /\ ~chld
  /\ \/ pipe /\ End
     \/ ~pipe /\ Readable /\ pc' = "read" /\ Stays
  /\ UNCHANGED <<rspVars, targetVars, brkVars>>

\* read() blocks, so that rvd comes back to select() only after the end of the
\* stream.
Read ==
  /\ pc = "read" /\ ~chld
  /\ \/ /\ toRvd # <<>>
        /\ \E n \in 1 .. Len(toRvd) : /\ chunk' = SubSeq(toRvd, 1, n)
                                       /\ toRvd' = SubSeq(toRvd, n + 1, Len(toRvd))
        /\ pc' = "rx"
     \/ /\ toRvd = <<>> /\ conn = "closed"
        /\ pc' = "select" /\ UNCHANGED <<chunk, toRvd>>
  /\ UNCHANGED <<alive, conn, toGdb, asked, held, script, procVars, rxState, rxBuf, tx, attached,
                 targetVars, brkVars>>

\* rsp_flushTx.  Writing to a connection that gdb closed goes unnoticed or
\* ends rvd (SIGPIPE, or an error of write).
Flush(next) ==
  \/ /\ conn # "closed" \/ tx = <<>>
     /\ toGdb' = toGdb \o tx /\ pc' = next /\ UNCHANGED <<alive, conn, toRvd, asked, held, script, procVars>>
  \/ conn = "closed" /\ tx # <<>> /\ pc' = next /\ Stays
  \/ conn = "closed" /\ tx # <<>> /\ End

-----------------------------------------------------------------------------
(* gdb_breakpoint *)

FirstFree == IF \E i \in DOMAIN slots : ~slots[i].active
             THEN CHOOSE i \in DOMAIN slots :
                    ~slots[i].active /\ \A j \in DOMAIN slots : ~slots[j].active => i <= j
             ELSE 0
Matching(type, a) ==
  LET m == {i \in DOMAIN slots : slots[i].active /\ slots[i].type = type /\ slots[i].a = a}
  IN IF m = {} THEN 0 ELSE CHOOSE i \in m : \A j \in m : i <= j

\* Seeded fault: an index in use is handed out again.
AnyIndex(used) == CHOOSE x \in HwIndices : \A y \in HwIndices : x <= y

FreeIndex(used) ==
  CHOOSE x \in HwIndices \ used : \A y \in HwIndices \ used : x <= y

\* A packet is acknowledged before it is handled.
Replies(r) == tx' = tx \o <<"+", r>>

\* The slot is taken before anything can fail, and stays taken then.  The
\* original syllable is read first, then the breakpoint is written.
Faulty == Unreadable \cup Unwritable
SetSoftware(a) ==
  /\ slots' = [slots EXCEPT ![FirstFree] =
                 [@ EXCEPT !.active = TRUE, !.type = 0, !.a = a,
                           !.data = IF a \in Unreadable THEN slots[FirstFree].data ELSE mem[a]]]
  /\ mem' = IF a \in Faulty THEN mem ELSE [mem EXCEPT ![a] = "brk"]
  /\ Replies(IF a \in Faulty THEN "E06" ELSE "OK")
  /\ UNCHANGED <<inUse, hw>>

SetHardware(type, a) ==
  LET x == FreeIndex(inUse)
  IN /\ slots' = [slots EXCEPT ![FirstFree] =
                    [@ EXCEPT !.active = TRUE, !.type = type, !.a = a, !.index = x]]
     /\ inUse' = inUse \cup {x}
     /\ hw' = IF x \in HwUnits THEN [hw EXCEPT ![x] = [type |-> type, a |-> a]] ELSE hw
     /\ Replies(IF x \in HwUnits THEN "OK" ELSE "E06")
     /\ UNCHANGED mem

\* Seeded fault: the slot stays taken.
StaysActive(i) == slots

Freed(i) == [slots EXCEPT ![i].active = FALSE]
RemoveSoftware(i) ==
  /\ mem' = IF slots[i].a \in Unwritable THEN mem ELSE [mem EXCEPT ![slots[i].a] = slots[i].data]
  /\ slots' = IF slots[i].a \in Unwritable THEN slots ELSE Freed(i)
  /\ Replies(IF slots[i].a \in Unwritable THEN "E06" ELSE "OK")
  /\ UNCHANGED <<inUse, hw>>

\* Returns before the registry is updated: slot and index stay taken.
RemoveHardware(i) ==
  /\ hw' = IF slots[i].index \in HwUnits
            THEN [hw EXCEPT ![slots[i].index] = [type |-> 0, a |-> slots[i].a]] ELSE hw
  /\ Replies(IF slots[i].index \in HwUnits THEN "OK" ELSE "E06")
  /\ UNCHANGED <<slots, inUse, mem>>

Unchanged == Replies("E06") /\ UNCHANGED <<slots, inUse, hw, mem>>
gdb_breakpoint(p) ==
  IF p.k = "Z"
  THEN IF FirstFree = 0 \/ (p.type # 0 /\ HwIndices \subseteq inUse) THEN Unchanged
       ELSE IF p.type = 0 THEN SetSoftware(p.a) ELSE SetHardware(p.type, p.a)
  ELSE IF Matching(p.type, p.a) = 0 THEN Unchanged
       ELSE IF p.type = 0 THEN RemoveSoftware(Matching(0, p.a))
       ELSE RemoveHardware(Matching(p.type, p.a))

-----------------------------------------------------------------------------
(* Packets *)

\* rsp_handlePacket.  What needs the target may find that rvsrv cannot be
\* reached any more, which ends rvd.
Touches(p) == p.k # "q"
Handle(p) ==
     \/ /\ p.k \in {"Z", "z"} /\ gdb_breakpoint(p)
        /\ UNCHANGED <<text, running, attached>> /\ pc' = "rx"
     \/ /\ p.k = "M"
        /\ IF p.a \in Unwritable
           THEN Replies("E05") /\ UNCHANGED <<mem, text>>
           ELSE /\ Replies("OK")
                /\ mem' = [mem EXCEPT ![p.a] = "new"] /\ text' = [text EXCEPT ![p.a] = "new"]
        /\ UNCHANGED <<running, attached, brkVars>> /\ pc' = "rx"
     \/ /\ p.k = "q" /\ Replies("")
        /\ UNCHANGED <<mem, text, running, attached, brkVars>> /\ pc' = "rx"
     \/ /\ p.k = "D" /\ attached' = FALSE /\ running' = TRUE /\ Replies("OK")
        /\ UNCHANGED <<mem, text, brkVars>> /\ pc' = "rx"
     \/ /\ p.k \in {"c", "vRun"}
        /\ attached' = (attached \/ p.k = "vRun") /\ running' = TRUE
        /\ IF attached' THEN pc' = "wait" /\ tx' = Append(tx, "+") ELSE pc' = "rx" /\ Replies("X09")
        /\ UNCHANGED <<mem, text, brkVars>>

\* One item of rsp_receiveBuf.
Rx ==
  /\ pc = "rx" /\ ~chld /\ chunk # <<>> /\ chunk' = Tail(chunk)
  /\ LET c == Head(chunk).c
         Goes(s) == rxState' = s /\ pc' = "rx" /\ UNCHANGED <<tx, attached, targetVars, brkVars>> /\ Stays
     IN CASE c = "$" -> Goes("body") /\ rxBuf' = NoPacket
          [] c = "body" /\ rxState = "body" -> Goes("body") /\ rxBuf' = Head(chunk).p
          [] c = "#" /\ rxState = "body" -> Goes("check") /\ UNCHANGED rxBuf
          [] c = "checksum" /\ rxState = "check" ->
               /\ rxState' = "idle" /\ UNCHANGED rxBuf
               /\ \/ Handle(rxBuf) /\ Stays
                  \/ Touches(rxBuf) /\ End /\ UNCHANGED <<tx, attached, targetVars, brkVars>>
          [] OTHER -> Goes(rxState) /\ UNCHANGED rxBuf

\* Seeded fault: the transmit buffer is not flushed.
KeepsTx == pc' = "read" /\ Stays /\ UNCHANGED <<chunk, rxState, rxBuf, tx, attached, targetVars, brkVars>>

ChunkDone ==
  Flush("read") /\ tx' = <<>> /\ UNCHANGED <<chunk, rxState, rxBuf, attached, targetVars, brkVars>>
EndOfChunk == pc = "rx" /\ ~chld /\ chunk = <<>> /\ ChunkDone

\* tgtWait: the transmit buffer is flushed, then _WAIT polls the target.
StartWait ==
  /\ pc = "wait" /\ ~chld /\ Flush("polling") /\ tx' = <<>>
  /\ UNCHANGED <<chunk, rxState, rxBuf, attached, targetVars, brkVars>>

Poll ==
  /\ pc = "polling" /\ ~chld
  /\ \/ ~running /\ pc' = "rx" /\ tx' = Append(tx, "S05") /\ Stays
     \/ End /\ UNCHANGED tx
  /\ UNCHANGED <<chunk, rxState, rxBuf, attached, targetVars, brkVars>>

RvdStep ==
  \/ SigChld \/ Interrupted \/ ForkReturns \/ Accept \/ GiveUpAccept \/ Select \/ Read
  \/ Rx \/ EndOfChunk \/ StartWait \/ Poll

Halt ==
  /\ running /\ running' = FALSE
  /\ UNCHANGED <<gdbVars, procVars, rspVars, mem, text, brkVars, pc>>

BridgeNext == Gdb \/ RvdStep \/ Halt

BridgeSpec == BridgeInit /\ [][BridgeNext]_bridgeVars

-----------------------------------------------------------------------------
(* Properties *)

\* A breakpoint that gdb was told is in place is in place: memory holds the
\* breakpoint syllable, or a hardware unit watches the address for what gdb
\* asked for.
BreakpointsInPlace ==
  \A b \in held \ {[type |-> asked.type, a |-> asked.a]} :
     IF b.type = 0 THEN mem[b.a] = "brk" ELSE \E u \in HwUnits : hw[u] = b

\* Where gdb has no software breakpoint and is not asking for one, memory holds
\* what the program or gdb put there: no breakpoint syllable and no stale
\* original is left behind.
ProgramRestored ==
  \A a \in Addresses :
     (/\ [type |-> 0, a |-> a] \notin held
      /\ ~(asked.k \in {"Z", "z"} /\ asked.type = 0 /\ asked.a = a)
      /\ pc # "ended") => mem[a] = text[a]

\* When gdb exits, rvd ends as well, wherever it was (SIGCHLD handler, pipe and
\* select loop of gdb_main).
BridgeEnds == (alive = "exited") ~> (pc = "ended")

\* A packet of gdb is answered, unless one side ends or the connection is
\* closed, however the stream is cut into chunks.
PacketsAnswered == (asked # NoPacket) ~> (asked = NoPacket \/ pc = "ended" \/ conn # "open")
=============================================================================
