--------------------------- MODULE SerialTransmit ---------------------------
(***************************************************************************)
(* From rvsrv to the hardware: the transmit buffers of serial.c, the calls *)
(* that fill them, and serial_flush, which interleaves both streams and    *)
(* keeps the hardware's replies apart.  Nothing of rvsrv depends on when   *)
(* the hardware takes a character, so it takes them before rvsrv goes on.  *)
(***************************************************************************)
EXTENDS UartStream

CONSTANTS
  AppBytes,     \* bytes of the application stream
  Commands,     \* debug packets: a sequence of bytes, and the delay after it
  MaxApp,       \* bound on the application bytes sent
  MaxCommands   \* bound on the packets sent

ASSUME TransmitAssumption ==
  /\ MaxApp \in Nat /\ MaxCommands \in Nat
  /\ AppBytes \subseteq Bytes
  /\ Commands \subseteq [bytes : Seq(Bytes), delay : Nat]

VARIABLES
  todo,        \* what the present call still has to push
  flushing,    \* whether serial_flush runs
  appTxBuf,
  debugTxBuf,  \* bytes and delimiters
  packetBuf,   \* the packet being put together
  packetReady, \* packetBufDelay when it is complete, or NoPacket
  delay,
  txStream,    \* stream
  wire,        \* characters on their way
  sw,          \* the receiver in the hardware
  sentApp, sentPackets,   \* history: what was given to serial.c
  since,       \* history: characters since the last byte of the last packet
  need,        \* history: the delay that packet asked for
  gap          \* history: since and need when the next one was complete

txVars == <<todo, flushing, appTxBuf, debugTxBuf, packetBuf, packetReady, delay, txStream,
            wire, sw, sentApp, sentPackets, since, need, gap>>

NoPacket == -1
IsDelimiter(d) == d > ByteMax

TxInit ==
  /\ todo = <<>>
  /\ flushing = FALSE
  /\ appTxBuf = <<>>
  /\ debugTxBuf = <<>>
  /\ packetBuf = <<>>
  /\ packetReady = NoPacket
  /\ delay = 0
  /\ txStream = "user"
  /\ wire = <<>>
  /\ sw = Switch0
  /\ sentApp = <<>>
  /\ sentPackets = <<>>
  /\ since = 0
  /\ need = 0
  /\ gap = [got |-> 0, need |-> 0]

Idle == todo = <<>> /\ ~flushing /\ wire = <<>>
quiet == <<wire, sw, since, need, gap>>   \* unchanged when nothing is written

-----------------------------------------------------------------------------
(* Calls. *)

\* handleApplicationData sends one byte of a client.
AppSend(b) ==
  /\ Idle /\ Len(sentApp) < MaxApp
  /\ todo' = <<[to |-> "app", data |-> b]>>
  /\ sentApp' = Append(sentApp, b)
  /\ UNCHANGED <<flushing, appTxBuf, debugTxBuf, packetBuf, packetReady, delay, txStream,
                 sentPackets, quiet>>

\* A packet and the delimiter after it.
transmitPacket(p) ==
  /\ Idle /\ Len(sentPackets) < MaxCommands
  /\ todo' = [i \in DOMAIN p.bytes |-> [to |-> "debug", data |-> p.bytes[i]]]
             \o <<[to |-> "debug", data |-> Delimiter(p.delay)]>>
  /\ sentPackets' = Append(sentPackets, p.bytes)
  /\ UNCHANGED <<flushing, appTxBuf, debugTxBuf, packetBuf, packetReady, delay, txStream,
                 sentApp, quiet>>

Buffer(stream) == IF stream = "app" THEN appTxBuf ELSE debugTxBuf

ringBufFull(buf) == Len(buf) >= BufferSize

\* serial_appSend and serial_debugSend.
Push ==
  /\ ~flushing /\ todo # <<>>
  /\ ~ringBufFull(Buffer(Head(todo).to))
  /\ todo' = Tail(todo)
  /\ IF Head(todo).to = "app"
     THEN appTxBuf' = Append(appTxBuf, Head(todo).data) /\ UNCHANGED debugTxBuf
     ELSE debugTxBuf' = Append(debugTxBuf, Head(todo).data) /\ UNCHANGED appTxBuf
  /\ UNCHANGED <<flushing, packetBuf, packetReady, delay, txStream, sentApp, sentPackets,
                 quiet>>

\* The main loop flushes at the end of a round, the calls when they must.
Flush ==
  /\ ~flushing
  /\ todo # <<>> => ringBufFull(Buffer(Head(todo).to))
  /\ appTxBuf # <<>> \/ debugTxBuf # <<>>
  /\ flushing' = TRUE
  /\ UNCHANGED <<todo, appTxBuf, debugTxBuf, packetBuf, packetReady, delay, txStream,
                 sentApp, sentPackets, quiet>>

-----------------------------------------------------------------------------
(* serial_flush. *)

Ready == packetReady # NoPacket
Less(d, n) == IF d > n THEN d - n ELSE 0

\* bufferedWriteRaw.
Write(chars) ==
  /\ wire' = chars
  /\ since' = since + Len(chars)
  /\ UNCHANGED sw

CanFill == debugTxBuf # <<>> /\ ~Ready

\* Seeded fault: application bytes are sent as padding only.
OnlyPads == appTxBuf # <<>> /\ delay > 0

CanPad == appTxBuf # <<>> /\ (delay > 0 \/ ~Ready)

\* Seeded fault: the delay counts the control character twice.
CountsTwice(bytes) == Less(delay, Len(bytes) + 3)

\* Sending the packet takes this much of the delay.
DelayLeft(bytes) == Less(delay, Len(bytes) + 1)

\* Pops an element of debugTxBuf into the packet buffer.
FillPacket ==
  /\ flushing /\ CanFill
  /\ LET d == Head(debugTxBuf)
     IN IF ~IsDelimiter(d)
        THEN /\ packetBuf' = Append(packetBuf, d)
             /\ UNCHANGED <<packetReady, delay>>
        ELSE IF Len(packetBuf) <= PacketMax
        THEN /\ packetReady' = d - Delimiter(0)
             /\ delay' = DelayLeft(packetBuf)
             /\ UNCHANGED packetBuf
        ELSE packetBuf' = <<>> /\ UNCHANGED <<packetReady, delay>>
  /\ debugTxBuf' = Tail(debugTxBuf)
  /\ UNCHANGED <<todo, flushing, appTxBuf, txStream, sentApp, sentPackets, quiet>>

\* An application byte, as padding or because there is no packet.
SendApp ==
  /\ flushing /\ ~CanFill /\ CanPad
  /\ LET select == IF txStream # "user" THEN <<CHAR_SEL_APP>> ELSE <<>>
     IN /\ Write(select \o Escaped(Head(appTxBuf)))
        /\ delay' = Less(delay, Len(select) + 1)
  /\ txStream' = "user"
  /\ appTxBuf' = Tail(appTxBuf)
  /\ UNCHANGED <<todo, flushing, debugTxBuf, packetBuf, packetReady, sentApp, sentPackets, need,
                 gap>>

\* Padding without application bytes: the application stream is selected.
Pad ==
  /\ flushing /\ Ready /\ ~CanPad /\ delay > 0
  /\ Write(<<CHAR_SEL_APP>>)
  /\ txStream' = "user"
  /\ delay' = delay - 1
  /\ UNCHANGED <<todo, flushing, appTxBuf, debugTxBuf, packetBuf, packetReady, sentApp,
                 sentPackets, need, gap>>

\* Seeded fault: the packet is left open when no other follows.
LeavesOpen(more) == IF more THEN <<CHAR_SEL_DEBUG>> ELSE <<>>

\* The character after a packet, which ends it.
Terminator(more) == IF more THEN <<CHAR_SEL_DEBUG>> ELSE <<CHAR_SEL_APP>>

\* The packet with its start marker, if needed, and the character that ends it.
SendPacket ==
  /\ flushing /\ Ready /\ ~CanPad /\ delay = 0
  /\ LET more  == debugTxBuf # <<>>
         chars == (IF txStream # "debug" THEN <<CHAR_SEL_DEBUG>> ELSE <<>>)
                  \o EscapedAll(packetBuf) \o Terminator(more)
     IN /\ wire' = chars
        /\ since' = 1
        /\ gap' = [got |-> since + Len(chars), need |-> need]
        /\ txStream' = IF more THEN "debug" ELSE "user"
  /\ need' = packetReady
  /\ delay' = Less(packetReady, 1)
  /\ packetReady' = NoPacket
  /\ packetBuf' = <<>>
  /\ UNCHANGED <<todo, flushing, appTxBuf, debugTxBuf, sentApp, sentPackets, sw>>

EndFlush ==
  /\ flushing /\ appTxBuf = <<>> /\ debugTxBuf = <<>> /\ ~Ready
  /\ flushing' = FALSE
  /\ UNCHANGED <<todo, appTxBuf, debugTxBuf, packetBuf, packetReady, delay, txStream,
                 sentApp, sentPackets, quiet>>

\* The hardware takes a character.
Deliver ==
  /\ wire # <<>>
  /\ sw' = rx_proc(sw, Head(wire))
  /\ wire' = Tail(wire)
  /\ UNCHANGED <<todo, flushing, appTxBuf, debugTxBuf, packetBuf, packetReady, delay, txStream,
                 sentApp, sentPackets, since, need, gap>>

FlushStep ==
  \/ wire = <<>> /\ (FillPacket \/ SendApp \/ Pad \/ SendPacket \/ EndFlush)
  \/ Deliver

TxNext ==
  \/ /\ wire = <<>>
     /\ \/ \E b \in AppBytes : AppSend(b)
        \/ \E p \in Commands : transmitPacket(p)
        \/ Push
        \/ Flush
  \/ FlushStep

TxSpec == TxInit /\ [][TxNext]_txVars

-----------------------------------------------------------------------------
\* The packets of some lengths, in order.
OfLength(packets, lengths) ==
  FlattenSeq([i \in DOMAIN packets |->
                IF Len(packets[i]) \in lengths THEN <<packets[i]>> ELSE <<>>])

\* What the packet control unit makes of the debug stream: empty packets are
\* no commands.
NonEmpty(packets) == OfLength(packets, Nat \ {0})

\* Whatever the mixture of bytes, packets and flushes, and wherever a full
\* buffer cuts them, the hardware gets both streams unchanged and in order;
\* packets longer than the hardware can hold are left out.  Once everything is
\* flushed nothing is missing, and no packet is left open; and no ring buffer
\* is filled over its end.
StreamsDelivered ==
  LET fitting == OfLength(sentPackets, 1..PacketMax)
  IN /\ IsPrefix(sw.user, sentApp)
     /\ IsPrefix(NonEmpty(sw.packets), fitting)
     /\ Len(appTxBuf) <= BufferSize /\ Len(debugTxBuf) <= BufferSize
     /\ (Idle /\ appTxBuf = <<>> /\ debugTxBuf = <<>>) =>
          sw.user = sentApp /\ NonEmpty(sw.packets) = fitting /\ sw.stream = txStream

\* serial.c: the serial unit "will ensure that at least data-256 bytes are
\* sent before the next packet completes, to give the hardware time to send
\* the reply".
DelayKept == gap.got >= gap.need

\* serial_flush ends: padding and packets use up the delay and the buffers.
FlushEnds == flushing ~> ~flushing
=============================================================================
