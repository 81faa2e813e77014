---------------------------- MODULE SerialReceive ---------------------------
(***************************************************************************)
(* From the hardware to rvsrv: the transmitting half of the stream switch  *)
(* (periph_uart_switch.vhd), the line, and serial_update with the calls of *)
(* the main loop that empty its buffers.                                   *)
(***************************************************************************)
EXTENDS UartStream, FiniteSetsExt

CONSTANTS
  UserBytes,    \* bytes the application on the rvex writes
  Replies,      \* debug packets: sequences of bytes, the check byte last
  MaxUser,      \* bound on the bytes written
  MaxReplies    \* bound on the packets

ASSUME ReceiveAssumption ==
  /\ MaxUser \in Nat /\ MaxReplies \in Nat
  /\ UserBytes \subseteq Bytes
  /\ \A p \in Replies : p \in Seq(Bytes)

VARIABLES
  tx,         \* the switch: state, escaping, userData, and dbg2sw_tx*
  line,       \* characters sent but not read
  pc,         \* the next call of the main loop
  buf,        \* buf from bufPtr to bufSize
  registered, \* whether the port is registered with select_wait
  port,       \* stream, escaping and debugPacketTerminated of serial_update
  appRxBuf, debugRxBuf,
  packet,     \* buffer of receivePacket
  appData, packets,      \* what the clients and receivePackets got
  sentUser, sentReplies  \* history: what the hardware was given to send

rxVars == <<tx, line, pc, buf, registered, port, appRxBuf, debugRxBuf, packet, appData, packets,
            sentUser, sentReplies>>
hostVars == <<pc, buf, registered, port, appRxBuf, debugRxBuf, packet, appData, packets>>

RxInit ==
  /\ tx = [state |-> "STATE_USER", escaping |-> FALSE, user |-> <<>>,
           reply |-> <<>>, startPacket |-> FALSE]
  /\ line = <<>>
  /\ pc = "update"
  /\ buf = <<>>
  /\ registered = TRUE
  /\ port = [stream |-> "user", escaping |-> FALSE, terminated |-> TRUE]
  /\ appRxBuf = <<>>
  /\ debugRxBuf = <<>>
  /\ packet = <<>>
  /\ appData = <<>>
  /\ packets = <<>>
  /\ sentUser = <<>>
  /\ sentReplies = <<>>

-----------------------------------------------------------------------------
(* The hardware.  It only adds to the line, so that its steps matter to      *)
(* rvsrv when that is about to read.                                         *)

\* user2sw_txStrobe loads the holding register.
UserWrite(b) ==
  /\ tx.user = <<>> /\ Len(sentUser) < MaxUser
  /\ tx' = [tx EXCEPT !.user = <<b>>]
  /\ sentUser' = Append(sentUser, b)
  /\ UNCHANGED <<line, sentReplies>>

\* The packet control unit has a packet to send: STATE_COMMAND.
StartReply(p) ==
  /\ tx.reply = <<>> /\ Len(sentReplies) < MaxReplies
  /\ tx' = [tx EXCEPT !.reply = p, !.startPacket = TRUE]
  /\ sentReplies' = Append(sentReplies, p)
  /\ UNCHANGED <<line, sentUser>>

Put(ch) == line' = Append(line, ch)

\* The user stream has the line, and debug asks for nothing.
SendUser ==
  /\ tx.state = "STATE_USER" /\ tx.reply = <<>> /\ tx.user # <<>>
  /\ IF NeedsEscape(tx.user[1]) /\ ~tx.escaping
     THEN Put(CHAR_ESCAPE) /\ tx' = [tx EXCEPT !.escaping = TRUE]
     ELSE /\ Put(IF tx.escaping THEN Complement(tx.user[1]) ELSE tx.user[1])
          /\ tx' = [tx EXCEPT !.escaping = FALSE, !.user = <<>>]

\* Debug requests come first, whatever the user stream was about to send.
\* A packet that follows another one at once ends it.
SelectDebug ==
  /\ tx.reply # <<>>
  /\ tx.state = "STATE_USER" \/ (tx.state = "STATE_DEBUG" /\ tx.startPacket)
  /\ Put(CHAR_SEL_DEBUG)
  /\ tx' = [tx EXCEPT !.state = "STATE_DEBUG_FIRST", !.escaping = FALSE]

SendDebug ==
  /\ tx.reply # <<>>
  /\ tx.state = "STATE_DEBUG_FIRST" \/ (tx.state = "STATE_DEBUG" /\ ~tx.startPacket)
  /\ IF NeedsEscape(Head(tx.reply)) /\ ~tx.escaping
     THEN Put(CHAR_ESCAPE) /\ tx' = [tx EXCEPT !.escaping = TRUE]
     ELSE /\ Put(IF tx.escaping THEN Complement(Head(tx.reply)) ELSE Head(tx.reply))
          /\ tx' = [tx EXCEPT !.state = "STATE_DEBUG", !.escaping = FALSE,
                              !.reply = Tail(@), !.startPacket = FALSE]

\* Seeded fault: the line stays with the debug stream until the user writes.
WaitsForUser == tx.state # "STATE_USER" /\ tx.reply = <<>> /\ tx.user # <<>>

DebugDone == tx.state # "STATE_USER" /\ tx.reply = <<>>

SelectUser ==
  /\ DebugDone
  /\ Put(CHAR_SEL_APP)
  /\ tx' = [tx EXCEPT !.state = "STATE_USER", !.escaping = FALSE]

Transmit ==
  /\ SendUser \/ SelectDebug \/ SendDebug \/ SelectUser
  /\ UNCHANGED <<sentUser, sentReplies>>

Hardware ==
  /\ pc = "update"
  /\ \/ \E b \in UserBytes : UserWrite(b)
     \/ \E p \in Replies : StartReply(p)
     \/ Transmit
  /\ UNCHANGED hostVars

-----------------------------------------------------------------------------
(* rvsrv. *)

\* The routing of one raw character, h being the state of serial_update
\* together with its buffers.
Terminated(h) ==
  IF h.terminated THEN h ELSE [h EXCEPT !.debug = Append(@, Delimiter(0)), !.terminated = TRUE]

Data(h, b) ==
  IF h.stream = "user"
  THEN [h EXCEPT !.app = Append(@, b), !.escaping = FALSE]
  ELSE [h EXCEPT !.debug = Append(@, b), !.escaping = FALSE, !.terminated = FALSE]

\* Seeded fault: only the application stream ends a packet.
EndsAtAppOnly(h, ch) ==
  CASE ch = CHAR_SEL_APP   -> [Terminated(h) EXCEPT !.stream = "user"]
    [] ch = CHAR_SEL_DEBUG -> [h EXCEPT !.stream = "debug"]
    [] ch = CHAR_ESCAPE    -> [h EXCEPT !.escaping = TRUE]
    [] OTHER -> Data(h, IF h.escaping THEN Complement(ch) ELSE ch)

Route(h, ch) ==
  CASE ch = CHAR_SEL_APP   -> [Terminated(h) EXCEPT !.stream = "user"]
    [] ch = CHAR_SEL_DEBUG -> [Terminated(h) EXCEPT !.stream = "debug"]
    [] ch = CHAR_ESCAPE    -> [h EXCEPT !.escaping = TRUE]
    [] OTHER -> Data(h, IF h.escaping THEN Complement(ch) ELSE ch)

\* The first part of serial_update: a drained raw buffer is filled again.
ReadPort ==
  /\ pc = "update"
  /\ registered => line # <<>>     \* select_wait returned with the port ready
  /\ LET n == IF buf = <<>> THEN Min({BufferSize, Len(line)}) ELSE 0
     IN /\ line' = SubSeq(line, n + 1, Len(line))
        /\ buf' = buf \o SubSeq(line, 1, n)
  /\ registered' = FALSE    \* until it is drained; nobody looks in between
  /\ pc' = "route"
  /\ UNCHANGED <<tx, port, appRxBuf, debugRxBuf, packet, appData, packets, sentUser,
                 sentReplies>>

Full == Len(appRxBuf) >= BufferSize \/ Len(debugRxBuf) >= BufferSize

\* The second part: characters are routed until one of the buffers is full.
RouteByte ==
  /\ pc = "route" /\ buf # <<>> /\ ~Full
  /\ LET h == Route([stream |-> port.stream, escaping |-> port.escaping,
                     terminated |-> port.terminated, app |-> appRxBuf, debug |-> debugRxBuf],
                    Head(buf))
     IN /\ port' = [stream |-> h.stream, escaping |-> h.escaping, terminated |-> h.terminated]
        /\ appRxBuf' = h.app
        /\ debugRxBuf' = h.debug
  /\ buf' = Tail(buf)
  /\ UNCHANGED <<pc, tx, line, registered, packet, appData, packets, sentUser, sentReplies>>

EndRoute ==
  /\ pc = "route" /\ (buf = <<>> \/ Full)
  /\ registered' = (buf = <<>>)
  /\ pc' = "packets"
  /\ UNCHANGED <<tx, line, buf, port, appRxBuf, debugRxBuf, packet, appData, packets, sentUser,
                 sentReplies>>

\* The check byte stands in for the CRC: any function that tells a packet from
\* the same one with its first byte complemented.
Valid(p) == Len(p) \in 2..PacketMax
            /\ Last(p) = FoldLeft(LAMBDA a, b : a + b, 0, Front(p)) % (ByteMax + 1)

\* debugCommands_update takes everything there is in the debug buffer.
receivePacket ==
  /\ pc = "packets" /\ debugRxBuf # <<>>
  /\ IF Head(debugRxBuf) = Delimiter(0)
     THEN /\ packets' = IF Valid(packet) THEN Append(packets, packet) ELSE packets
          /\ packet' = <<>>
     ELSE packet' = Append(packet, Head(debugRxBuf)) /\ UNCHANGED packets
  /\ debugRxBuf' = Tail(debugRxBuf)
  /\ UNCHANGED <<pc, tx, line, buf, registered, port, appRxBuf, appData, sentUser, sentReplies>>

\* Seeded fault: a round may end between two packets.
TakesOnePacket == debugRxBuf = <<>> \/ packet = <<>>

AllTaken == debugRxBuf = <<>>

EndPackets ==
  /\ pc = "packets" /\ AllTaken
  /\ pc' = "appdata"
  /\ UNCHANGED <<tx, line, buf, registered, port, appRxBuf, debugRxBuf, packet, appData,
                 packets, sentUser, sentReplies>>

\* The second half of handleApplicationData: the clients get what there is in
\* the application buffer.
handleApplicationData ==
  /\ pc = "appdata"
  /\ appData' = appData \o appRxBuf
  /\ appRxBuf' = <<>>
  /\ pc' = "update"
  /\ UNCHANGED <<tx, line, buf, registered, port, debugRxBuf, packet, packets, sentUser,
                 sentReplies>>

Host == ReadPort \/ RouteByte \/ EndRoute \/ receivePacket \/ EndPackets \/ handleApplicationData

RxNext == Hardware \/ Host

RxSpec == RxInit /\ [][RxNext]_rxVars

-----------------------------------------------------------------------------
\* Sleep is only safe with an empty raw buffer: a port whose raw buffer is not
\* empty is not registered with select_wait, and nothing wakes rvsrv up for
\* the characters left in it.  It is enough that the other calls of a round
\* leave both receive buffers empty.
NothingLeftBehind == pc = "update" => buf = <<>> /\ registered

\* periph_uart_switch.vhd: "The receiver performs the inverse operation in
\* order to recover the sent data."  Both streams arrive unchanged and in
\* order, and whole once the line is idle.
StreamsRecovered ==
  /\ IsPrefix(appData, sentUser)
  /\ IsPrefix(packets, sentReplies)
  /\ (pc = "update" /\ line = <<>> /\ buf = <<>> /\ tx.state = "STATE_USER"
        /\ tx.user = <<>> /\ tx.reply = <<>>) =>
       appData = sentUser /\ packets = sentReplies

\* Every reply the hardware starts to send reaches receivePackets.
RepliesArrive ==
  \A n \in 1..MaxReplies : Len(sentReplies) = n ~> Len(packets) >= n
=============================================================================
