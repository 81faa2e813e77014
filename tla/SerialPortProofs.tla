-------------------------- MODULE SerialPortProofs --------------------------
(***************************************************************************)
(* Proofs about the serial port: rvsrv never sleeps on characters it has   *)
(* read (serial_update); every packet keeps the distance that the one      *)
(* before it asked for, and both streams reach the hardware unchanged      *)
(* (serial_flush, periph_uart_switch.vhd); for every size of the buffers   *)
(* and the packets, every delay and every number of bytes.                 *)
(***************************************************************************)
EXTENDS SerialPort, SequenceFacts

-----------------------------------------------------------------------------
(* The receiving direction.                                                 *)

TxRegs ==
  [state : {"STATE_USER", "STATE_DEBUG_FIRST", "STATE_DEBUG"}, escaping : BOOLEAN,
   user : Seq(Bytes), reply : Seq(Bytes), startPacket : BOOLEAN]

ReceiveTypes ==
  /\ tx \in TxRegs
  /\ line \in Seq(Bytes)
  /\ pc \in {"update", "route", "packets", "appdata"}
  /\ buf \in Seq(Bytes)
  /\ appRxBuf \in Seq(Bytes)
  /\ debugRxBuf \in Seq(Nat)

\* Where the characters of a round are.  A round starts with empty buffers;
\* what it reads fits into either receive buffer, because no character becomes
\* more than one element, so that routing never stops early; and the calls
\* after it leave nothing.
RoundInv ==
  /\ pc = "update" => buf = <<>> /\ registered /\ appRxBuf = <<>> /\ debugRxBuf = <<>>
  /\ pc = "route" => Len(appRxBuf) + Len(debugRxBuf) + Len(buf) <= BufferSize
  /\ pc \in {"packets", "appdata"} => buf = <<>> /\ registered
  /\ pc = "appdata" => debugRxBuf = <<>>

ReceiveInv == ReceiveTypes /\ RoundInv

\* Characters, plain or complemented, are bytes.
LEMMA CharacterTypes ==
  /\ CHAR_SEL_APP \in Bytes /\ CHAR_SEL_DEBUG \in Bytes /\ CHAR_ESCAPE \in Bytes
  /\ \A b \in Bytes : Complement(b) \in Bytes
BY StreamAssumption DEF CHAR_SEL_APP, CHAR_SEL_DEBUG, CHAR_ESCAPE, Complement, Bytes

\* The hardware only adds to the line.
LEMMA HardwareStep ==
  ASSUME ReceiveInv, Hardware
  PROVE  ReceiveInv'
<1>1. UNCHANGED hostVars
  BY DEF Hardware
<1>2. RoundInv'
  BY <1>1 DEF ReceiveInv, RoundInv, hostVars
<1>3. tx \in TxRegs /\ line \in Seq(Bytes)
  BY DEF ReceiveInv, ReceiveTypes
<1>4. tx' \in TxRegs /\ line' \in Seq(Bytes)
  <2>1. ASSUME NEW b \in UserBytes, UserWrite(b)
        PROVE  tx' \in TxRegs /\ line' \in Seq(Bytes)
    <3>1. <<b>> \in Seq(Bytes)
      BY ReceiveAssumption
    <3>2. tx' = [tx EXCEPT !.user = <<b>>] /\ UNCHANGED line
      BY <2>1 DEF UserWrite
    <3> QED BY <1>3, <3>1, <3>2 DEF TxRegs
  <2>2. ASSUME NEW p \in Replies, StartReply(p)
        PROVE  tx' \in TxRegs /\ line' \in Seq(Bytes)
    <3>1. p \in Seq(Bytes)
      BY ReceiveAssumption
    <3>2. tx' = [tx EXCEPT !.reply = p, !.startPacket = TRUE] /\ UNCHANGED line
      BY <2>2 DEF StartReply
    <3> QED BY <1>3, <3>1, <3>2 DEF TxRegs
  <2>3. \A ch \in Bytes : Put(ch) => line' \in Seq(Bytes)
    BY <1>3 DEF Put
  <2>4. ASSUME SendUser
        PROVE  tx' \in TxRegs /\ line' \in Seq(Bytes)
    <3>1. tx.user[1] \in Bytes
      BY <1>3, <2>4 DEF SendUser, TxRegs
    <3>2. \E ch \in Bytes : Put(ch)
      BY <2>4, <3>1, CharacterTypes DEF SendUser
    <3>3. tx' \in TxRegs
      BY <1>3, <2>4 DEF SendUser, TxRegs
    <3> QED BY <2>3, <3>2, <3>3
  <2>5. ASSUME SelectDebug
        PROVE  tx' \in TxRegs /\ line' \in Seq(Bytes)
    BY <1>3, <2>3, <2>5, CharacterTypes DEF SelectDebug, TxRegs
  <2>6. ASSUME SendDebug
        PROVE  tx' \in TxRegs /\ line' \in Seq(Bytes)
    <3>1. Head(tx.reply) \in Bytes /\ Tail(tx.reply) \in Seq(Bytes)
      BY <1>3, <2>6 DEF SendDebug, TxRegs
    <3>2. \E ch \in Bytes : Put(ch)
      BY <2>6, <3>1, CharacterTypes DEF SendDebug
    <3>3. tx' \in TxRegs
      BY <1>3, <2>6, <3>1 DEF SendDebug, TxRegs
    <3> QED BY <2>3, <3>2, <3>3
  <2>7. ASSUME SelectUser
        PROVE  tx' \in TxRegs /\ line' \in Seq(Bytes)
    BY <1>3, <2>3, <2>7, CharacterTypes DEF SelectUser, TxRegs
  <2> QED BY <2>1, <2>2, <2>4, <2>5, <2>6, <2>7 DEF Hardware, Transmit
<1> QED BY <1>1, <1>2, <1>4 DEF ReceiveInv, ReceiveTypes, hostVars

\* One raw character becomes at most one element of one of the buffers.
LEMMA RouteAddsOne ==
  ASSUME NEW stream, NEW escaping, NEW terminated,
         NEW app \in Seq(Bytes), NEW debug \in Seq(Nat), NEW ch \in Bytes
  PROVE  LET h == Route([stream |-> stream, escaping |-> escaping, terminated |-> terminated,
                         app |-> app, debug |-> debug], ch)
         IN /\ h.app \in Seq(Bytes) /\ h.debug \in Seq(Nat)
            /\ Len(h.app) + Len(h.debug) <= Len(app) + Len(debug) + 1
<1> DEFINE h0 == [stream |-> stream, escaping |-> escaping, terminated |-> terminated,
                  app |-> app, debug |-> debug]
           t == Terminated(h0)
           Fits(h) == /\ h.app \in Seq(Bytes) /\ h.debug \in Seq(Nat)
                      /\ Len(h.app) + Len(h.debug) <= Len(app) + Len(debug) + 1
<1>1. Delimiter(0) \in Nat
  BY StreamAssumption DEF Delimiter
<1>2. /\ Append(debug, Delimiter(0)) \in Seq(Nat)
      /\ Len(Append(debug, Delimiter(0))) = Len(debug) + 1
      /\ Len(app) \in Nat /\ Len(debug) \in Nat
  BY <1>1
<1>3. t.app = app /\ t.debug \in {debug, Append(debug, Delimiter(0))}
  BY DEF Terminated
<1>4. Fits(h0) /\ Fits(t)
  <2>1. Fits(h0)
    BY <1>2
  <2>2. \A x, y : x = app /\ y \in {debug, Append(debug, Delimiter(0))}
          => /\ x \in Seq(Bytes) /\ y \in Seq(Nat)
             /\ Len(x) + Len(y) <= Len(app) + Len(debug) + 1
    BY <1>2
  <2> HIDE DEF t
  <2> QED BY <1>3, <2>1, <2>2
<1>5. \A b \in Bytes : Fits(Data(h0, b))
  <2> TAKE b \in Bytes
  <2>1. /\ Append(app, b) \in Seq(Bytes) /\ Len(Append(app, b)) = Len(app) + 1
        /\ Append(debug, b) \in Seq(Nat) /\ Len(Append(debug, b)) = Len(debug) + 1
    BY DEF Bytes
  <2>2. \/ Data(h0, b).app = Append(app, b) /\ Data(h0, b).debug = debug
        \/ Data(h0, b).app = app /\ Data(h0, b).debug = Append(debug, b)
    BY DEF Data
  <2>3. /\ Len(Append(app, b)) + Len(debug) <= Len(app) + Len(debug) + 1
        /\ Len(app) + Len(Append(debug, b)) <= Len(app) + Len(debug) + 1
    BY <1>2, <2>1
  <2> HIDE DEF h0
  <2> QED BY <2>1, <2>2, <2>3
<1>6. \A s : Fits([t EXCEPT !.stream = s])
  <2>1. \A s : /\ [t EXCEPT !.stream = s].app = t.app
               /\ [t EXCEPT !.stream = s].debug = t.debug
    BY DEF Terminated
  <2> QED BY <1>4, <2>1
<1>7. Fits([h0 EXCEPT !.escaping = TRUE])
  BY <1>4
<1>8. Complement(ch) \in Bytes
  BY CharacterTypes
<1>9. Fits(Route(h0, ch))
  <2> HIDE DEF Fits, h0, t
  <2>1. Route(h0, ch) \in {[t EXCEPT !.stream = "user"], [t EXCEPT !.stream = "debug"],
                           [h0 EXCEPT !.escaping = TRUE], Data(h0, ch), Data(h0, Complement(ch))}
    BY DEF Route, t
  <2> QED BY <1>5, <1>6, <1>7, <1>8, <2>1
<1> QED BY <1>9

\* What serial_update reads fits into the raw buffer.
LEMMA ReadFits ==
  ASSUME ReceiveInv, ReadPort
  PROVE  /\ line' \in Seq(Bytes) /\ buf' \in Seq(Bytes)
         /\ Len(buf') <= BufferSize
<1>1. line \in Seq(Bytes) /\ buf = <<>>
  BY DEF ReceiveInv, ReceiveTypes, RoundInv, ReadPort
<1> DEFINE n == Min({BufferSize, Len(line)})
<1>2. n \in {BufferSize, Len(line)} /\ n <= BufferSize /\ n <= Len(line)
  <2>1. BufferSize \in Nat /\ Len(line) \in Nat
    BY <1>1, StreamAssumption
  <2>2. \E x \in {BufferSize, Len(line)} : \A y \in {BufferSize, Len(line)} : x <= y
    <3>1. CASE BufferSize <= Len(line)
      BY <2>1, <3>1
    <3>2. CASE Len(line) <= BufferSize
      BY <2>1, <3>2
    <3> QED BY <2>1, <3>1, <3>2
  <2> QED BY <2>2 DEF Min
<1> HIDE DEF n
<1>3. n \in 0 .. Len(line)
  BY <1>1, <1>2, StreamAssumption
<1>4. line' = SubSeq(line, n + 1, Len(line)) /\ buf' = buf \o SubSeq(line, 1, n)
  BY <1>1 DEF ReadPort, n
<1>5. SubSeq(line, n + 1, Len(line)) \in Seq(Bytes)
  BY <1>1, <1>3, SubSeqProperties
<1>6. SubSeq(line, 1, n) \in Seq(Bytes) /\ Len(SubSeq(line, 1, n)) = n
  BY <1>1, <1>3, SubSeqProperties
<1> QED BY <1>1, <1>2, <1>4, <1>5, <1>6

\* The round: what is read is routed, taken and handed on before the next one.
LEMMA HostStep ==
  ASSUME ReceiveInv, Host
  PROVE  ReceiveInv'
<1> USE DEF ReceiveInv
<1>1. CASE ReadPort
  <2>1. line' \in Seq(Bytes) /\ buf' \in Seq(Bytes) /\ Len(buf') <= BufferSize
    BY <1>1, ReadFits
  <2>2. appRxBuf = <<>> /\ debugRxBuf = <<>> /\ pc' = "route"
    BY <1>1 DEF ReadPort, RoundInv
  <2>3. ReceiveTypes'
    BY <1>1, <2>1, <2>2 DEF ReadPort, ReceiveTypes
  <2>4. Len(appRxBuf') + Len(debugRxBuf') + Len(buf') <= BufferSize
    <3>1. appRxBuf' = <<>> /\ debugRxBuf' = <<>>
      BY <1>1, <2>2 DEF ReadPort
    <3>2. Len(appRxBuf') = 0 /\ Len(debugRxBuf') = 0 /\ Len(buf') \in Nat
      BY <2>1, <3>1
    <3> QED BY <2>1, <3>2
  <2> QED BY <2>2, <2>3, <2>4 DEF RoundInv
<1>2. CASE RouteByte
  <2>1. Head(buf) \in Bytes /\ Tail(buf) \in Seq(Bytes) /\ Len(buf) = Len(Tail(buf)) + 1
    BY <1>2, HeadTailProperties DEF RouteByte, ReceiveTypes
  <2>2. PICK h : /\ h = Route([stream |-> port.stream, escaping |-> port.escaping,
                               terminated |-> port.terminated, app |-> appRxBuf,
                               debug |-> debugRxBuf], Head(buf))
                 /\ appRxBuf' = h.app /\ debugRxBuf' = h.debug
    BY <1>2 DEF RouteByte
  <2>3. /\ appRxBuf' \in Seq(Bytes) /\ debugRxBuf' \in Seq(Nat)
        /\ Len(appRxBuf') + Len(debugRxBuf') <= Len(appRxBuf) + Len(debugRxBuf) + 1
    BY <2>1, <2>2, RouteAddsOne DEF ReceiveTypes
  <2>4. UNCHANGED <<tx, line, pc>> /\ pc = "route" /\ buf' = Tail(buf)
    BY <1>2 DEF RouteByte
  <2>5. ReceiveTypes'
    BY <2>1, <2>3, <2>4 DEF ReceiveTypes
  <2>6. Len(appRxBuf') + Len(debugRxBuf') + Len(buf') <= BufferSize
    BY <2>1, <2>3, <2>4, StreamAssumption DEF ReceiveTypes, RoundInv
  <2> QED BY <2>4, <2>5, <2>6 DEF RoundInv
<1>3. CASE EndRoute
  <2>1. Len(buf) \in Nat /\ Len(appRxBuf) \in Nat /\ Len(debugRxBuf) \in Nat
    BY DEF ReceiveTypes
  <2>2. buf = <<>>
    <3>1. Full => Len(buf) = 0
      BY <1>3, <2>1, StreamAssumption DEF EndRoute, RoundInv, Full
    <3> QED BY <1>3, <3>1 DEF EndRoute, ReceiveTypes
  <2> QED BY <1>3, <2>2 DEF EndRoute, ReceiveTypes, RoundInv
<1>4. CASE receivePacket
  <2>1. Tail(debugRxBuf) \in Seq(Nat)
    BY <1>4 DEF receivePacket, ReceiveTypes
  <2> QED BY <1>4, <2>1 DEF receivePacket, ReceiveTypes, RoundInv
<1>5. CASE EndPackets
  BY <1>5 DEF EndPackets, AllTaken, ReceiveTypes, RoundInv
<1>6. CASE handleApplicationData
  BY <1>6 DEF handleApplicationData, ReceiveTypes, RoundInv
<1> QED BY <1>1, <1>2, <1>3, <1>4, <1>5, <1>6 DEF Host

\* The buffers of a round hold what they must at every call of the main loop
\* (serial_update, debugCommands_update, handleApplicationData).
THEOREM RoundInvariant == Spec => []ReceiveInv
<1>1. Init => ReceiveInv
  BY EmptySeq DEF Init, RxInit, ReceiveInv, ReceiveTypes, RoundInv, TxRegs
<1>2. ReceiveInv /\ [Next]_vars => ReceiveInv'
  <2> SUFFICES ASSUME ReceiveInv, [Next]_vars
               PROVE  ReceiveInv'
    OBVIOUS
  <2>1. CASE UNCHANGED rxVars
    BY <2>1 DEF rxVars, ReceiveInv, ReceiveTypes, RoundInv
  <2>2. CASE RxNext
    BY <2>2, HardwareStep, HostStep DEF RxNext
  <2> QED BY <2>1, <2>2 DEF Next, vars
<1> QED BY <1>1, <1>2, PTL DEF Spec

\* rvsrv sleeps in select_wait with nothing in its raw buffer, and with the
\* port registered (serial.c: serial_update).
THEOREM NothingIsLeft == Spec => []NothingLeftBehind
<1>1. ReceiveInv => NothingLeftBehind
  BY DEF ReceiveInv, RoundInv, NothingLeftBehind
<1> QED BY <1>1, RoundInvariant, PTL

-----------------------------------------------------------------------------
(* What a packet becomes on the line.                                       *)

\* One character, or two for a control character.
LEMMA EscapedLength ==
  ASSUME NEW b \in Nat
  PROVE  Escaped(b) \in Seq(Nat) /\ Len(Escaped(b)) >= 1
<1>1. CASE NeedsEscape(b)
  <2>1. CHAR_ESCAPE \in Nat /\ Complement(b) \in Nat
    BY <1>1, StreamAssumption
       DEF NeedsEscape, CHAR_SEL_APP, CHAR_SEL_DEBUG, CHAR_ESCAPE, Complement
  <2> QED BY <1>1, <2>1 DEF Escaped
<1>2. CASE ~NeedsEscape(b)
  BY <1>2 DEF Escaped
<1> QED BY <1>1, <1>2

\* Escaping never makes a packet shorter.
LEMMA EscapedAllLength ==
  ASSUME NEW p \in Seq(Nat)
  PROVE  EscapedAll(p) \in Seq(Nat) /\ Len(EscapedAll(p)) >= Len(p)
<1> DEFINE seqs == [i \in DOMAIN p |-> Escaped(p[i])]
<1>1. DOMAIN p = 1 .. Len(p) /\ Len(p) \in Nat /\ \A i \in 1 .. Len(p) : p[i] \in Nat
  BY ElementOfSeq, LenProperties
<1>2. \A i \in 1 .. Len(p) : seqs[i] \in Seq(Nat) /\ Len(seqs[i]) >= 1
  BY <1>1, EscapedLength
<1>a. seqs \in [1 .. Len(p) -> Seq(Nat)]
  BY <1>1, <1>2
<1>b. seqs \in Seq(Seq(Nat)) /\ Len(seqs) = Len(p)
  BY <1>1, <1>a
<1>3. EscapedAll(p) = FlattenSeq(seqs)
  BY DEF EscapedAll
<1> HIDE DEF seqs
<1>4. CASE Len(p) = 0
  <2>1. FlattenSeq(seqs) = seqs /\ seqs = <<>>
    BY <1>b, <1>4 DEF FlattenSeq
  <2> QED BY <1>3, <1>4, <2>1
<1>5. CASE Len(p) # 0
  <2>1. PICK f : Flattening(seqs, Len(p), f) /\ FlattenSeq(seqs) = f[Len(p)]
    BY <1>1, <1>b, <1>5, FlattenUnfolds
  <2>2. \A i \in 1 .. Len(p) : f[i] = IF i = 1 THEN seqs[i] ELSE f[i - 1] \o seqs[i]
    BY <2>1 DEF Flattening
  <2> DEFINE Long(k) == f[k] \in Seq(Nat) /\ Len(f[k]) >= k
             T == {k \in 1 .. Len(p) : ~Long(k)}
  <2>3. T = {}
    <3> SUFFICES ASSUME T # {} PROVE FALSE
      OBVIOUS
    <3>1. PICK m \in T : \A k \in Nat : k < m => k \notin T
      <4>1. T \in SUBSET Nat
        OBVIOUS
      <4> HIDE DEF T
      <4> QED BY <4>1, LeastNumber, Zenon
    <3>2. m \in 1 .. Len(p) /\ ~Long(m)
      BY <3>1
    <3>3. m # 1
      BY <1>2, <2>2, <3>2
    <3>4. m - 1 \in 1 .. Len(p) /\ m - 1 \in Nat /\ m - 1 < m
      BY <1>1, <3>2, <3>3
    <3>5. Long(m - 1)
      BY <3>1, <3>4
    <3>6. f[m] = f[m - 1] \o seqs[m] /\ seqs[m] \in Seq(Nat) /\ Len(seqs[m]) >= 1
      BY <1>2, <2>2, <3>2, <3>3
    <3>7. f[m] \in Seq(Nat) /\ Len(f[m]) = Len(f[m - 1]) + Len(seqs[m])
      BY <3>5, <3>6, ConcatProperties
    <3>8. Len(f[m - 1]) \in Nat /\ Len(seqs[m]) \in Nat /\ Len(f[m - 1]) >= m - 1
      BY <3>5, <3>6
    <3>9. Len(f[m]) >= m
      <4>1. \A x, y, z \in Nat : z = x + y /\ x >= m - 1 /\ y >= 1 => z >= m
        BY <3>2
      <4>2. Len(f[m]) \in Nat
        BY ONLY <3>7, LenProperties
      <4> QED BY <3>6, <3>7, <3>8, <4>1, <4>2
    <3> QED BY <3>2, <3>7, <3>9
  <2>4. Long(Len(p))
    <3>1. Len(p) \in 1 .. Len(p) /\ Len(p) \notin T
      BY <1>1, <1>5, <2>3
    <3> HIDE DEF Long
    <3> QED BY <3>1
  <2> QED BY <1>3, <2>1, <2>4
<1> QED BY <1>4, <1>5

-----------------------------------------------------------------------------
(* The transmitting direction.                                              *)

Elements == [to : {"app", "debug"}, data : Nat]

TransmitTypes ==
  /\ todo \in Seq(Elements)
  /\ appTxBuf \in Seq(Nat)
  /\ debugTxBuf \in Seq(Nat)
  /\ packetBuf \in Seq(Nat)
  /\ packetReady \in Nat \cup {NoPacket}
  /\ delay \in Nat
  /\ since \in Nat
  /\ need \in Nat
  /\ gap \in [got : Nat, need : Nat]

\* The delay still to wait and the characters sent make up what the last packet
\* asked for; the packet that is ready to go counts for its own bytes and the
\* character that ends it, as DelayLeft subtracts them.
Distance ==
  since + delay + (IF Ready THEN Len(packetBuf) + 1 ELSE 0) >= need

TransmitInv == TransmitTypes /\ Distance /\ DelayKept

\* What the subtraction of serial_flush leaves.
LEMMA LessBounds ==
  ASSUME NEW d \in Nat, NEW n \in Nat
  PROVE  Less(d, n) \in Nat /\ Less(d, n) + n >= d
BY DEF Less

\* The calls fill the buffers with numbers.
LEMMA CallStep ==
  ASSUME TransmitInv,
         \/ \E b \in AppBytes : AppSend(b)
         \/ \E p \in Commands : transmitPacket(p)
         \/ Push
         \/ Flush
  PROVE  TransmitInv'
<1>1. UNCHANGED <<packetBuf, packetReady, delay, since, need, gap>>
  BY DEF AppSend, transmitPacket, Push, Flush, quiet
<1>2. Distance' /\ DelayKept'
  BY <1>1 DEF TransmitInv, Distance, DelayKept, Ready
<1>3. todo' \in Seq(Elements) /\ appTxBuf' \in Seq(Nat) /\ debugTxBuf' \in Seq(Nat)
  <2>1. ASSUME NEW b \in AppBytes, AppSend(b)
        PROVE  todo' \in Seq(Elements) /\ UNCHANGED <<appTxBuf, debugTxBuf>>
    <3>1. [to |-> "app", data |-> b] \in Elements
      BY TransmitAssumption DEF Elements, Bytes
    <3> QED BY <2>1, <3>1 DEF AppSend
  <2>2. ASSUME NEW p \in Commands, transmitPacket(p)
        PROVE  todo' \in Seq(Elements) /\ UNCHANGED <<appTxBuf, debugTxBuf>>
    <3>1. p.bytes \in Seq(Bytes) /\ p.delay \in Nat
      BY TransmitAssumption
    <3>2. PICK s \in Seq(Bytes) : s = p.bytes
      BY <3>1
    <3>a. \A i \in 1 .. Len(s) : s[i] \in Nat
      <4>1. \A i \in 1 .. Len(s) : s[i] \in Bytes
        BY ElementOfSeq
      <4>2. Bytes \subseteq Nat
        BY StreamAssumption DEF Bytes
      <4> QED BY <4>1, <4>2
    <3>b. \A i \in 1 .. Len(s) : [to |-> "debug", data |-> s[i]] \in Elements
      BY <3>a DEF Elements
    <3>3. [i \in DOMAIN s |-> [to |-> "debug", data |-> s[i]]] \in Seq(Elements)
      BY <3>b
    <3>4. [to |-> "debug", data |-> Delimiter(p.delay)] \in Elements
      BY <3>1, StreamAssumption DEF Elements, Delimiter
    <3>5. <<[to |-> "debug", data |-> Delimiter(p.delay)]>> \in Seq(Elements)
      BY <3>4
    <3> QED BY <2>2, <3>2, <3>3, <3>5, ConcatProperties DEF transmitPacket
  <2>3. ASSUME Push
        PROVE  todo' \in Seq(Elements) /\ appTxBuf' \in Seq(Nat) /\ debugTxBuf' \in Seq(Nat)
    <3>1. Head(todo) \in Elements /\ Tail(todo) \in Seq(Elements)
      BY <2>3 DEF Push, TransmitInv, TransmitTypes
    <3>2. Head(todo).data \in Nat
      BY <3>1 DEF Elements
    <3>3. appTxBuf \in Seq(Nat) /\ debugTxBuf \in Seq(Nat)
      BY DEF TransmitInv, TransmitTypes
    <3>4. /\ Append(appTxBuf, Head(todo).data) \in Seq(Nat)
          /\ Append(debugTxBuf, Head(todo).data) \in Seq(Nat)
      BY <3>2, <3>3
    <3>5. /\ todo' = Tail(todo)
          /\ appTxBuf' \in {appTxBuf, Append(appTxBuf, Head(todo).data)}
          /\ debugTxBuf' \in {debugTxBuf, Append(debugTxBuf, Head(todo).data)}
      BY <2>3 DEF Push
    <3> QED BY <3>1, <3>3, <3>4, <3>5
  <2>4. ASSUME Flush
        PROVE  UNCHANGED <<todo, appTxBuf, debugTxBuf>>
    BY <2>4 DEF Flush
  <2> QED BY <2>1, <2>2, <2>3, <2>4 DEF TransmitInv, TransmitTypes
<1> QED BY <1>1, <1>2, <1>3 DEF TransmitInv, TransmitTypes

\* A packet is completed only after the distance.
LEMMA PacketStep ==
  ASSUME TransmitInv, SendPacket
  PROVE  TransmitInv'
<1> USE DEF TransmitInv
<1>1. packetBuf \in Seq(Nat) /\ Len(packetBuf) \in Nat /\ delay = 0 /\ since \in Nat /\ need \in Nat
  BY DEF SendPacket, TransmitTypes
<1>2. packetReady \in Nat
  BY DEF SendPacket, TransmitTypes, Ready
<1>3. \A more : Terminator(more) \in Seq(Nat) /\ Len(Terminator(more)) = 1
  BY StreamAssumption DEF Terminator, CHAR_SEL_APP, CHAR_SEL_DEBUG
<1>4. PICK start \in Seq(Nat), term \in Seq(Nat) :
        /\ Len(term) = 1
        /\ gap' = [got |-> since + Len(start \o EscapedAll(packetBuf) \o term), need |-> need]
  <2> DEFINE start == IF txStream # "debug" THEN <<CHAR_SEL_DEBUG>> ELSE <<>>
             term == Terminator(debugTxBuf # <<>>)
  <2>1. CHAR_SEL_DEBUG \in Nat
    BY StreamAssumption DEF CHAR_SEL_DEBUG
  <2>2. start \in Seq(Nat)
    BY <2>1
  <2>3. term \in Seq(Nat) /\ Len(term) = 1
    BY <1>3
  <2>4. gap' = [got |-> since + Len(start \o EscapedAll(packetBuf) \o term), need |-> need]
    BY DEF SendPacket
  <2> HIDE DEF start, term
  <2> QED BY <2>2, <2>3, <2>4
<1>5. EscapedAll(packetBuf) \in Seq(Nat) /\ Len(EscapedAll(packetBuf)) >= Len(packetBuf)
  BY <1>1, EscapedAllLength
<1>6. PICK n \in Nat : n = Len(start \o EscapedAll(packetBuf) \o term)
                       /\ n >= Len(packetBuf) + 1
  <2>1. PICK e \in Seq(Nat) : e = EscapedAll(packetBuf)
    BY <1>5
  <2>2. start \o e \in Seq(Nat) /\ Len(start \o e) = Len(start) + Len(e) /\ Len(start) \in Nat
    BY <2>1, ConcatProperties
  <2>3. PICK se \in Seq(Nat) : se = start \o e /\ Len(se) = Len(start) + Len(e)
    BY <2>2
  <2>4. Len(se \o term) = Len(se) + 1 /\ Len(e) \in Nat
    <3>1. Len(se \o term) = Len(se) + Len(term) /\ Len(e) \in Nat
      BY ConcatProperties
    <3> QED BY <1>4, <3>1
  <2>5. Len(start \o EscapedAll(packetBuf) \o term) = Len(start) + Len(e) + 1
    BY <2>1, <2>2, <2>3, <2>4
  <2>6. Len(start) + Len(e) + 1 \in Nat /\ Len(start) + Len(e) + 1 >= Len(packetBuf) + 1
    BY <1>1, <1>5, <2>1, <2>2, <2>4
  <2> QED BY <2>5, <2>6
<1>7. since + n >= need
  <2>1. since + delay + (Len(packetBuf) + 1) >= need
    BY DEF SendPacket, Distance
  <2> QED BY <1>1, <1>6, <2>1
<1>8. gap' = [got |-> since + n, need |-> need]
  BY <1>4, <1>6
<1>9. gap' \in [got : Nat, need : Nat] /\ DelayKept'
  BY <1>1, <1>6, <1>7, <1>8 DEF DelayKept
<1>10. /\ need' = packetReady /\ since' = 1 /\ delay' = Less(packetReady, 1)
       /\ packetReady' = NoPacket /\ packetBuf' = <<>>
       /\ UNCHANGED <<todo, appTxBuf, debugTxBuf>>
  BY DEF SendPacket
<1>11. Less(packetReady, 1) \in Nat /\ Less(packetReady, 1) + 1 >= packetReady
  BY <1>2, LessBounds
<1>12. Distance'
  BY <1>2, <1>10, <1>11 DEF Distance, Ready
<1>13. TransmitTypes'
  BY <1>2, <1>9, <1>10, <1>11 DEF TransmitTypes
<1> QED BY <1>9, <1>12, <1>13

\* serial_flush takes no more off the delay than it sends.
LEMMA FlushKeeps ==
  ASSUME TransmitInv, FlushStep
  PROVE  TransmitInv'
<1> USE DEF TransmitInv
<1>0. /\ Len(packetBuf) \in Nat /\ delay \in Nat /\ since \in Nat /\ need \in Nat
      /\ packetBuf \in Seq(Nat) /\ NoPacket \notin Nat
  BY DEF TransmitTypes, NoPacket
<1>1. CASE FillPacket
  <2>1. Head(debugTxBuf) \in Nat /\ Tail(debugTxBuf) \in Seq(Nat)
    BY <1>1 DEF FillPacket, CanFill, TransmitTypes
  <2>2. ~Ready /\ UNCHANGED <<todo, appTxBuf, since, need, gap>> /\ debugTxBuf' = Tail(debugTxBuf)
    BY <1>1 DEF FillPacket, CanFill, quiet
  <2>4. since + delay >= need
    BY <2>2, <1>0 DEF Distance
  <2>5. CASE ~IsDelimiter(Head(debugTxBuf))
    <3>1. packetBuf' = Append(packetBuf, Head(debugTxBuf)) /\ UNCHANGED <<packetReady, delay>>
      BY <1>1, <2>5 DEF FillPacket
    <3>2. packetBuf' \in Seq(Nat)
      BY <1>0, <2>1, <3>1
    <3>3. TransmitTypes'
      BY <2>1, <2>2, <3>1, <3>2 DEF TransmitTypes
    <3>4. Distance' /\ DelayKept'
      BY <1>0, <2>2, <2>4, <3>1 DEF Distance, Ready, DelayKept
    <3> QED BY <3>3, <3>4
  <2>6. CASE IsDelimiter(Head(debugTxBuf)) /\ Len(packetBuf) <= PacketMax
    <3>1. /\ packetReady' = Head(debugTxBuf) - Delimiter(0)
          /\ delay' = DelayLeft(packetBuf) /\ UNCHANGED packetBuf
      BY <1>1, <2>6 DEF FillPacket
    <3>2. packetReady' \in Nat
      BY <2>1, <2>6, <3>1, StreamAssumption DEF IsDelimiter, Delimiter
    <3>3. delay' \in Nat /\ delay' + (Len(packetBuf) + 1) >= delay
      BY <1>0, <3>1, LessBounds DEF DelayLeft
    <3>4. TransmitTypes'
      BY <2>1, <2>2, <3>1, <3>2, <3>3 DEF TransmitTypes
    <3>5. Distance'
      BY <1>0, <2>2, <2>4, <3>1, <3>2, <3>3 DEF Distance, Ready
    <3>6. DelayKept'
      BY <2>2 DEF DelayKept
    <3> QED BY <3>4, <3>5, <3>6
  <2>7. CASE IsDelimiter(Head(debugTxBuf)) /\ ~(Len(packetBuf) <= PacketMax)
    <3>1. packetBuf' = <<>> /\ UNCHANGED <<packetReady, delay>>
      BY <1>1, <2>7 DEF FillPacket
    <3>2. TransmitTypes'
      BY <2>1, <2>2, <3>1 DEF TransmitTypes
    <3>3. Distance' /\ DelayKept'
      BY <1>0, <2>2, <2>4, <3>1 DEF Distance, Ready, DelayKept
    <3> QED BY <3>2, <3>3
  <2> QED BY <2>5, <2>6, <2>7
<1>2. CASE SendApp
  <2>1. Head(appTxBuf) \in Nat /\ Tail(appTxBuf) \in Seq(Nat)
    BY <1>2 DEF SendApp, CanPad, TransmitTypes
  <2>2. PICK sel \in Seq(Nat) : /\ since' = since + Len(sel \o Escaped(Head(appTxBuf)))
                                /\ delay' = Less(delay, Len(sel) + 1)
    <3>1. CHAR_SEL_APP \in Nat
      BY StreamAssumption DEF CHAR_SEL_APP
    <3> DEFINE sel == IF txStream # "user" THEN <<CHAR_SEL_APP>> ELSE <<>>
    <3>2. sel \in Seq(Nat)
      BY <3>1
    <3>3. since' = since + Len(sel \o Escaped(Head(appTxBuf))) /\ delay' = Less(delay, Len(sel) + 1)
      BY <1>2 DEF SendApp, Write
    <3> HIDE DEF sel
    <3> QED BY <3>2, <3>3
  <2>3. PICK e \in Seq(Nat) : e = Escaped(Head(appTxBuf)) /\ Len(e) >= 1
    BY <2>1, EscapedLength
  <2>4. Len(sel \o e) = Len(sel) + Len(e) /\ Len(sel) \in Nat /\ Len(e) \in Nat
    BY ConcatProperties
  <2>5. since' \in Nat /\ since' >= since + (Len(sel) + 1)
    BY <1>0, <2>2, <2>3, <2>4
  <2>6. delay' \in Nat /\ delay' + (Len(sel) + 1) >= delay
    BY <1>0, <2>2, <2>4, LessBounds
  <2>7. UNCHANGED <<todo, debugTxBuf, packetBuf, packetReady, need, gap>> /\ appTxBuf' = Tail(appTxBuf)
    BY <1>2 DEF SendApp
  <2>8. TransmitTypes'
    BY <2>1, <2>5, <2>6, <2>7 DEF TransmitTypes
  <2>9. since' + delay' >= since + delay
    <3>1. PICK n \in Nat : n = Len(sel) + 1
      BY <2>4
    <3>2. since' >= since + n /\ delay' + n >= delay
      BY <2>5, <2>6, <3>1
    <3>3. \A a, b, c, d \in Nat : a >= b + n /\ c + n >= d => a + c >= b + d
      OBVIOUS
    <3> QED BY <1>0, <2>5, <2>6, <3>2, <3>3
  <2>10. Distance' /\ DelayKept'
    <3>1. PICK n \in Nat : n = IF Ready THEN Len(packetBuf) + 1 ELSE 0
      BY <1>0
    <3>2. since + delay + n >= need /\ (IF Ready THEN Len(packetBuf) + 1 ELSE 0)' = n
      BY <2>7, <3>1 DEF Distance, Ready
    <3>3. since' + delay' + n >= need
      <4>1. \A a, b, c, d, x \in Nat : a + b >= c + d /\ c + d + n >= x => a + b + n >= x
        OBVIOUS
      <4> QED BY <1>0, <2>5, <2>6, <2>9, <3>2, <4>1
    <3> QED BY <2>7, <3>2, <3>3 DEF Distance, DelayKept
  <2> QED BY <2>8, <2>10
<1>3. CASE Pad
  <2>1. /\ since' = since + Len(<<CHAR_SEL_APP>>) /\ delay' = delay - 1 /\ delay > 0
        /\ UNCHANGED <<todo, appTxBuf, debugTxBuf, packetBuf, packetReady, need, gap>>
    BY <1>3 DEF Pad, Write
  <2>2. since' = since + 1 /\ since' \in Nat /\ delay' \in Nat
    BY <1>0, <2>1
  <2>3. TransmitTypes'
    BY <2>1, <2>2 DEF TransmitTypes
  <2>4. since' + delay' = since + delay
    BY <1>0, <2>1, <2>2
  <2>5. Distance' /\ DelayKept'
    BY <2>1, <2>4 DEF Distance, Ready, DelayKept
  <2> QED BY <2>3, <2>5
<1>4. CASE SendPacket
  BY <1>4, PacketStep
<1>5. CASE EndFlush \/ Deliver
  <2>1. UNCHANGED <<todo, appTxBuf, debugTxBuf, packetBuf, packetReady, delay, since, need, gap>>
    BY <1>5 DEF EndFlush, Deliver, quiet
  <2> QED BY <2>1 DEF TransmitTypes, Distance, Ready, DelayKept
<1> QED BY <1>1, <1>2, <1>3, <1>4, <1>5 DEF FlushStep

\* What is sent and what is still to wait make up the delay asked for, at every
\* step of serial_flush.
THEOREM DistanceInvariant == Spec => []TransmitInv
<1>1. Init => TransmitInv
  BY EmptySeq DEF Init, TxInit, TransmitInv, TransmitTypes, Distance, DelayKept, Ready
<1>2. TransmitInv /\ [Next]_vars => TransmitInv'
  <2> SUFFICES ASSUME TransmitInv, [Next]_vars
               PROVE  TransmitInv'
    OBVIOUS
  <2>1. CASE UNCHANGED txVars
    BY <2>1 DEF txVars, TransmitInv, TransmitTypes, Distance, Ready, DelayKept
  <2>2. CASE TxNext
    BY <2>2, CallStep, FlushKeeps DEF TxNext
  <2> QED BY <2>1, <2>2 DEF Next, vars
<1> QED BY <1>1, <1>2, PTL DEF Spec

\* serial.c: at least as many characters as a packet's delimiter asks for lie
\* between its last byte and the end of the next packet.
THEOREM DelayIsKept == Spec => []DelayKept
<1>1. TransmitInv => DelayKept
  BY DEF TransmitInv
<1> QED BY <1>1, DistanceInvariant, PTL

-----------------------------------------------------------------------------
(* Both streams arrive unchanged.                                           *)

Switches ==
  [stream : {"user", "debug"}, escaping : BOOLEAN, partial : Seq(Bytes),
   user : Seq(Bytes), packets : Seq(Seq(Bytes))]

AppCalls   == [to : {"app"}, data : Bytes]
DebugCalls == [to : {"debug"}, data : Nat]

StreamTypes ==
  /\ todo \in Seq(AppCalls) \/ todo \in Seq(DebugCalls)
  /\ appTxBuf \in Seq(Bytes)
  /\ debugTxBuf \in Seq(Nat)
  /\ packetBuf \in Seq(Bytes)
  /\ packetReady \in Nat \cup {NoPacket}
  /\ txStream \in {"user", "debug"}
  /\ sw \in Switches
  /\ sentApp \in Seq(Bytes)
  /\ sentPackets \in Seq(Seq(Bytes))

\* The buffers are not overfilled, and a packet is ready only during a flush.
Limits ==
  /\ Len(appTxBuf) <= BufferSize /\ Len(debugTxBuf) <= BufferSize
  /\ Ready => flushing /\ Len(packetBuf) <= PacketMax

\* What the present call still has to push to one of the buffers.
CallData(calls) == [i \in 1 .. Len(calls) |-> calls[i].data]
Called(stream) == IF todo # <<>> /\ todo[1].to = stream THEN CallData(todo) ELSE <<>>

\* What is on the wire: nothing, padding, an application byte or a packet, with
\* what the receiver has of it already.
NothingSent ==
  wire = <<>> /\ ~sw.escaping /\ sw.partial = <<>> /\ sw.stream = txStream

PadSent ==
  wire = <<CHAR_SEL_APP>> /\ ~sw.escaping /\ sw.partial = <<>> /\ txStream = "user"

ByteSent(b) ==
  /\ txStream = "user" /\ sw.partial = <<>>
  /\ \/ ~sw.escaping /\ wire = <<CHAR_SEL_APP>> \o Escaped(b)
     \/ ~sw.escaping /\ sw.stream = "user" /\ wire = Escaped(b)
     \/ sw.escaping /\ sw.stream = "user" /\ NeedsEscape(b) /\ wire = <<Complement(b)>>

Ending == IF txStream = "debug" THEN <<CHAR_SEL_DEBUG>> ELSE <<CHAR_SEL_APP>>

PacketSent(q) ==
  \/ /\ ~sw.escaping /\ sw.partial = <<>> /\ sw.stream = "user"
     /\ wire = <<CHAR_SEL_DEBUG>> \o (EscapedAll(q) \o Ending)
  \/ /\ sw.stream = "debug"
     /\ \E r \in Seq(Bytes) :
          /\ q = sw.partial \o r
          /\ \/ ~sw.escaping /\ wire = EscapedAll(r) \o Ending
             \/ /\ sw.escaping /\ r # <<>> /\ NeedsEscape(Head(r))
                /\ wire = <<Complement(Head(r))>> \o (EscapedAll(Tail(r)) \o Ending)

\* The application bytes and the packets that the wire carries.
Carries(a, p) ==
  \/ (NothingSent \/ PadSent) /\ a = <<>> /\ p = <<>>
  \/ \E b \in Bytes : ByteSent(b) /\ a = <<b>> /\ p = <<>>
  \/ \E q \in Seq(Bytes) : PacketSent(q) /\ a = <<>> /\ p = <<q>>

\* A sequence of bytes and delimiters that holds some packets: where the
\* delimiter of each lies.
Holds(d, ps) ==
  \E cut \in [0 .. Len(ps) -> 0 .. Len(d)] :
    /\ cut[0] = 0 /\ cut[Len(ps)] = Len(d)
    /\ \A i, j \in 0 .. Len(ps) : i <= j => cut[i] <= cut[j]
    /\ \A i \in 1 .. Len(ps) :
         /\ cut[i] = cut[i - 1] + Len(ps[i]) + 1
         /\ IsDelimiter(d[cut[i]])
         /\ \A j \in 1 .. Len(ps[i]) : d[cut[i - 1] + j] = ps[i][j]

\* The debug stream that has not been sent.
Due == IF Ready THEN <<Delimiter(packetReady)>> ELSE <<>>
Pending == packetBuf \o (Due \o (debugTxBuf \o Called("debug")))

\* Every application byte has arrived, is on the wire, in the buffer or about to
\* be pushed; every packet has arrived, is on the wire, was left out because of
\* its length, or is still pending.
Delivery(a, p) ==
  /\ Carries(a, p)
  /\ sentApp = sw.user \o (a \o (appTxBuf \o Called("app")))
  /\ \E done \in Seq(Seq(Bytes)), rest \in Seq(Seq(Bytes)) :
       /\ sentPackets = done \o rest
       /\ OfLength(done, 1..PacketMax) = NonEmpty(sw.packets) \o NonEmpty(p)
       /\ Holds(Pending, rest)

StreamInv ==
  /\ StreamTypes
  /\ Limits
  /\ \E a \in Seq(Bytes), p \in Seq(Seq(Bytes)) : Delivery(a, p)

-----------------------------------------------------------------------------
(* Lists of packets by their lengths.                                       *)

\* A packet when it has one of the lengths.
OneIf(p, lengths) == IF Len(p) \in lengths THEN <<p>> ELSE <<>>

\* One packet more.
LEMMA OfLengthAppend ==
  ASSUME NEW P, NEW list \in Seq(P), NEW p \in P, NEW lengths
  PROVE  /\ OfLength(list, lengths) \in Seq(P)
         /\ OfLength(Append(list, p), lengths) = OfLength(list, lengths) \o OneIf(p, lengths)
<1> DEFINE Options(s) == [i \in DOMAIN s |-> IF Len(s[i]) \in lengths THEN <<s[i]>> ELSE <<>>]
<1>1. PICK n \in Nat : n = Len(list) /\ DOMAIN list = 1 .. n /\ \A i \in 1 .. n : list[i] \in P
  BY LenProperties, ElementOfSeq
<1>2. \A x \in P : OneIf(x, lengths) \in Seq(P)
  BY DEF OneIf
<1>3. PICK seqs \in Seq(Seq(P)) : seqs = Options(list) /\ Len(seqs) = n
  <2>1. \A i \in 1 .. n : Options(list)[i] \in Seq(P)
    BY <1>1, <1>2 DEF OneIf
  <2>2. Options(list) \in [1 .. n -> Seq(P)]
    BY <1>1, <2>1
  <2> HIDE DEF Options
  <2> QED BY <2>2
<1>4. PICK more : /\ more = Append(list, p) /\ DOMAIN more = 1 .. (n + 1) /\ more[n + 1] = p
                  /\ \A i \in 1 .. n : more[i] = list[i]
  <2>1. /\ Append(list, p) \in Seq(P) /\ Len(Append(list, p)) = n + 1
        /\ Append(list, p)[n + 1] = p
        /\ \A i \in 1 .. n : Append(list, p)[i] = list[i]
    BY <1>1, AppendProperties
  <2>2. DOMAIN Append(list, p) = 1 .. (n + 1)
    BY <2>1, LenProperties
  <2> QED BY <2>1, <2>2
<1>5. Options(more) = Append(seqs, OneIf(p, lengths))
  <2>1. PICK o : o = OneIf(p, lengths) /\ o \in Seq(P)
    BY <1>2
  <2>2. Append(seqs, o) = [i \in 1 .. (n + 1) |-> IF i = n + 1 THEN o ELSE seqs[i]]
    BY <1>3
  <2>3. \A i \in 1 .. (n + 1) : Options(more)[i] = IF i = n + 1 THEN o ELSE seqs[i]
    <3>1. ASSUME NEW i \in 1 .. (n + 1)
          PROVE  Options(more)[i] = IF i = n + 1 THEN o ELSE seqs[i]
      <4>1. CASE i = n + 1
        BY <1>4, <2>1, <4>1 DEF OneIf
      <4>2. CASE i # n + 1
        <5>1. i \in 1 .. n
          BY <4>2
        <5> QED BY <1>1, <1>3, <1>4, <4>2, <5>1
      <4> QED BY <4>1, <4>2
    <3> QED BY <3>1
  <2>4. Options(more) = [i \in 1 .. (n + 1) |-> IF i = n + 1 THEN o ELSE seqs[i]]
    BY <1>4, <2>3
  <2> QED BY <2>1, <2>2, <2>4
<1>6. OfLength(list, lengths) = FlattenSeq(seqs) /\ OfLength(more, lengths) = FlattenSeq(Options(more))
  BY <1>3 DEF OfLength
<1> HIDE DEF Options
<1>7. FlattenSeq(seqs) \in Seq(P)
      /\ FlattenSeq(Append(seqs, OneIf(p, lengths))) = FlattenSeq(seqs) \o OneIf(p, lengths)
  BY <1>2, FlattenAppend
<1> QED BY <1>4, <1>5, <1>6, <1>7

\* None, and one.
LEMMA OfLengthOne ==
  ASSUME NEW P, NEW p \in P, NEW lengths
  PROVE  OfLength(<<>>, lengths) = <<>> /\ OfLength(<<p>>, lengths) = OneIf(p, lengths)
<1>1. OfLength(<<>>, lengths) = <<>>
  BY DEF OfLength, FlattenSeq
<1>2. <<>> \in Seq(P) /\ Append(<<>>, p) = <<p>>
  OBVIOUS
<1>3. OfLength(<<p>>, lengths) = OfLength(<<>>, lengths) \o OneIf(p, lengths)
  BY <1>2, OfLengthAppend
<1>4. OneIf(p, lengths) \in Seq(P)
  BY DEF OneIf
<1> QED BY <1>1, <1>3, <1>4, ConcatEmptySeq

\* What comes first is a prefix, and stays one.
LEMMA PrefixOfConcat ==
  ASSUME NEW P, NEW s \in Seq(P), NEW t \in Seq(P)
  PROVE  IsPrefix(s, s \o t) /\ \A r \in Seq(P) : IsPrefix(r, s) => IsPrefix(r, s \o t)
<1>1. ASSUME NEW r \in Seq(P), IsPrefix(r, s) PROVE IsPrefix(r, s \o t)
  <2>1. /\ Len(r) \in Nat /\ Len(s) \in Nat /\ Len(t) \in Nat /\ Len(r) <= Len(s)
        /\ Len(s \o t) = Len(s) + Len(t)
        /\ SubSeq(r, 1, Len(r)) = SubSeq(s, 1, Len(r))
    BY <1>1, LenProperties, ConcatProperties DEF IsPrefix
  <2>2. SubSeq(s \o t, 1, Len(r)) = SubSeq(s, 1, Len(r))
    <3>1. CASE Len(r) = 0
      BY <3>1, SubSeqEmpty
    <3>2. CASE Len(r) # 0
      <4>1. 1 \in 1 .. Len(s) /\ Len(r) \in 1 .. Len(s)
        BY <2>1, <3>2
      <4> QED BY <4>1, SubSeqOfConcat1
    <3> QED BY <3>1, <3>2
  <2>3. Len(r) <= Len(s \o t)
    BY <2>1
  <2> QED BY <2>1, <2>2, <2>3 DEF IsPrefix
<1>2. IsPrefix(s, s)
  BY LenProperties DEF IsPrefix
<1> QED BY <1>1, <1>2

\* What the packets of some lengths of a list begin with, they still begin with
\* when the list goes on.
LEMMA OfLengthPrefix ==
  ASSUME NEW P, NEW list \in Seq(P), NEW more \in Seq(P), NEW lengths, NEW first \in Seq(P),
         IsPrefix(first, OfLength(list, lengths))
  PROVE  IsPrefix(first, OfLength(list \o more, lengths))
<1> DEFINE Good(x) == IsPrefix(first, OfLength(list \o x, lengths))
           T == {n \in Nat : \E x \in Seq(P) : Len(x) = n /\ ~Good(x)}
<1> SUFFICES ASSUME ~Good(more) PROVE FALSE
  OBVIOUS
<1>1. T # {}
  <2>1. Len(more) \in Nat
    BY LenProperties
  <2> QED BY <2>1
<1>2. PICK n \in T : \A k \in Nat : k < n => k \notin T
  <2>1. T \in SUBSET Nat
    OBVIOUS
  <2> HIDE DEF T
  <2> QED BY <1>1, <2>1, LeastNumber, Zenon
<1>3. PICK x \in Seq(P) : Len(x) = n /\ ~Good(x)
  BY <1>2
<1>4. x # <<>>
  <2>1. Good(<<>>)
    <3>1. list \o <<>> = list
      BY ConcatEmptySeq
    <3> QED BY <3>1
  <2> HIDE DEF Good
  <2> QED BY <1>3, <2>1
<1>5. PICK y \in Seq(P), e \in P : x = Append(y, e)
  BY <1>4, SequenceEmptyOrAppend
<1>6. Len(y) \in Nat /\ Len(y) < n /\ Len(x) = Len(y) + 1
  BY <1>3, <1>5, LenProperties, AppendProperties
<1>7. Good(y)
  <2>1. Len(y) \notin T
    <3> HIDE DEF T
    <3> QED BY <1>2, <1>6
  <2> HIDE DEF Good
  <2> QED BY <1>6, <2>1
<1>8. list \o x = Append(list \o y, e) /\ list \o y \in Seq(P)
  BY <1>5, ConcatProperties
<1>9. /\ OfLength(list \o y, lengths) \in Seq(P)
       /\ OfLength(list \o x, lengths) = OfLength(list \o y, lengths) \o OneIf(e, lengths)
  <2>1. PICK z \in Seq(P) : z = list \o y
    BY <1>8
  <2>2. /\ OfLength(z, lengths) \in Seq(P)
        /\ OfLength(Append(z, e), lengths) = OfLength(z, lengths) \o OneIf(e, lengths)
    <3>1. \A l \in Seq(P), q \in P :
            /\ OfLength(l, lengths) \in Seq(P)
            /\ OfLength(Append(l, q), lengths) = OfLength(l, lengths) \o OneIf(q, lengths)
      BY ONLY OfLengthAppend
    <3> QED BY ONLY <3>1, z \in Seq(P), e \in P
  <2> QED BY <1>8, <2>1, <2>2
<1>10. OneIf(e, lengths) \in Seq(P)
  BY DEF OneIf
<1>11. Good(x)
  <2>1. \A s \in Seq(P), t \in Seq(P), r \in Seq(P) : IsPrefix(r, s) => IsPrefix(r, s \o t)
    BY PrefixOfConcat
  <2> HIDE DEF Good
  <2>2. IsPrefix(first, OfLength(list \o y, lengths))
    BY <1>7 DEF Good
  <2>3. IsPrefix(first, OfLength(list \o x, lengths))
    BY <1>9, <1>10, <2>1, <2>2
  <2> QED BY <2>3 DEF Good
<1> QED BY <1>3, <1>11

-----------------------------------------------------------------------------
(* Characters.                                                              *)

\* The control characters differ, and no complement of one is one.
LEMMA Characters ==
  /\ CHAR_SEL_APP \in Bytes /\ CHAR_SEL_DEBUG \in Bytes /\ CHAR_ESCAPE \in Bytes
  /\ CHAR_SEL_APP # CHAR_SEL_DEBUG /\ CHAR_SEL_APP # CHAR_ESCAPE /\ CHAR_SEL_DEBUG # CHAR_ESCAPE
  /\ \A b \in Bytes : /\ b \in Nat /\ ~IsDelimiter(b)
                      /\ Complement(b) \in Bytes /\ Complement(Complement(b)) = b
                      /\ NeedsEscape(b) => ~NeedsEscape(Complement(b))
  /\ \A d \in Nat : IsDelimiter(d) \/ d \in Bytes
  /\ \A n \in Nat : Delimiter(n) \in Nat /\ IsDelimiter(Delimiter(n))
BY StreamAssumption
   DEF CHAR_SEL_APP, CHAR_SEL_DEBUG, CHAR_ESCAPE, Complement, NeedsEscape, IsDelimiter, Delimiter,
       Bytes

\* A byte becomes one character or two.
LEMMA EscapedByte ==
  \A b \in Bytes : Escaped(b) \in Seq(Bytes) /\ Escaped(b) # <<>>
BY Characters DEF Escaped

\* What bufferedWriteData sends for the first byte and for the others.
LEMMA EscapedFirst ==
  ASSUME NEW q \in Seq(Bytes), q # <<>>
  PROVE  EscapedAll(q) = Escaped(Head(q)) \o EscapedAll(Tail(q))
<1>1. PICK n \in Nat : /\ n = Len(q) /\ n >= 1 /\ DOMAIN q = 1 .. n
                       /\ Head(q) = q[1] /\ \A i \in 1 .. n : q[i] \in Bytes
  BY LenProperties, HeadTail, ElementOfSeq
<1>2. \A i \in 1 .. n : Escaped(q[i]) \in Seq(Bytes)
  BY <1>1, EscapedByte
<1>3. PICK seqs : /\ seqs = [i \in 1 .. n |-> Escaped(q[i])]
                  /\ \A i \in 1 .. n : seqs[i] = Escaped(q[i]) /\ seqs[i] \in Seq(Bytes)
  <2> DEFINE all == [i \in 1 .. n |-> Escaped(q[i])]
  <2>1. \A i \in 1 .. n : all[i] = Escaped(q[i]) /\ all[i] \in Seq(Bytes)
    BY <1>2
  <2> QED BY <2>1, Zenon
<1>4. seqs \in Seq(Seq(Bytes)) /\ Len(seqs) = n /\ seqs # <<>>
  <2>1. seqs \in [1 .. n -> Seq(Bytes)]
    BY <1>3
  <2>2. seqs \in Seq(Seq(Bytes)) /\ Len(seqs) = n
    BY <2>1
  <2> QED BY <1>1, <2>2
<1>5. FlattenSeq(seqs) = Head(seqs) \o FlattenSeq(Tail(seqs))
  BY <1>4, FlattenFirst
<1>6. EscapedAll(q) = FlattenSeq(seqs)
  BY <1>1, <1>3 DEF EscapedAll
<1> DEFINE Q == Seq(Bytes)
<1>7. seqs \in Seq(Q)
  BY <1>4
<1> HIDE DEF Q
<1>8. /\ Head(seqs) = seqs[1] /\ Tail(seqs) \in Seq(Q) /\ Len(Tail(seqs)) = n - 1
      /\ \A i \in 1 .. Len(Tail(seqs)) : Tail(seqs)[i] = seqs[i + 1]
  BY ONLY <1>4, <1>7, HeadTail
<1>9. Head(seqs) = Escaped(Head(q))
  BY <1>1, <1>3, <1>8
<1>10. PICK t \in Seq(Bytes) : /\ t = Tail(q) /\ Len(t) = n - 1 /\ DOMAIN t = 1 .. (n - 1)
                               /\ \A i \in 1 .. (n - 1) : t[i] = q[i + 1]
  <2>1. Tail(q) \in Seq(Bytes) /\ Len(Tail(q)) = n - 1 /\ \A i \in 1 .. Len(Tail(q)) : Tail(q)[i] = q[i + 1]
    BY <1>1, HeadTail
  <2>2. DOMAIN Tail(q) = 1 .. (n - 1)
    BY <2>1, LenProperties
  <2> QED BY <2>1, <2>2
<1>11. Tail(seqs) = [i \in DOMAIN t |-> Escaped(t[i])]
  <2>1. Tail(seqs) \in [1 .. (n - 1) -> Q]
    BY <1>8, LenProperties
  <2>2. \A i \in 1 .. (n - 1) : Tail(seqs)[i] = Escaped(t[i])
    <3>1. ASSUME NEW i \in 1 .. (n - 1) PROVE Tail(seqs)[i] = Escaped(t[i])
      <4>1. i + 1 \in 1 .. n /\ i \in 1 .. Len(Tail(seqs))
        BY <1>8
      <4> QED BY <1>3, <1>8, <1>10, <4>1
    <3> QED BY <3>1
  <2> QED BY <1>10, <2>1, <2>2
<1>12. EscapedAll(t) = FlattenSeq(Tail(seqs))
  BY <1>11 DEF EscapedAll
<1> QED BY <1>5, <1>6, <1>9, <1>10, <1>12

\* Escaped packets consist of bytes, and of none when the packet has none.
LEMMA EscapedTyped ==
  /\ EscapedAll(<<>>) = <<>>
  /\ \A q \in Seq(Bytes) : EscapedAll(q) \in Seq(Bytes)
<1>1. EscapedAll(<<>>) = <<>>
  BY DEF EscapedAll, FlattenSeq
<1>2. ASSUME NEW q \in Seq(Bytes) PROVE EscapedAll(q) \in Seq(Bytes)
  <2> DEFINE T == {n \in Nat : \E r \in Seq(Bytes) : Len(r) = n /\ EscapedAll(r) \notin Seq(Bytes)}
  <2> SUFFICES ASSUME EscapedAll(q) \notin Seq(Bytes) PROVE FALSE
    OBVIOUS
  <2>1. T # {}
    <3>1. Len(q) \in Nat
      BY LenProperties
    <3> QED BY <3>1
  <2>2. PICK n \in T : \A k \in Nat : k < n => k \notin T
    <3>1. T \in SUBSET Nat
      OBVIOUS
    <3> HIDE DEF T
    <3> QED BY <2>1, <3>1, LeastNumber, Zenon
  <2>3. PICK r \in Seq(Bytes) : Len(r) = n /\ EscapedAll(r) \notin Seq(Bytes)
    BY <2>2
  <2>4. r # <<>>
    BY <1>1, <2>3
  <2>5. /\ Tail(r) \in Seq(Bytes) /\ Len(Tail(r)) \in Nat /\ Len(Tail(r)) < n
        /\ Head(r) \in Bytes
    BY <2>3, <2>4, HeadTail
  <2>6. EscapedAll(Tail(r)) \in Seq(Bytes)
    <3>1. Len(Tail(r)) \notin T
      <4> HIDE DEF T
      <4> QED BY <2>2, <2>5
    <3> QED BY <2>5, <3>1
  <2>7. EscapedAll(r) = Escaped(Head(r)) \o EscapedAll(Tail(r))
    BY <2>4, EscapedFirst
  <2>8. Escaped(Head(r)) \in Seq(Bytes)
    BY <2>5, EscapedByte
  <2> QED BY <2>3, <2>6, <2>7, <2>8, ConcatProperties
<1> QED BY <1>1, <1>2

\* One character in the hardware's receiver: either control character ends a
\* packet, an escape character is remembered, any other is data.
LEMMA ReceiverStep ==
  ASSUME NEW s \in Switches, NEW ch \in Bytes, NEW r, r = rx_proc(s, ch)
  PROVE  /\ r \in Switches
         /\ ch \in {CHAR_SEL_APP, CHAR_SEL_DEBUG} =>
              /\ r.stream = IF ch = CHAR_SEL_APP THEN "user" ELSE "debug"
              /\ ~r.escaping /\ r.user = s.user
              /\ r.partial = IF s.stream = "debug" THEN <<>> ELSE s.partial
              /\ r.packets = IF s.stream = "debug" THEN Append(s.packets, s.partial) ELSE s.packets
         /\ ch = CHAR_ESCAPE =>
              /\ r.escaping /\ r.stream = s.stream /\ r.user = s.user
              /\ r.partial = s.partial /\ r.packets = s.packets
         /\ ~NeedsEscape(ch) =>
              LET b == IF s.escaping THEN Complement(ch) ELSE ch
              IN /\ ~r.escaping /\ r.stream = s.stream /\ r.packets = s.packets
                 /\ r.user = IF s.stream = "debug" THEN s.user ELSE Append(s.user, b)
                 /\ r.partial = IF s.stream = "debug" THEN Append(s.partial, b) ELSE s.partial
<1>1. /\ s.stream \in {"user", "debug"} /\ s.partial \in Seq(Bytes) /\ s.user \in Seq(Bytes)
      /\ s.packets \in Seq(Seq(Bytes))
      /\ s = [stream |-> s.stream, escaping |-> s.escaping, partial |-> s.partial,
              user |-> s.user, packets |-> s.packets]
  BY DEF Switches
<1>2. Append(s.packets, s.partial) \in Seq(Seq(Bytes)) /\ <<>> \in Seq(Bytes)
  BY <1>1
<1>3. CASE ch = CHAR_SEL_APP
  <2>1. r = [[EndPacket(s) EXCEPT !.stream = "user"] EXCEPT !.escaping = FALSE]
    BY <1>3, Characters DEF rx_proc
  <2> QED BY <1>1, <1>2, <1>3, <2>1, Characters DEF EndPacket, Switches, NeedsEscape
<1>4. CASE ch = CHAR_SEL_DEBUG
  <2>1. r = [[EndPacket(s) EXCEPT !.stream = "debug"] EXCEPT !.escaping = FALSE]
    BY <1>4, Characters DEF rx_proc
  <2> QED BY <1>1, <1>2, <1>4, <2>1, Characters DEF EndPacket, Switches, NeedsEscape
<1>5. CASE ch = CHAR_ESCAPE
  <2>1. r = [s EXCEPT !.escaping = TRUE]
    BY <1>5, Characters DEF rx_proc
  <2> QED BY <1>1, <1>5, <2>1, Characters DEF Switches, NeedsEscape
<1>6. CASE ~NeedsEscape(ch)
  <2>1. PICK b \in Bytes : b = IF s.escaping THEN Complement(ch) ELSE ch
    BY Characters
  <2>2. r = [SwitchData(s, b) EXCEPT !.escaping = FALSE]
    BY <1>6, <2>1, Characters DEF rx_proc, NeedsEscape
  <2>3. Append(s.partial, b) \in Seq(Bytes) /\ Append(s.user, b) \in Seq(Bytes)
    BY <1>1, <2>1
  <2> QED BY <1>1, <1>6, <2>1, <2>2, <2>3 DEF SwitchData, Switches, NeedsEscape
<1> QED BY <1>3, <1>4, <1>5, <1>6 DEF NeedsEscape

-----------------------------------------------------------------------------
(* Bytes and delimiters.                                                    *)

\* Where the delimiters lie.
Cuts(d, ps, cut) ==
  /\ cut \in [0 .. Len(ps) -> 0 .. Len(d)]
  /\ cut[0] = 0 /\ cut[Len(ps)] = Len(d)
  /\ \A i, j \in 0 .. Len(ps) : i <= j => cut[i] <= cut[j]
  /\ \A i \in 1 .. Len(ps) :
       /\ cut[i] = cut[i - 1] + Len(ps[i]) + 1
       /\ IsDelimiter(d[cut[i]])
       /\ \A j \in 1 .. Len(ps[i]) : d[cut[i - 1] + j] = ps[i][j]

LEMMA HoldsCuts ==
  ASSUME NEW d, NEW ps
  PROVE  Holds(d, ps) <=> \E cut : Cuts(d, ps, cut)
BY DEF Holds, Cuts

\* Bytes without a delimiter hold no packet.
LEMMA HoldsNothing ==
  ASSUME NEW d \in Seq(Bytes), NEW P, NEW ps \in Seq(P), P = Seq(Bytes), Holds(d, ps)
  PROVE  ps = <<>> /\ d = <<>>
<1>1. PICK cut : Cuts(d, ps, cut)
  BY HoldsCuts
<1>2. PICK n \in Nat, m \in Nat : n = Len(ps) /\ m = Len(d) /\ \A i \in 1 .. m : d[i] \in Bytes
  BY LenProperties, ElementOfSeq
<1>3. n = 0
  <2> SUFFICES ASSUME n # 0 PROVE FALSE
    OBVIOUS
  <2>1. 1 \in 1 .. n /\ 0 \in 0 .. n /\ 1 \in 0 .. n
    OBVIOUS
  <2>2. ps[1] \in P /\ Len(ps[1]) \in Nat
    BY <1>2, <2>1, ElementOfSeq, LenProperties
  <2>3. cut[1] \in 0 .. m /\ cut[1] = Len(ps[1]) + 1 /\ IsDelimiter(d[cut[1]])
    BY <1>1, <1>2, <2>1, <2>2 DEF Cuts
  <2>4. cut[1] \in 1 .. m
    BY <2>2, <2>3
  <2> QED BY <1>2, <2>3, <2>4, Characters
<1>4. m = 0
  BY <1>1, <1>2, <1>3 DEF Cuts
<1>5. ps = <<>>
  BY <1>2, <1>3, EmptySeq
<1>6. d = <<>>
  BY <1>2, <1>4, EmptySeq
<1> QED BY <1>5, <1>6

\* A packet and a delimiter more.
LEMMA HoldsMore ==
  ASSUME NEW d \in Seq(Nat), NEW P, P = Seq(Bytes), NEW ps \in Seq(P), NEW p \in P,
         NEW x \in Nat, IsDelimiter(x), Holds(d, ps)
  PROVE  Holds(d \o (p \o <<x>>), Append(ps, p))
<1>1. PICK cut : Cuts(d, ps, cut)
  BY HoldsCuts
<1>2. PICK n \in Nat, m \in Nat, k \in Nat : n = Len(ps) /\ m = Len(d) /\ k = Len(p)
  BY LenProperties
<1>3. p \in Seq(Nat)
  BY Characters, SeqMonotonic DEF Bytes
<1>4. PICK e : /\ e = d \o (p \o <<x>>) /\ Len(e) = m + k + 1 /\ e[m + k + 1] = x
               /\ \A i \in 1 .. m : e[i] = d[i]
               /\ \A i \in 1 .. k : e[m + i] = p[i]
  <2>1. PICK t \in Seq(Nat) : /\ t = p \o <<x>> /\ Len(t) = k + 1 /\ t[k + 1] = x
                              /\ \A i \in 1 .. k : t[i] = p[i]
    <3>1. /\ Append(p, x) \in Seq(Nat) /\ Len(Append(p, x)) = k + 1 /\ Append(p, x)[k + 1] = x
          /\ \A i \in 1 .. k : Append(p, x)[i] = p[i]
      BY <1>2, <1>3, AppendProperties
    <3>2. Append(p, x) = p \o <<x>>
      BY <1>3, AppendIsConcat
    <3> QED BY <3>1, <3>2
  <2>2. /\ Len(d \o t) = m + (k + 1)
        /\ \A i \in 1 .. (m + (k + 1)) : (d \o t)[i] = IF i <= m THEN d[i] ELSE t[i - m]
    BY <1>2, <2>1, ConcatProperties
  <2>3. \A i \in 1 .. m : (d \o t)[i] = d[i]
    BY <2>2
  <2>4. \A i \in 1 .. (k + 1) : (d \o t)[m + i] = t[i]
    <3>1. ASSUME NEW i \in 1 .. (k + 1) PROVE (d \o t)[m + i] = t[i]
      <4>1. m + i \in 1 .. (m + (k + 1)) /\ ~(m + i <= m) /\ (m + i) - m = i
        OBVIOUS
      <4> QED BY <2>2, <4>1
    <3> QED BY <3>1
  <2>5. (d \o t)[m + k + 1] = x
    <3>1. k + 1 \in 1 .. (k + 1) /\ m + (k + 1) = m + k + 1
      OBVIOUS
    <3>2. (d \o t)[m + (k + 1)] = t[k + 1]
      BY <2>4, <3>1
    <3> QED BY <2>1, <3>1, <3>2
  <2>6. \A i \in 1 .. k : (d \o t)[m + i] = p[i]
    <3>1. \A i \in 1 .. k : i \in 1 .. (k + 1)
      OBVIOUS
    <3> QED BY <2>1, <2>4, <3>1
  <2>7. Len(d \o t) = m + k + 1
    BY <2>2
  <2> QED BY <2>1, <2>3, <2>5, <2>6, <2>7
<1>5. PICK more : /\ more = Append(ps, p) /\ Len(more) = n + 1 /\ more[n + 1] = p
                  /\ \A i \in 1 .. n : more[i] = ps[i]
  <2>1. /\ Len(Append(ps, p)) = Len(ps) + 1 /\ Append(ps, p)[Len(ps) + 1] = p
        /\ \A i \in 1 .. Len(ps) : Append(ps, p)[i] = ps[i]
    BY AppendProperties
  <2> QED BY <1>2, <2>1
<1> DEFINE far == [i \in 0 .. (n + 1) |-> IF i = n + 1 THEN m + k + 1 ELSE cut[i]]
<1>6. /\ cut \in [0 .. n -> 0 .. m] /\ cut[0] = 0 /\ cut[n] = m
      /\ \A i, j \in 0 .. n : i <= j => cut[i] <= cut[j]
      /\ \A i \in 1 .. n : /\ cut[i] = cut[i - 1] + Len(ps[i]) + 1
                           /\ IsDelimiter(d[cut[i]])
                           /\ \A j \in 1 .. Len(ps[i]) : d[cut[i - 1] + j] = ps[i][j]
  BY <1>1, <1>2 DEF Cuts
<1>7. \A i \in 0 .. n : far[i] = cut[i] /\ cut[i] \in 0 .. m
  BY <1>6
<1>8. far[n + 1] = m + k + 1
  OBVIOUS
<1>9. far \in [0 .. (n + 1) -> 0 .. (m + k + 1)]
  <2>1. ASSUME NEW i \in 0 .. (n + 1) PROVE far[i] \in 0 .. (m + k + 1)
    <3>1. CASE i = n + 1
      BY <3>1
    <3>2. CASE i # n + 1
      <4>1. i \in 0 .. n
        BY <3>2
      <4>2. far[i] \in 0 .. m
        BY <1>7, <4>1
      <4> HIDE DEF far
      <4> QED BY <4>2
    <3> QED BY <3>1, <3>2
  <2> QED BY <2>1
<1>10. \A i, j \in 0 .. (n + 1) : i <= j => far[i] <= far[j]
  <2>1. ASSUME NEW i \in 0 .. (n + 1), NEW j \in 0 .. (n + 1), i <= j PROVE far[i] <= far[j]
    <3>1. CASE j = n + 1
      BY <1>9, <3>1
    <3>2. CASE j # n + 1
      <4>1. i \in 0 .. n /\ j \in 0 .. n
        BY <2>1, <3>2
      <4> QED BY <1>6, <1>7, <2>1, <4>1
    <3> QED BY <3>1, <3>2
  <2> QED BY <2>1
<1>11. ASSUME NEW i \in 1 .. (n + 1)
       PROVE  /\ far[i] = far[i - 1] + Len(more[i]) + 1
              /\ IsDelimiter(e[far[i]])
              /\ \A j \in 1 .. Len(more[i]) : e[far[i - 1] + j] = more[i][j]
  <2>1. CASE i = n + 1
    <3>1. i - 1 = n /\ n \in 0 .. n
      BY <2>1
    <3>2. far[i - 1] = m /\ far[i] = m + k + 1 /\ more[i] = p
      BY <1>5, <1>6, <1>7, <2>1, <3>1
    <3> HIDE DEF far
    <3> QED BY <1>2, <1>4, <3>2
  <2>2. CASE i # n + 1
    <3>1. i \in 1 .. n /\ i \in 0 .. n /\ i - 1 \in 0 .. n
      BY <2>2
    <3>2. PICK q \in Seq(Bytes) : q = ps[i] /\ more[i] = q /\ Len(q) \in Nat
      BY <1>2, <1>5, <3>1, ElementOfSeq, LenProperties
    <3>3. /\ cut[i] = cut[i - 1] + Len(q) + 1 /\ IsDelimiter(d[cut[i]])
          /\ \A j \in 1 .. Len(q) : d[cut[i - 1] + j] = q[j]
      BY <1>6, <3>1, <3>2
    <3>4. far[i] = cut[i] /\ far[i - 1] = cut[i - 1] /\ cut[i] \in 0 .. m /\ cut[i - 1] \in 0 .. m
      BY <1>7, <3>1
    <3> HIDE DEF far
    <3>5. cut[i] \in 1 .. m /\ \A j \in 1 .. Len(q) : cut[i - 1] + j \in 1 .. m
      <4>1. PICK a \in 0 .. m, b \in 0 .. m, l \in Nat : a = cut[i - 1] /\ b = cut[i] /\ l = Len(q)
        BY <3>2, <3>4
      <4>2. b = a + l + 1
        BY <3>3, <4>1
      <4>3. b \in 1 .. m /\ \A j \in 1 .. l : a + j \in 1 .. m
        BY ONLY <4>2, m \in Nat, a \in 0 .. m, b \in 0 .. m, l \in Nat
      <4> QED BY <4>1, <4>3
    <3> QED BY <1>4, <3>2, <3>3, <3>4, <3>5
  <2> QED BY <2>1, <2>2
<1> HIDE DEF far
<1>12. far[0] = 0
  BY <1>6, <1>7
<1>13. Cuts(e, more, far)
  BY <1>4, <1>5, <1>8, <1>9, <1>10, <1>11, <1>12 DEF Cuts
<1> QED BY <1>4, <1>5, <1>13, HoldsCuts

\* Bytes up to a delimiter are the first packet.
LEMMA HoldsFirst ==
  ASSUME NEW P, P = Seq(Bytes), NEW ps \in Seq(P), NEW q \in P, NEW x \in Nat, IsDelimiter(x),
         NEW rest \in Seq(Nat), Holds(q \o (<<x>> \o rest), ps)
  PROVE  ps # <<>> /\ Head(ps) = q /\ Tail(ps) \in Seq(P) /\ Holds(rest, Tail(ps))
<1>1. PICK n \in Nat, k \in Nat, m \in Nat : n = Len(ps) /\ k = Len(q) /\ m = Len(rest)
  BY LenProperties
<1>2. q \in Seq(Nat) /\ \A i \in 1 .. k : q[i] \in Bytes
  BY <1>1, Characters, SeqMonotonic, ElementOfSeq DEF Bytes
<1>3. PICK d : /\ d = q \o (<<x>> \o rest) /\ Len(d) = k + (m + 1) /\ d[k + 1] = x
               /\ \A i \in 1 .. k : d[i] = q[i]
               /\ \A i \in 1 .. m : d[k + 1 + i] = rest[i]
  <2>1. <<x>> \in Seq(Nat) /\ Len(<<x>>) = 1 /\ <<x>>[1] = x
    OBVIOUS
  <2>2. PICK t \in Seq(Nat) : /\ t = <<x>> \o rest /\ Len(t) = m + 1
                              /\ \A i \in 1 .. (m + 1) : t[i] = IF i <= 1 THEN <<x>>[i] ELSE rest[i - 1]
    <3>1. /\ <<x>> \o rest \in Seq(Nat) /\ Len(<<x>> \o rest) = Len(<<x>>) + Len(rest)
          /\ \A i \in 1 .. Len(<<x>>) + Len(rest) :
               (<<x>> \o rest)[i] = IF i <= Len(<<x>>) THEN <<x>>[i] ELSE rest[i - Len(<<x>>)]
      BY <2>1, ConcatProperties
    <3>2. 1 + m = m + 1
      OBVIOUS
    <3> QED BY <1>1, <2>1, <3>1, <3>2
  <2>3. t[1] = x /\ \A i \in 1 .. m : t[1 + i] = rest[i]
    <3>1. 1 \in 1 .. (m + 1)
      OBVIOUS
    <3>2. ASSUME NEW i \in 1 .. m PROVE t[1 + i] = rest[i]
      <4>1. 1 + i \in 1 .. (m + 1) /\ ~(1 + i <= 1) /\ (1 + i) - 1 = i
        OBVIOUS
      <4> QED BY <2>2, <4>1
    <3> QED BY <2>1, <2>2, <3>1, <3>2
  <2>4. /\ Len(q \o t) = k + (m + 1)
        /\ \A i \in 1 .. (k + (m + 1)) : (q \o t)[i] = IF i <= k THEN q[i] ELSE t[i - k]
    BY <1>1, <1>2, <2>2, ConcatProperties
  <2>5. \A i \in 1 .. k : (q \o t)[i] = q[i]
    BY <2>4
  <2>6. (q \o t)[k + 1] = t[1]
    <3>1. k + 1 \in 1 .. (k + (m + 1)) /\ ~(k + 1 <= k) /\ (k + 1) - k = 1
      OBVIOUS
    <3> QED BY <2>4, <3>1
  <2>7. ASSUME NEW i \in 1 .. m PROVE (q \o t)[k + 1 + i] = rest[i]
    <3>1. /\ k + 1 + i \in 1 .. (k + (m + 1)) /\ ~(k + 1 + i <= k)
          /\ (k + 1 + i) - k = 1 + i
      OBVIOUS
    <3> QED BY <2>3, <2>4, <3>1
  <2>8. \A i \in 1 .. m : (q \o t)[k + 1 + i] = rest[i]
    BY <2>7
  <2>9. Len(q \o t) = k + (m + 1) /\ (q \o t)[k + 1] = x
    BY <2>3, <2>4, <2>6
  <2> QED BY <2>2, <2>5, <2>8, <2>9
<1>4. PICK cut : Cuts(d, ps, cut)
  BY <1>3, HoldsCuts
<1>5. /\ cut \in [0 .. n -> 0 .. (k + (m + 1))] /\ cut[0] = 0 /\ cut[n] = k + (m + 1)
      /\ \A i, j \in 0 .. n : i <= j => cut[i] <= cut[j]
      /\ \A i \in 1 .. n : /\ cut[i] = cut[i - 1] + Len(ps[i]) + 1
                           /\ IsDelimiter(d[cut[i]])
                           /\ \A j \in 1 .. Len(ps[i]) : d[cut[i - 1] + j] = ps[i][j]
  BY <1>1, <1>3, <1>4 DEF Cuts
<1>6. n >= 1 /\ 1 \in 1 .. n /\ 0 \in 0 .. n /\ 1 \in 0 .. n
  <2>1. n # 0
    BY <1>5
  <2> QED BY <2>1
<1>7. PICK p \in P, l \in Nat : p = ps[1] /\ l = Len(p) /\ \A i \in 1 .. l : p[i] \in Bytes
  <2>1. ps[1] \in P
    BY <1>1, <1>6, ElementOfSeq
  <2>2. ps[1] \in Seq(Bytes)
    BY <2>1
  <2>3. Len(ps[1]) \in Nat /\ \A i \in 1 .. Len(ps[1]) : ps[1][i] \in Bytes
    BY <2>2, LenProperties, ElementOfSeq
  <2> QED BY <2>1, <2>3
<1>8. cut[1] = l + 1 /\ IsDelimiter(d[l + 1]) /\ \A j \in 1 .. l : d[j] = p[j]
  <2>1. /\ cut[1] = cut[0] + l + 1 /\ IsDelimiter(d[cut[1]])
        /\ \A j \in 1 .. l : d[cut[0] + j] = p[j]
    <3>1. 1 - 1 = 0
      OBVIOUS
    <3> QED BY <1>5, <1>6, <1>7, <3>1
  <2>2. cut[0] = 0 /\ 0 + l + 1 = l + 1 /\ \A j \in 1 .. l : 0 + j = j
    BY <1>5
  <2> QED BY <2>1, <2>2
<1>9. l = k
  <2>1. CASE l < k
    <3>1. l + 1 \in 1 .. k
      BY <2>1
    <3> QED BY <1>2, <1>3, <1>8, <3>1, Characters
  <2>2. CASE k < l
    <3>1. k + 1 \in 1 .. l
      BY <2>2
    <3>2. d[k + 1] = p[k + 1] /\ p[k + 1] \in Bytes
      BY <1>7, <1>8, <3>1
    <3> QED BY <1>3, <3>2, Characters
  <2> QED BY <2>1, <2>2
<1>10. p = q
  <2>1. p \in Seq(Bytes) /\ q \in Seq(Bytes) /\ Len(p) = Len(q)
    BY <1>1, <1>7, <1>9
  <2>2. \A i \in 1 .. Len(p) : p[i] = q[i]
    BY <1>1, <1>3, <1>7, <1>8, <1>9
  <2> QED BY ONLY <2>1, <2>2, SeqEqual
<1>11. ps # <<>> /\ Head(ps) = q
  <2>1. ps # <<>>
    BY <1>1, <1>6
  <2> QED BY <1>7, <1>10, <2>1, HeadTail
<1>12. PICK more \in Seq(P) : /\ more = Tail(ps) /\ Len(more) = n - 1
                              /\ \A i \in 1 .. (n - 1) : more[i] = ps[i + 1]
  <2>1. /\ Tail(ps) \in Seq(P) /\ Len(Tail(ps)) = n - 1
        /\ \A i \in 1 .. Len(Tail(ps)) : Tail(ps)[i] = ps[i + 1]
    BY <1>1, <1>11, HeadTail
  <2> QED BY <2>1
<1> DEFINE near == [i \in 0 .. (n - 1) |-> cut[i + 1] - (k + 1)]
<1>13. ASSUME NEW i \in 0 .. (n - 1)
       PROVE  /\ near[i] = cut[i + 1] - (k + 1) /\ cut[i + 1] = near[i] + (k + 1)
              /\ near[i] \in 0 .. m /\ i + 1 \in 0 .. n
  <2>1. i + 1 \in 0 .. n /\ 1 <= i + 1
    BY <1>6
  <2>2. cut[i + 1] \in 0 .. (k + (m + 1)) /\ cut[1] <= cut[i + 1] /\ cut[1] = k + 1
    BY <1>5, <1>6, <1>8, <1>9, <2>1
  <2>3. near[i] = cut[i + 1] - (k + 1)
    OBVIOUS
  <2> HIDE DEF near
  <2>4. PICK c \in Nat : c = cut[i + 1] /\ k + 1 <= c /\ c <= k + (m + 1)
    BY <2>2
  <2>5. c - (k + 1) \in 0 .. m /\ (c - (k + 1)) + (k + 1) = c
    BY <2>4
  <2> QED BY <2>1, <2>3, <2>4, <2>5
<1>14. near \in [0 .. (n - 1) -> 0 .. m]
  BY <1>13
<1> HIDE DEF near
<1>15. near[0] = 0 /\ near[n - 1] = m
  <2>1. 0 \in 0 .. (n - 1) /\ n - 1 \in 0 .. (n - 1) /\ 0 + 1 = 1 /\ (n - 1) + 1 = n
    BY <1>6
  <2>2. near[0] = cut[1] - (k + 1) /\ near[n - 1] = cut[n] - (k + 1)
    BY <1>13, <2>1
  <2>3. cut[1] = k + 1 /\ cut[n] = k + (m + 1)
    BY <1>5, <1>8, <1>9
  <2> QED BY <2>2, <2>3
<1>16. \A i, j \in 0 .. (n - 1) : i <= j => near[i] <= near[j]
  <2>1. ASSUME NEW i \in 0 .. (n - 1), NEW j \in 0 .. (n - 1), i <= j PROVE near[i] <= near[j]
    <3>1. cut[i + 1] <= cut[j + 1]
      <4>1. i + 1 \in 0 .. n /\ j + 1 \in 0 .. n /\ i + 1 <= j + 1
        BY <1>13, <2>1
      <4> QED BY <1>5, <4>1
    <3>2. PICK a \in Nat, b \in Nat : /\ a = near[i] /\ b = near[j]
                                      /\ cut[i + 1] = a + (k + 1) /\ cut[j + 1] = b + (k + 1)
      <4>1. near[i] \in Nat /\ near[j] \in Nat
        BY <1>14
      <4> QED BY <1>13, <4>1
    <3> QED BY <3>1, <3>2
  <2> QED BY <2>1
<1>17. ASSUME NEW i \in 1 .. (n - 1)
       PROVE  /\ near[i] = near[i - 1] + Len(more[i]) + 1
              /\ IsDelimiter(rest[near[i]])
              /\ \A j \in 1 .. Len(more[i]) : rest[near[i - 1] + j] = more[i][j]
  <2>1. /\ i \in 0 .. (n - 1) /\ i - 1 \in 0 .. (n - 1) /\ i + 1 \in 1 .. n
        /\ (i - 1) + 1 = i /\ (i + 1) - 1 = i
    BY <1>6
  <2>2. PICK r \in P, h \in Nat : r = more[i] /\ h = Len(r) /\ ps[i + 1] = r
    <3>1. more[i] = ps[i + 1] /\ ps[i + 1] \in P
      BY <1>1, <1>12, <2>1, ElementOfSeq
    <3>2. ps[i + 1] \in Seq(Bytes)
      BY <3>1
    <3>3. Len(ps[i + 1]) \in Nat
      BY <3>2, LenProperties
    <3> QED BY <3>1, <3>3
  <2>3. PICK a \in 0 .. m, b \in 0 .. m :
          /\ a = near[i - 1] /\ b = near[i]
          /\ cut[i] = a + (k + 1) /\ cut[i + 1] = b + (k + 1)
    BY <1>13, <2>1
  <2>4. /\ b + (k + 1) = a + (k + 1) + h + 1 /\ IsDelimiter(d[b + (k + 1)])
        /\ \A j \in 1 .. h : d[a + (k + 1) + j] = r[j]
    <3>1. /\ cut[i + 1] = cut[(i + 1) - 1] + Len(ps[i + 1]) + 1
          /\ IsDelimiter(d[cut[i + 1]])
          /\ \A j \in 1 .. Len(ps[i + 1]) : d[cut[(i + 1) - 1] + j] = ps[i + 1][j]
      BY <1>5, <2>1
    <3>2. cut[(i + 1) - 1] = a + (k + 1) /\ cut[i + 1] = b + (k + 1) /\ ps[i + 1] = r /\ Len(r) = h
      BY <2>1, <2>2, <2>3
    <3>3. b + (k + 1) = a + (k + 1) + h + 1
      BY ONLY <3>1, <3>2
    <3>4. IsDelimiter(d[b + (k + 1)])
      BY ONLY <3>1, <3>2
    <3>5. \A j \in 1 .. h : d[a + (k + 1) + j] = r[j]
      BY ONLY <3>1, <3>2
    <3> QED BY ONLY <3>3, <3>4, <3>5
  <2>5. b = a + h + 1 /\ b \in 1 .. m /\ \A j \in 1 .. h : a + j \in 1 .. m
    <3>1. b + (k + 1) = a + (k + 1) + h + 1
      BY <2>4
    <3>2. b = a + h + 1
      BY ONLY <3>1, k \in Nat, m \in Nat, h \in Nat, a \in 0 .. m, b \in 0 .. m
    <3>3. b \in 1 .. m /\ \A j \in 1 .. h : a + j \in 1 .. m
      BY ONLY <3>2, m \in Nat, h \in Nat, a \in 0 .. m, b \in 0 .. m
    <3> QED BY <3>2, <3>3
  <2>6. \A j \in 1 .. m : d[j + (k + 1)] = rest[j]
    <3>1. \A j \in 1 .. m : j + (k + 1) = k + 1 + j
      OBVIOUS
    <3> QED BY <1>3, <3>1
  <2>7. \A j \in 1 .. h : a + (k + 1) + j = (a + j) + (k + 1)
    OBVIOUS
  <2>8. IsDelimiter(rest[b]) /\ \A j \in 1 .. h : rest[a + j] = r[j]
    BY <2>4, <2>5, <2>6, <2>7
  <2> QED BY <2>2, <2>3, <2>5, <2>8
<1>18. Cuts(rest, more, near)
  BY <1>1, <1>12, <1>14, <1>15, <1>16, <1>17 DEF Cuts
<1> QED BY <1>11, <1>12, <1>18, HoldsCuts

-----------------------------------------------------------------------------
(* The hardware takes a character.                                          *)

\* The first element and the others.
LEMMA FirstOf ==
  ASSUME NEW S, NEW c \in S, NEW t \in Seq(S)
  PROVE  /\ <<c>> \o t \in Seq(S) /\ <<c>> \o t # <<>>
         /\ Head(<<c>> \o t) = c /\ Tail(<<c>> \o t) = t
<1>1. <<c>> \in Seq(S) /\ Len(<<c>>) = 1 /\ <<c>>[1] = c
  OBVIOUS
<1>2. PICK n \in Nat : n = Len(t)
  BY LenProperties
<1>3. PICK d \in Seq(S) : /\ d = <<c>> \o t /\ Len(d) = 1 + n
                          /\ \A i \in 1 .. (1 + n) : d[i] = IF i <= 1 THEN <<c>>[i] ELSE t[i - 1]
  <2>1. /\ <<c>> \o t \in Seq(S) /\ Len(<<c>> \o t) = Len(<<c>>) + Len(t)
        /\ \A i \in 1 .. Len(<<c>>) + Len(t) :
             (<<c>> \o t)[i] = IF i <= Len(<<c>>) THEN <<c>>[i] ELSE t[i - Len(<<c>>)]
    BY <1>1, ConcatProperties
  <2> QED BY <1>1, <1>2, <2>1
<1>4. d # <<>> /\ d[1] = c
  BY <1>1, <1>2, <1>3
<1>5. /\ Head(d) = c /\ Tail(d) \in Seq(S) /\ Len(Tail(d)) = n
      /\ \A i \in 1 .. n : Tail(d)[i] = d[i + 1]
  <2>1. /\ Head(d) = d[1] /\ Tail(d) \in Seq(S) /\ Len(Tail(d)) = Len(d) - 1
        /\ \A i \in 1 .. Len(Tail(d)) : Tail(d)[i] = d[i + 1]
    BY <1>4, HeadTail
  <2>2. Len(Tail(d)) = n
    BY <1>3, <2>1
  <2> QED BY <1>4, <2>1, <2>2
<1>6. \A i \in 1 .. n : Tail(d)[i] = t[i]
  <2>1. ASSUME NEW i \in 1 .. n PROVE Tail(d)[i] = t[i]
    <3>1. i + 1 \in 1 .. (1 + n) /\ ~(i + 1 <= 1) /\ (i + 1) - 1 = i
      OBVIOUS
    <3> QED BY <1>3, <1>5, <3>1
  <2> QED BY <2>1
<1>7. Tail(d) = t
  BY <1>2, <1>5, <1>6, SeqEqual
<1> QED BY <1>3, <1>4, <1>5, <1>7

\* The characters of a packet from its first byte on.
LEMMA EscapedRest ==
  ASSUME NEW r \in Seq(Bytes), r # <<>>, NEW e \in Seq(Bytes)
  PROVE  /\ Head(r) \in Bytes /\ Tail(r) \in Seq(Bytes)
         /\ EscapedAll(Tail(r)) \o e \in Seq(Bytes)
         /\ EscapedAll(r) \o e =
              IF NeedsEscape(Head(r))
              THEN <<CHAR_ESCAPE>> \o (<<Complement(Head(r))>> \o (EscapedAll(Tail(r)) \o e))
              ELSE <<Head(r)>> \o (EscapedAll(Tail(r)) \o e)
<1>1. PICK h \in Bytes, t \in Seq(Bytes) : h = Head(r) /\ t = Tail(r)
  BY HeadTail
<1>2. PICK m \in Seq(Bytes) : m = EscapedAll(t)
  BY EscapedTyped
<1>3. m \o e \in Seq(Bytes)
  BY ConcatProperties
<1>4. EscapedAll(r) = Escaped(h) \o m
  BY <1>1, <1>2, EscapedFirst
<1>5. EscapedAll(r) \o e = Escaped(h) \o (m \o e)
  <2>1. Escaped(h) \in Seq(Bytes)
    BY EscapedByte
  <2> QED BY <1>4, <2>1, ConcatAssociative
<1>6. CASE NeedsEscape(h)
  <2>1. <<CHAR_ESCAPE>> \in Seq(Bytes) /\ <<Complement(h)>> \in Seq(Bytes)
    BY Characters
  <2>2. Escaped(h) = <<CHAR_ESCAPE>> \o <<Complement(h)>>
    BY <1>6 DEF Escaped
  <2>3. (<<CHAR_ESCAPE>> \o <<Complement(h)>>) \o (m \o e)
          = <<CHAR_ESCAPE>> \o (<<Complement(h)>> \o (m \o e))
    BY <1>3, <2>1, ConcatAssociative
  <2> QED BY <1>1, <1>2, <1>3, <1>5, <1>6, <2>2, <2>3
<1>7. CASE ~NeedsEscape(h)
  <2>1. Escaped(h) = <<h>>
    BY <1>7 DEF Escaped
  <2> QED BY <1>1, <1>2, <1>3, <1>5, <1>7, <2>1
<1> QED BY <1>6, <1>7

\* The character that ends a packet.
LEMMA EndingTyped ==
  /\ Ending = <<IF txStream = "debug" THEN CHAR_SEL_DEBUG ELSE CHAR_SEL_APP>>
  /\ Ending \in Seq(Bytes) /\ Ending # <<>>
BY Characters DEF Ending

\* Nothing is carried by an empty wire.
LEMMA NothingCarried ==
  ASSUME NEW a \in Seq(Bytes), NEW p \in Seq(Seq(Bytes)), Carries(a, p), wire = <<>>
  PROVE  NothingSent /\ a = <<>> /\ p = <<>>
<1>1. ~PadSent
  BY DEF PadSent
<1>2. ASSUME NEW b \in Bytes PROVE ~ByteSent(b)
  <2>1. <<CHAR_SEL_APP>> \o Escaped(b) # <<>> /\ Escaped(b) # <<>> /\ <<Complement(b)>> # <<>>
    <3>1. Escaped(b) \in Seq(Bytes) /\ Escaped(b) # <<>>
      BY EscapedByte
    <3>2. <<CHAR_SEL_APP>> \o Escaped(b) # <<>>
      BY <3>1, Characters, FirstOf
    <3> QED BY <3>1, <3>2
  <2> QED BY <2>1 DEF ByteSent
<1>3. ASSUME NEW q \in Seq(Bytes) PROVE ~PacketSent(q)
  <2>1. \A r \in Seq(Bytes) : EscapedAll(r) \o Ending \in Seq(Bytes) /\ EscapedAll(r) \o Ending # <<>>
    BY EscapedTyped, EndingTyped, ConcatProperties, ConcatEqualIffEmpty
  <2>2. <<CHAR_SEL_DEBUG>> \o (EscapedAll(q) \o Ending) # <<>>
    BY <2>1, Characters, FirstOf
  <2>3. ASSUME NEW r \in Seq(Bytes), r # <<>>
        PROVE  <<Complement(Head(r))>> \o (EscapedAll(Tail(r)) \o Ending) # <<>>
    <3>1. Head(r) \in Bytes /\ Tail(r) \in Seq(Bytes)
      BY <2>3, HeadTail
    <3>2. Complement(Head(r)) \in Bytes
      BY <3>1, Characters
    <3>3. EscapedAll(Tail(r)) \o Ending \in Seq(Bytes)
      BY <2>1, <3>1
    <3> QED BY <3>2, <3>3, FirstOf
  <2> QED BY <2>1, <2>2, <2>3 DEF PacketSent
<1> QED BY <1>1, <1>2, <1>3 DEF Carries

\* What has arrived and what is carried are not changed by an arrival.
Arrives(a, p, b, r) ==
  /\ Carries(b, r)'
  /\ sw'.user \o b = sw.user \o a
  /\ NonEmpty(sw'.packets) \o NonEmpty(r) = NonEmpty(sw.packets) \o NonEmpty(p)

\* Packets that are counted, and an empty one that is not.
LEMMA PacketCounted ==
  ASSUME NEW list \in Seq(Seq(Bytes)), NEW q \in Seq(Bytes)
  PROVE  /\ NonEmpty(list) \in Seq(Seq(Bytes)) /\ NonEmpty(<<>>) = <<>>
         /\ NonEmpty(<<q>>) \in Seq(Seq(Bytes))
         /\ NonEmpty(list) \o <<>> = NonEmpty(list)
         /\ NonEmpty(Append(list, q)) = NonEmpty(list) \o NonEmpty(<<q>>)
         /\ NonEmpty(Append(list, <<>>)) = NonEmpty(list)
<1> DEFINE P == Seq(Bytes)
<1>1. list \in Seq(P) /\ q \in P /\ <<>> \in P
  OBVIOUS
<1>2. OneIf(<<>>, Nat \ {0}) = <<>>
  BY DEF OneIf
<1> HIDE DEF P
<1>3. \A x \in P : OneIf(x, Nat \ {0}) \in Seq(P)
  BY DEF OneIf
<1>4. /\ NonEmpty(list) \in Seq(P)
      /\ \A x \in P : NonEmpty(Append(list, x)) = NonEmpty(list) \o OneIf(x, Nat \ {0})
  BY <1>1, OfLengthAppend DEF NonEmpty
<1>5. NonEmpty(<<>>) = <<>> /\ NonEmpty(<<q>>) = OneIf(q, Nat \ {0})
  BY <1>1, OfLengthOne DEF NonEmpty
<1>6. NonEmpty(list) \o <<>> = NonEmpty(list)
  BY <1>4, ConcatEmptySeq
<1>7. NonEmpty(<<q>>) \in Seq(P)
  BY <1>1, <1>3, <1>5
<1>8. NonEmpty(Append(list, <<>>)) = NonEmpty(list)
  BY <1>1, <1>2, <1>4, <1>6
<1>9. NonEmpty(Append(list, q)) = NonEmpty(list) \o NonEmpty(<<q>>)
  BY <1>1, <1>4, <1>5
<1> QED BY <1>4, <1>5, <1>6, <1>7, <1>8, <1>9 DEF P

\* Either control character outside a packet.
LEMMA SelectionArrives ==
  ASSUME sw \in Switches, sw' = rx_proc(sw, Head(wire)), sw.partial = <<>>,
         Head(wire) \in {CHAR_SEL_APP, CHAR_SEL_DEBUG}
  PROVE  /\ sw' \in Switches /\ sw'.user = sw.user /\ sw'.partial = <<>> /\ ~sw'.escaping
         /\ sw'.stream = IF Head(wire) = CHAR_SEL_APP THEN "user" ELSE "debug"
         /\ NonEmpty(sw'.packets) = NonEmpty(sw.packets)
<1>1. Head(wire) \in Bytes
  BY Characters
<1>2. /\ sw' \in Switches /\ sw'.user = sw.user /\ ~sw'.escaping
      /\ sw'.stream = IF Head(wire) = CHAR_SEL_APP THEN "user" ELSE "debug"
      /\ sw'.partial = IF sw.stream = "debug" THEN <<>> ELSE sw.partial
      /\ sw'.packets = IF sw.stream = "debug" THEN Append(sw.packets, sw.partial) ELSE sw.packets
  BY <1>1, ReceiverStep
<1>3. sw.packets \in Seq(Seq(Bytes)) /\ <<>> \in Seq(Bytes)
  BY DEF Switches
<1>4. NonEmpty(Append(sw.packets, <<>>)) = NonEmpty(sw.packets)
  BY <1>3, PacketCounted
<1> QED BY <1>2, <1>4

\* An application byte arrives, character by character.
LEMMA ByteArrives ==
  ASSUME StreamTypes, wire' = Tail(wire), sw' = rx_proc(sw, Head(wire)), UNCHANGED txStream,
         NEW c \in Bytes, ByteSent(c)
  PROVE  sw' \in Switches /\ (Arrives(<<c>>, <<>>, <<c>>, <<>>) \/ Arrives(<<c>>, <<>>, <<>>, <<>>))
<1>0. /\ sw \in Switches /\ sw.user \in Seq(Bytes) /\ sw.packets \in Seq(Seq(Bytes))
      /\ txStream = "user" /\ txStream' = "user" /\ sw.partial = <<>>
  BY DEF StreamTypes, Switches, ByteSent
<1>1. Escaped(c) \in Seq(Bytes) /\ Complement(c) \in Bytes
  BY EscapedByte, Characters
<1>2. CASE ~sw.escaping /\ wire = <<CHAR_SEL_APP>> \o Escaped(c)
  <2>1. Head(wire) = CHAR_SEL_APP /\ wire' = Escaped(c)
    BY <1>1, <1>2, Characters, FirstOf
  <2>2. /\ sw' \in Switches /\ sw'.user = sw.user /\ sw'.partial = <<>> /\ ~sw'.escaping
        /\ sw'.stream = "user" /\ NonEmpty(sw'.packets) = NonEmpty(sw.packets)
    BY <1>0, <2>1, SelectionArrives
  <2>3. ByteSent(c)'
    BY <1>0, <2>1, <2>2 DEF ByteSent
  <2>4. Carries(<<c>>, <<>>)'
    BY <2>3 DEF Carries
  <2> QED BY <2>2, <2>4 DEF Arrives
<1>3. CASE ~sw.escaping /\ sw.stream = "user" /\ wire = Escaped(c) /\ NeedsEscape(c)
  <2>1. Head(wire) = CHAR_ESCAPE /\ wire' = <<Complement(c)>>
    BY <1>3 DEF Escaped
  <2>2. /\ sw' \in Switches /\ sw'.user = sw.user /\ sw'.partial = <<>> /\ sw'.escaping
        /\ sw'.stream = "user" /\ sw'.packets = sw.packets
    <3>1. sw \in Switches /\ sw' = rx_proc(sw, CHAR_ESCAPE) /\ CHAR_ESCAPE \in Bytes
      BY <1>0, <2>1, Characters
    <3>2. /\ sw' \in Switches /\ sw'.escaping /\ sw'.stream = sw.stream /\ sw'.user = sw.user
          /\ sw'.partial = sw.partial /\ sw'.packets = sw.packets
      BY ONLY <3>1, ReceiverStep
    <3> QED BY <1>0, <1>3, <3>2
  <2>3. ByteSent(c)'
    BY <1>0, <1>3, <2>1, <2>2 DEF ByteSent, NeedsEscape
  <2>4. Carries(<<c>>, <<>>)'
    BY <2>3 DEF Carries
  <2> QED BY <2>2, <2>4 DEF Arrives
<1>4. CASE \/ ~sw.escaping /\ sw.stream = "user" /\ wire = Escaped(c) /\ ~NeedsEscape(c)
           \/ sw.escaping /\ sw.stream = "user" /\ NeedsEscape(c) /\ wire = <<Complement(c)>>
  <2>1. PICK ch \in Bytes : /\ wire = <<ch>> /\ ~NeedsEscape(ch)
                            /\ c = IF sw.escaping THEN Complement(ch) ELSE ch
    BY <1>1, <1>4, Characters DEF Escaped
  <2>2. Head(wire) = ch /\ wire' = <<>>
    BY <2>1
  <2>3. /\ sw' \in Switches /\ sw'.user = Append(sw.user, c) /\ sw'.partial = <<>> /\ ~sw'.escaping
        /\ sw'.stream = "user" /\ sw'.packets = sw.packets
    <3>1. sw' = rx_proc(sw, ch)
      BY <2>2
    <3>2. /\ sw' \in Switches
          /\ LET b == IF sw.escaping THEN Complement(ch) ELSE ch
             IN /\ ~sw'.escaping /\ sw'.stream = sw.stream /\ sw'.packets = sw.packets
                /\ sw'.user = IF sw.stream = "debug" THEN sw.user ELSE Append(sw.user, b)
                /\ sw'.partial = IF sw.stream = "debug" THEN Append(sw.partial, b) ELSE sw.partial
      <4>1. sw \in Switches /\ ~NeedsEscape(ch)
        BY <1>0, <2>1
      <4> QED BY ONLY <3>1, <4>1, ch \in Bytes, ReceiverStep
    <3> QED BY <1>0, <1>4, <2>1, <3>2
  <2>4. Carries(<<>>, <<>>)'
    BY <1>0, <2>2, <2>3 DEF Carries, NothingSent
  <2>5. Append(sw.user, c) \o <<>> = sw.user \o <<c>>
    <3>1. Append(sw.user, c) \in Seq(Bytes) /\ Append(sw.user, c) = sw.user \o <<c>>
      BY <1>0, AppendProperties, AppendIsConcat
    <3> QED BY <3>1, ConcatEmptySeq
  <2> QED BY <2>3, <2>4, <2>5 DEF Arrives
<1> QED BY <1>2, <1>3, <1>4 DEF ByteSent

\* Sequences are put together in any grouping.
LEMMA Regroup ==
  ASSUME NEW S
  PROVE  \A x, y, z \in Seq(S) : /\ x \o y \in Seq(S) /\ (x \o y) \o z = x \o (y \o z)
                                 /\ x \o <<>> = x /\ <<>> \o x = x
<1>1. \A x, y \in Seq(S) : x \o y \in Seq(S)
  BY ONLY ConcatProperties
<1>2. \A x, y, z \in Seq(S) : (x \o y) \o z = x \o (y \o z)
  BY ONLY ConcatAssociative
<1>3. \A x \in Seq(S) : x \o <<>> = x /\ <<>> \o x = x
  BY ONLY ConcatEmptySeq
<1> QED BY <1>1, <1>2, <1>3

LEMMA BytesRegroup ==
  \A x, y, z \in Seq(Bytes) : (x \o y) \o z = x \o (y \o z)
<1> DEFINE S == Bytes
<1> HIDE DEF S
<1>1. \A x, y, z \in Seq(S) : (x \o y) \o z = x \o (y \o z)
  BY ONLY ConcatAssociative
<1> QED BY <1>1 DEF S

\* A packet arrives, character by character.
LEMMA PacketArrives ==
  ASSUME StreamTypes, wire' = Tail(wire), sw' = rx_proc(sw, Head(wire)), UNCHANGED txStream,
         NEW q \in Seq(Bytes), PacketSent(q)
  PROVE  sw' \in Switches
         /\ (Arrives(<<>>, <<q>>, <<>>, <<q>>) \/ Arrives(<<>>, <<q>>, <<>>, <<>>))
<1>0. /\ sw \in Switches /\ sw.user \in Seq(Bytes) /\ sw.packets \in Seq(Seq(Bytes))
      /\ sw.partial \in Seq(Bytes)
  BY DEF StreamTypes, Switches
<1>1. Ending' = Ending /\ Ending \in Seq(Bytes)
  BY EndingTyped DEF Ending
<1>2. CASE /\ ~sw.escaping /\ sw.partial = <<>> /\ sw.stream = "user"
           /\ wire = <<CHAR_SEL_DEBUG>> \o (EscapedAll(q) \o Ending)
  <2>1. EscapedAll(q) \o Ending \in Seq(Bytes)
    BY <1>1, EscapedTyped, ConcatProperties
  <2>2. Head(wire) = CHAR_SEL_DEBUG /\ wire' = EscapedAll(q) \o Ending
    BY <1>2, <2>1, Characters, FirstOf
  <2>3. /\ sw' \in Switches /\ sw'.user = sw.user /\ sw'.partial = <<>> /\ ~sw'.escaping
        /\ sw'.stream = "debug" /\ NonEmpty(sw'.packets) = NonEmpty(sw.packets)
    BY <1>0, <1>2, <2>2, Characters, SelectionArrives
  <2>4. q = <<>> \o q
    BY ConcatEmptySeq
  <2>5. PacketSent(q)'
    BY <1>1, <2>2, <2>3, <2>4 DEF PacketSent
  <2>6. Carries(<<>>, <<q>>)'
    BY <2>5 DEF Carries
  <2> QED BY <2>3, <2>6 DEF Arrives
<1>3. ASSUME sw.stream = "debug", NEW r \in Seq(Bytes), q = sw.partial \o r,
             \/ ~sw.escaping /\ wire = EscapedAll(r) \o Ending
             \/ /\ sw.escaping /\ r # <<>> /\ NeedsEscape(Head(r))
                /\ wire = <<Complement(Head(r))>> \o (EscapedAll(Tail(r)) \o Ending)
      PROVE  sw' \in Switches
             /\ (Arrives(<<>>, <<q>>, <<>>, <<q>>) \/ Arrives(<<>>, <<q>>, <<>>, <<>>))
  <2>1. CASE r = <<>>
    <3>1. PICK ch \in Bytes : /\ ch = IF txStream = "debug" THEN CHAR_SEL_DEBUG ELSE CHAR_SEL_APP
                              /\ Ending = <<ch>>
      BY Characters, EndingTyped
    <3>2. wire = <<ch>>
      BY <1>1, <1>3, <2>1, <3>1, EscapedTyped, ConcatEmptySeq
    <3>3. Head(wire) = ch /\ wire' = <<>> /\ ch \in {CHAR_SEL_APP, CHAR_SEL_DEBUG}
      BY <3>1, <3>2
    <3>4. sw' = rx_proc(sw, ch)
      BY <3>3
    <3>5. /\ sw' \in Switches /\ ~sw'.escaping /\ sw'.user = sw.user
          /\ sw'.stream = IF ch = CHAR_SEL_APP THEN "user" ELSE "debug"
          /\ sw'.partial = IF sw.stream = "debug" THEN <<>> ELSE sw.partial
          /\ sw'.packets = IF sw.stream = "debug" THEN Append(sw.packets, sw.partial) ELSE sw.packets
      BY ONLY <1>0, <3>3, <3>4, ch \in Bytes, ReceiverStep
    <3>6. sw'.stream = txStream'
      BY <3>1, <3>5, Characters DEF StreamTypes
    <3>7. Carries(<<>>, <<>>)'
      BY <1>3, <3>3, <3>5, <3>6 DEF Carries, NothingSent
    <3>8. q = sw.partial
      BY <1>0, <1>3, <2>1, ConcatEmptySeq
    <3>9. NonEmpty(sw'.packets) \o NonEmpty(<<>>) = NonEmpty(sw.packets) \o NonEmpty(<<q>>)
      <4>1. Append(sw.packets, q) \in Seq(Seq(Bytes))
        BY <1>0, <3>8
      <4>2. NonEmpty(Append(sw.packets, q)) = NonEmpty(sw.packets) \o NonEmpty(<<q>>)
        BY <1>0, PacketCounted
      <4>3. NonEmpty(Append(sw.packets, q)) \o <<>> = NonEmpty(Append(sw.packets, q))
            /\ NonEmpty(<<>>) = <<>>
        BY <4>1, PacketCounted
      <4> QED BY <1>3, <3>5, <3>8, <4>2, <4>3
    <3> QED BY <3>5, <3>7, <3>9 DEF Arrives
  <2>2. CASE r # <<>>
    <3> DEFINE more == EscapedAll(Tail(r)) \o Ending
    <3>0. /\ Head(r) \in Bytes /\ Tail(r) \in Seq(Bytes) /\ more \in Seq(Bytes)
          /\ Complement(Head(r)) \in Bytes
          /\ EscapedAll(r) \o Ending = IF NeedsEscape(Head(r))
                                       THEN <<CHAR_ESCAPE>> \o (<<Complement(Head(r))>> \o more)
                                       ELSE <<Head(r)>> \o more
      BY <1>1, <2>2, EscapedRest, Characters
    <3>1. more' = more
      BY <1>1
    <3> HIDE DEF more
    <3>2. CASE ~sw.escaping /\ NeedsEscape(Head(r))
      <4>1. wire = <<CHAR_ESCAPE>> \o (<<Complement(Head(r))>> \o more)
        BY <1>3, <3>0, <3>2
      <4>2. <<Complement(Head(r))>> \o more \in Seq(Bytes)
        BY <3>0, FirstOf
      <4>3. Head(wire) = CHAR_ESCAPE /\ wire' = <<Complement(Head(r))>> \o more
        BY <4>1, <4>2, Characters, FirstOf
      <4>4. sw \in Switches /\ sw' = rx_proc(sw, CHAR_ESCAPE) /\ CHAR_ESCAPE \in Bytes
        BY <1>0, <4>3, Characters
      <4>5. /\ sw' \in Switches /\ sw'.escaping /\ sw'.stream = sw.stream /\ sw'.user = sw.user
            /\ sw'.partial = sw.partial /\ sw'.packets = sw.packets
        BY ONLY <4>4, ReceiverStep
      <4>6. PacketSent(q)'
        <5>1. /\ sw'.escaping /\ r # <<>> /\ NeedsEscape(Head(r))' /\ q = sw'.partial \o r
              /\ sw'.stream = "debug"
          BY <1>3, <2>2, <3>2, <4>5 DEF NeedsEscape
        <5>2. wire' = <<Complement(Head(r))>> \o (EscapedAll(Tail(r)) \o Ending')
          BY <1>1, <4>3 DEF more
        <5> QED BY <5>1, <5>2 DEF PacketSent
      <4>7. Carries(<<>>, <<q>>)'
        BY <4>6 DEF Carries
      <4> QED BY <4>5, <4>7 DEF Arrives
    <3>3. CASE sw.escaping \/ ~NeedsEscape(Head(r))
      <4>1. PICK ch \in Bytes : /\ wire = <<ch>> \o more /\ ~NeedsEscape(ch)
                                /\ Head(r) = IF sw.escaping THEN Complement(ch) ELSE ch
        <5>1. CASE sw.escaping
          <6>1. NeedsEscape(Head(r)) /\ wire = <<Complement(Head(r))>> \o more
            BY <1>3, <5>1 DEF more
          <6>2. ~NeedsEscape(Complement(Head(r))) /\ Complement(Complement(Head(r))) = Head(r)
            BY <3>0, <6>1, Characters
          <6> QED BY <3>0, <5>1, <6>1, <6>2
        <5>2. CASE ~sw.escaping
          BY <1>3, <3>0, <3>3, <5>2
        <5> QED BY <5>1, <5>2
      <4>2. Head(wire) = ch /\ wire' = more
        BY <3>0, <4>1, FirstOf
      <4>3. sw' = rx_proc(sw, ch)
        BY <4>2
      <4>4. /\ sw' \in Switches
            /\ LET b == IF sw.escaping THEN Complement(ch) ELSE ch
               IN /\ ~sw'.escaping /\ sw'.stream = sw.stream /\ sw'.packets = sw.packets
                  /\ sw'.user = IF sw.stream = "debug" THEN sw.user ELSE Append(sw.user, b)
                  /\ sw'.partial = IF sw.stream = "debug" THEN Append(sw.partial, b) ELSE sw.partial
        <5>1. sw \in Switches /\ ~NeedsEscape(ch)
          BY <1>0, <4>1
        <5> QED BY ONLY <4>3, <5>1, ch \in Bytes, ReceiverStep
      <4>5. /\ ~sw'.escaping /\ sw'.stream = "debug" /\ sw'.packets = sw.packets
            /\ sw'.user = sw.user /\ sw'.partial = Append(sw.partial, Head(r))
        BY <1>3, <4>1, <4>4
      <4>6. q = sw'.partial \o Tail(r)
        <5>1. PICK h \in Bytes, t \in Seq(Bytes) : h = Head(r) /\ t = Tail(r)
          BY <3>0
        <5>2. r = <<h>> \o t
          BY <2>2, <5>1
        <5>3. Append(sw.partial, h) = sw.partial \o <<h>>
          BY <1>0, AppendIsConcat
        <5>4. (sw.partial \o <<h>>) \o t = sw.partial \o (<<h>> \o t)
          <6>1. <<h>> \in Seq(Bytes)
            OBVIOUS
          <6>2. PICK u \in Seq(Bytes), v \in Seq(Bytes) : u = sw.partial /\ v = <<h>>
            BY <1>0, <6>1
          <6>3. (u \o v) \o t = u \o (v \o t)
            BY ONLY BytesRegroup, u \in Seq(Bytes), v \in Seq(Bytes), t \in Seq(Bytes)
          <6> QED BY <6>2, <6>3
        <5> QED BY <1>3, <4>5, <5>1, <5>2, <5>3, <5>4
      <4>7. PacketSent(q)'
        <5>1. wire' = EscapedAll(Tail(r)) \o Ending'
          BY <1>1, <4>2 DEF more
        <5> QED BY <3>0, <4>5, <4>6, <5>1 DEF PacketSent
      <4>8. Carries(<<>>, <<q>>)'
        BY <4>7 DEF Carries
      <4> QED BY <4>4, <4>5, <4>8 DEF Arrives
    <3> QED BY <3>2, <3>3
  <2> QED BY <2>1, <2>2
<1> QED BY <1>2, <1>3 DEF PacketSent

\* Whatever is on the wire, the next character brings it on its way.
LEMMA CarriedArrives ==
  ASSUME StreamTypes, Deliver, NEW a \in Seq(Bytes), NEW p \in Seq(Seq(Bytes)), Carries(a, p)
  PROVE  sw' \in Switches /\ \E b \in Seq(Bytes), r \in Seq(Seq(Bytes)) : Arrives(a, p, b, r)
<1>0. /\ wire # <<>> /\ wire' = Tail(wire) /\ sw' = rx_proc(sw, Head(wire)) /\ UNCHANGED txStream
      /\ sw \in Switches
  BY DEF Deliver, StreamTypes
<1>1. <<>> \in Seq(Bytes) /\ <<>> \in Seq(Seq(Bytes))
  OBVIOUS
<1>2. CASE PadSent /\ a = <<>> /\ p = <<>>
  <2>1. /\ Head(wire) = CHAR_SEL_APP /\ wire' = <<>> /\ sw.partial = <<>> /\ txStream' = "user"
    BY <1>0, <1>2 DEF PadSent
  <2>2. /\ sw' \in Switches /\ sw'.user = sw.user /\ sw'.partial = <<>> /\ ~sw'.escaping
        /\ sw'.stream = "user" /\ NonEmpty(sw'.packets) = NonEmpty(sw.packets)
    BY <1>0, <2>1, SelectionArrives
  <2>3. Carries(<<>>, <<>>)'
    BY <2>1, <2>2 DEF Carries, NothingSent
  <2>4. Arrives(a, p, <<>>, <<>>)
    BY <1>2, <2>2, <2>3 DEF Arrives
  <2> QED BY <1>1, <2>2, <2>4
<1>3. ASSUME NEW b \in Bytes, ByteSent(b), a = <<b>>, p = <<>>
      PROVE  sw' \in Switches /\ \E c \in Seq(Bytes), r \in Seq(Seq(Bytes)) : Arrives(a, p, c, r)
  <2>1. sw' \in Switches /\ (Arrives(<<b>>, <<>>, <<b>>, <<>>) \/ Arrives(<<b>>, <<>>, <<>>, <<>>))
    BY <1>0, <1>3, ByteArrives
  <2>2. <<b>> \in Seq(Bytes)
    OBVIOUS
  <2> QED BY <1>1, <1>3, <2>1, <2>2
<1>4. ASSUME NEW q \in Seq(Bytes), PacketSent(q), a = <<>>, p = <<q>>
      PROVE  sw' \in Switches /\ \E c \in Seq(Bytes), r \in Seq(Seq(Bytes)) : Arrives(a, p, c, r)
  <2>1. sw' \in Switches
        /\ (Arrives(<<>>, <<q>>, <<>>, <<q>>) \/ Arrives(<<>>, <<q>>, <<>>, <<>>))
    BY <1>0, <1>4, PacketArrives
  <2>2. <<q>> \in Seq(Seq(Bytes))
    OBVIOUS
  <2> QED BY <1>1, <1>4, <2>1, <2>2
<1>5. ~NothingSent
  BY <1>0 DEF NothingSent
<1> QED BY <1>2, <1>3, <1>4, <1>5 DEF Carries

\* What calls hand on, one by one.
LEMMA DataOfCalls ==
  ASSUME NEW S, NEW stream, NEW calls \in Seq([to : {stream}, data : S])
  PROVE  /\ CallData(<<>>) = <<>> /\ CallData(calls) \in Seq(S)
         /\ calls # <<>> => /\ calls[1] = Head(calls)
                            /\ Head(calls).to = stream /\ Head(calls).data \in S
                            /\ Tail(calls) \in Seq([to : {stream}, data : S])
                            /\ CallData(Tail(calls)) \in Seq(S)
                            /\ CallData(calls) = <<Head(calls).data>> \o CallData(Tail(calls))
<1> DEFINE C == [to : {stream}, data : S]
<1>1. PICK n \in Nat : n = Len(calls)
  BY LenProperties
<1>2. \A c \in C : c.to = stream /\ c.data \in S
  OBVIOUS
<1>3. calls \in Seq(C)
  OBVIOUS
<1> HIDE DEF C
<1>4. \A t \in Seq(C) : CallData(t) \in Seq(S) /\ Len(CallData(t)) = Len(t)
                        /\ \A i \in 1 .. Len(t) : CallData(t)[i] = t[i].data
  <2>1. ASSUME NEW t \in Seq(C)
        PROVE  CallData(t) \in Seq(S) /\ Len(CallData(t)) = Len(t)
               /\ \A i \in 1 .. Len(t) : CallData(t)[i] = t[i].data
    <3>1. PICK m \in Nat : m = Len(t)
      BY LenProperties
    <3>2. \A i \in 1 .. m : t[i].data \in S
      BY <1>2, <3>1, ElementOfSeq
    <3>3. CallData(t) \in [1 .. m -> S]
      BY <3>1, <3>2 DEF CallData
    <3> QED BY <3>1, <3>3 DEF CallData
  <2> QED BY <2>1
<1>5. CallData(<<>>) = <<>>
  BY DEF CallData
<1>6. ASSUME calls # <<>>
      PROVE  /\ calls[1] = Head(calls) /\ Head(calls) \in C /\ Tail(calls) \in Seq(C)
             /\ CallData(calls) = <<Head(calls).data>> \o CallData(Tail(calls))
  <2>1. PICK h \in C, t \in Seq(C) : h = Head(calls) /\ t = Tail(calls) /\ calls[1] = h
    BY <1>3, <1>6, HeadTail
  <2>2. /\ Len(t) = n - 1 /\ \A i \in 1 .. Len(t) : t[i] = calls[i + 1]
        /\ n > 0
    <3>1. /\ Tail(calls) \in Seq(C) /\ Len(Tail(calls)) = Len(calls) - 1
          /\ \A i \in 1 .. Len(Tail(calls)) : Tail(calls)[i] = calls[i + 1]
      BY ONLY <1>3, <1>6, HeadTail
    <3>2. Len(t) \in Nat
      BY LenProperties
    <3> QED BY <1>1, <2>1, <3>1, <3>2
  <2>3. PICK x \in S : x = h.data
    BY <1>2
  <2>4. PICK u \in Seq(S) : u = CallData(t)
    BY <1>4
  <2>5. /\ <<x>> \o u \in Seq(S) /\ Head(<<x>> \o u) = x /\ Tail(<<x>> \o u) = u
        /\ Len(<<x>> \o u) = 1 + Len(u)
    <3>1. <<x>> \in Seq(S) /\ Len(<<x>>) = 1
      OBVIOUS
    <3> QED BY <3>1, FirstOf, ConcatProperties
  <2>6. \A i \in 1 .. n : (<<x>> \o u)[i] = calls[i].data
    <3>1. \A i \in 1 .. Len(<<x>>) + Len(u) :
             (<<x>> \o u)[i] = IF i <= Len(<<x>>) THEN <<x>>[i] ELSE u[i - Len(<<x>>)]
      <4>1. <<x>> \in Seq(S)
        OBVIOUS
      <4> QED BY <4>1, ConcatProperties
    <3>2. Len(<<x>>) = 1 /\ <<x>>[1] = x /\ Len(u) = n - 1
      BY <1>4, <2>2, <2>4
    <3>3. ASSUME NEW i \in 1 .. n PROVE (<<x>> \o u)[i] = calls[i].data
      <4>1. CASE i = 1
        BY <2>1, <2>3, <3>1, <3>2, <4>1
      <4>2. CASE i # 1
        <5>1. i - 1 \in 1 .. (n - 1) /\ (i - 1) + 1 = i /\ ~(i <= 1)
          BY <4>2
        <5>2. u[i - 1] = t[i - 1].data /\ t[i - 1] = calls[i]
          BY <1>4, <2>2, <2>4, <5>1
        <5> QED BY <2>2, <3>1, <3>2, <5>1, <5>2
      <4> QED BY <4>1, <4>2
    <3> QED BY <3>3
  <2>7. PICK w \in Seq(S) : w = CallData(calls) /\ Len(w) = n /\ \A i \in 1 .. n : w[i] = calls[i].data
    BY <1>1, <1>3, <1>4
  <2>8. Len(<<x>> \o u) = n
    BY <1>4, <2>2, <2>4, <2>5
  <2>9. w = <<x>> \o u
    BY <2>5, <2>6, <2>7, <2>8, SeqEqual
  <2> QED BY <2>1, <2>3, <2>4, <2>7, <2>9
<1> QED BY <1>2, <1>3, <1>4, <1>5, <1>6 DEF C

LEMMA CallsTyped ==
  /\ \A t \in Seq(AppCalls) : CallData(t) \in Seq(Bytes) /\ (t # <<>> => t[1].to = "app")
  /\ \A t \in Seq(DebugCalls) : CallData(t) \in Seq(Nat) /\ (t # <<>> => t[1].to = "debug")
<1>1. ASSUME NEW t \in Seq(AppCalls) PROVE CallData(t) \in Seq(Bytes) /\ (t # <<>> => t[1].to = "app")
  <2>1. t \in Seq([to : {"app"}, data : Bytes])
    BY DEF AppCalls
  <2>2. CallData(t) \in Seq(Bytes) /\ (t # <<>> => t[1] = Head(t) /\ Head(t).to = "app")
    BY ONLY <2>1, DataOfCalls
  <2> QED BY <2>2
<1>2. ASSUME NEW t \in Seq(DebugCalls) PROVE CallData(t) \in Seq(Nat) /\ (t # <<>> => t[1].to = "debug")
  <2>1. t \in Seq([to : {"debug"}, data : Nat])
    BY DEF DebugCalls
  <2>2. CallData(t) \in Seq(Nat) /\ (t # <<>> => t[1] = Head(t) /\ Head(t).to = "debug")
    BY ONLY <2>1, DataOfCalls
  <2> QED BY <2>2
<1> QED BY <1>1, <1>2

LEMMA CalledTyped ==
  ASSUME StreamTypes
  PROVE  Called("app") \in Seq(Bytes) /\ Called("debug") \in Seq(Nat)
<1>1. <<>> \in Seq(Bytes) /\ <<>> \in Seq(Nat) /\ "app" # "debug"
  OBVIOUS
<1>2. CASE todo \in Seq(AppCalls) /\ todo # <<>>
  <2>1. CallData(todo) \in Seq(Bytes) /\ todo[1].to = "app"
    BY <1>2, CallsTyped
  <2> QED BY <1>1, <2>1 DEF Called
<1>3. CASE todo \in Seq(DebugCalls) /\ todo # <<>>
  <2>1. CallData(todo) \in Seq(Nat) /\ todo[1].to = "debug"
    BY <1>3, CallsTyped
  <2> QED BY <1>1, <2>1 DEF Called
<1> QED BY <1>1, <1>2, <1>3 DEF StreamTypes, Called

\* One element less to push, and only to one of the buffers.
LEMMA CalledNext ==
  ASSUME StreamTypes, todo # <<>>, todo' = Tail(todo)
  PROVE  /\ todo' \in Seq(AppCalls) \/ todo' \in Seq(DebugCalls)
         /\ \/ /\ Head(todo).to = "app" /\ Head(todo).data \in Bytes
               /\ Called("app")' \in Seq(Bytes)
               /\ Called("app") = <<Head(todo).data>> \o Called("app")'
               /\ Called("debug") = <<>> /\ Called("debug")' = <<>>
            \/ /\ Head(todo).to = "debug" /\ Head(todo).data \in Nat
               /\ Called("debug")' \in Seq(Nat)
               /\ Called("debug") = <<Head(todo).data>> \o Called("debug")'
               /\ Called("app") = <<>> /\ Called("app")' = <<>>
<1>1. "app" # "debug" /\ CallData(<<>>) = <<>>
  BY DEF CallData
<1>2. CASE todo \in Seq(AppCalls)
  <2>1. /\ todo[1] = Head(todo) /\ Head(todo).to = "app" /\ Head(todo).data \in Bytes
        /\ Tail(todo) \in Seq(AppCalls) /\ CallData(Tail(todo)) \in Seq(Bytes)
        /\ CallData(todo) = <<Head(todo).data>> \o CallData(Tail(todo))
    BY <1>2, DataOfCalls DEF AppCalls
  <2>2. Tail(todo) # <<>> => Tail(todo)[1].to = "app"
    BY <2>1, CallsTyped
  <2>3. Called("app")' = CallData(Tail(todo)) /\ Called("debug")' = <<>>
    BY <1>1, <2>2 DEF Called, CallData
  <2>4. Called("app") = CallData(todo) /\ Called("debug") = <<>>
    BY <1>1, <2>1 DEF Called
  <2> QED BY <2>1, <2>3, <2>4
<1>3. CASE todo \in Seq(DebugCalls)
  <2>1. /\ todo[1] = Head(todo) /\ Head(todo).to = "debug" /\ Head(todo).data \in Nat
        /\ Tail(todo) \in Seq(DebugCalls) /\ CallData(Tail(todo)) \in Seq(Nat)
        /\ CallData(todo) = <<Head(todo).data>> \o CallData(Tail(todo))
    BY <1>3, DataOfCalls DEF DebugCalls
  <2>2. Tail(todo) # <<>> => Tail(todo)[1].to = "debug"
    BY <2>1, CallsTyped
  <2>3. Called("debug")' = CallData(Tail(todo)) /\ Called("app")' = <<>>
    BY <1>1, <2>2 DEF Called, CallData
  <2>4. Called("debug") = CallData(todo) /\ Called("app") = <<>>
    BY <1>1, <2>1 DEF Called
  <2> QED BY <2>1, <2>3, <2>4
<1> QED BY <1>2, <1>3 DEF StreamTypes

-----------------------------------------------------------------------------
(* Every step of the transmitting direction.                                *)

\* While nothing is on the wire: the packets that have been dealt with, and
\* those that are pending.
Settled(done, rest) ==
  /\ sentPackets = done \o rest
  /\ OfLength(done, 1..PacketMax) = NonEmpty(sw.packets)
  /\ Holds(Pending, rest)

LEMMA AtRest ==
  ASSUME StreamInv, wire = <<>>
  PROVE  /\ NothingSent
         /\ sentApp = sw.user \o (appTxBuf \o Called("app"))
         /\ \E done \in Seq(Seq(Bytes)), rest \in Seq(Seq(Bytes)) : Settled(done, rest)
<1>1. PICK a \in Seq(Bytes), p \in Seq(Seq(Bytes)) : Delivery(a, p)
  BY DEF StreamInv
<1>2. NothingSent /\ a = <<>> /\ p = <<>>
  BY <1>1, NothingCarried DEF Delivery
<1>3. /\ appTxBuf \in Seq(Bytes) /\ Called("app") \in Seq(Bytes) /\ sw.packets \in Seq(Seq(Bytes))
  BY CalledTyped DEF StreamInv, StreamTypes, Switches
<1>4. <<>> \o (appTxBuf \o Called("app")) = appTxBuf \o Called("app")
  BY <1>3, Regroup
<1>5. NonEmpty(sw.packets) \o NonEmpty(<<>>) = NonEmpty(sw.packets)
  BY <1>3, PacketCounted
<1> QED BY <1>1, <1>2, <1>4, <1>5 DEF Delivery, Settled

\* A step that writes nothing.
LEMMA Unsent ==
  ASSUME StreamInv, wire = <<>>, UNCHANGED <<wire, sw, txStream>>, StreamTypes', Limits',
         sentApp' = sw.user \o (appTxBuf \o Called("app"))',
         NEW done \in Seq(Seq(Bytes)), NEW rest \in Seq(Seq(Bytes)), Settled(done, rest)'
  PROVE  StreamInv'
<1>1. NothingSent'
  BY AtRest DEF NothingSent
<1>2. Carries(<<>>, <<>>)'
  BY <1>1 DEF Carries
<1>3. /\ appTxBuf' \in Seq(Bytes) /\ Called("app")' \in Seq(Bytes)
      /\ sw.packets \in Seq(Seq(Bytes))
  <2>1. (StreamTypes => Called("app") \in Seq(Bytes))'
    BY CalledTyped, PTL
  <2> QED BY <2>1 DEF StreamInv, StreamTypes, Switches
<1>4. /\ <<>> \o (appTxBuf' \o Called("app")') = appTxBuf' \o Called("app")'
      /\ NonEmpty(sw.packets) \o NonEmpty(<<>>) = NonEmpty(sw.packets)
  BY <1>3, Regroup, PacketCounted
<1>5. Delivery(<<>>, <<>>)'
  BY <1>2, <1>4 DEF Delivery, Settled
<1>6. <<>> \in Seq(Bytes) /\ <<>> \in Seq(Seq(Bytes))
  OBVIOUS
<1> QED BY <1>5, <1>6 DEF StreamInv

\* An application byte is about to be pushed.
LEMMA AppSendStep ==
  ASSUME StreamInv, NEW b \in AppBytes, AppSend(b)
  PROVE  StreamInv'
<1>1. /\ StreamTypes /\ Limits /\ wire = <<>> /\ todo = <<>> /\ b \in Bytes
      /\ todo' = <<[to |-> "app", data |-> b]>> /\ sentApp' = Append(sentApp, b)
      /\ UNCHANGED <<flushing, appTxBuf, debugTxBuf, packetBuf, packetReady, txStream, sentPackets,
                     wire, sw>>
  BY TransmitAssumption DEF StreamInv, AppSend, Idle, quiet
<1>2. PICK u \in Seq(Bytes), v \in Seq(Bytes) : u = sw.user /\ v = appTxBuf
  BY <1>1 DEF StreamTypes, Switches
<1>3. /\ Called("app") = <<>> /\ Called("debug") = <<>>
      /\ Called("app")' = <<b>> /\ Called("debug")' = <<>>
  <2>1. todo' # <<>> /\ todo'[1].to = "app" /\ CallData(todo') = <<b>>
    BY <1>1 DEF CallData
  <2> QED BY <1>1, <2>1 DEF Called, CallData
<1>4. StreamTypes'
  <2>1. [to |-> "app", data |-> b] \in AppCalls
    BY <1>1 DEF AppCalls
  <2>2. todo' \in Seq(AppCalls)
    BY <1>1, <2>1
  <2>3. sentApp' \in Seq(Bytes)
    BY <1>1 DEF StreamTypes
  <2> QED BY <1>1, <2>2, <2>3 DEF StreamTypes
<1>5. Limits'
  BY <1>1 DEF Limits, Ready
<1>6. sentApp' = sw.user \o (appTxBuf \o Called("app"))'
  <2>1. sentApp = u \o v
    BY <1>1, <1>2, <1>3, AtRest, Regroup
  <2>2. Append(u \o v, b) = (u \o v) \o <<b>> /\ <<b>> \in Seq(Bytes)
    <3>1. PICK w \in Seq(Bytes) : w = u \o v
      BY ConcatProperties
    <3>2. Append(w, b) = w \o <<b>> /\ <<b>> \in Seq(Bytes)
      BY <1>1, AppendIsConcat
    <3> QED BY <3>1, <3>2
  <2>3. (u \o v) \o <<b>> = u \o (v \o <<b>>)
    BY <2>2, Regroup
  <2> QED BY <1>1, <1>2, <1>3, <2>1, <2>2, <2>3
<1>7. PICK done \in Seq(Seq(Bytes)), rest \in Seq(Seq(Bytes)) : Settled(done, rest)
  BY <1>1, AtRest
<1>8. Settled(done, rest)'
  <2>1. Pending' = Pending
    BY <1>1, <1>3 DEF Pending, Due, Ready
  <2> QED BY <1>1, <1>7, <2>1 DEF Settled
<1> QED BY <1>1, <1>4, <1>5, <1>6, <1>8, Unsent

LEMMA NumbersRegroup ==
  \A x, y, z \in Seq(Nat) : (x \o y) \o z = x \o (y \o z)
<1> DEFINE S == Nat
<1> HIDE DEF S
<1>1. \A x, y, z \in Seq(S) : (x \o y) \o z = x \o (y \o z)
  BY ONLY ConcatAssociative
<1> QED BY <1>1 DEF S

\* What waits is made of numbers.
LEMMA PendingTyped ==
  ASSUME StreamTypes
  PROVE  /\ packetBuf \in Seq(Nat) /\ Due \in Seq(Nat) /\ debugTxBuf \in Seq(Nat)
         /\ Called("debug") \in Seq(Nat)
         /\ debugTxBuf \o Called("debug") \in Seq(Nat) /\ Pending \in Seq(Nat)
<1>1. packetBuf \in Seq(Nat)
  <2>1. packetBuf \in Seq(Bytes) /\ Bytes \subseteq Nat
    BY Characters DEF StreamTypes
  <2> QED BY <2>1, SeqMonotonic
<1>2. Due \in Seq(Nat)
  <2>1. Ready => Delimiter(packetReady) \in Nat
    BY Characters DEF StreamTypes, Ready
  <2> QED BY <2>1 DEF Due
<1>3. debugTxBuf \in Seq(Nat) /\ Called("debug") \in Seq(Nat)
  BY CalledTyped DEF StreamTypes
<1>4. debugTxBuf \o Called("debug") \in Seq(Nat)
  BY <1>3, ConcatProperties
<1>5. Due \o (debugTxBuf \o Called("debug")) \in Seq(Nat)
  BY <1>2, <1>4, ConcatProperties
<1>6. Pending \in Seq(Nat)
  BY <1>1, <1>5, ConcatProperties DEF Pending
<1> QED BY <1>1, <1>2, <1>3, <1>4, <1>6

\* A packet is about to be pushed, with its delimiter.
LEMMA TransmitPacketStep ==
  ASSUME StreamInv, NEW p \in Commands, transmitPacket(p)
  PROVE  StreamInv'
<1> DEFINE P == Seq(Bytes)
<1>1. /\ StreamTypes /\ Limits /\ wire = <<>> /\ todo = <<>> /\ p.bytes \in P /\ p.delay \in Nat
      /\ todo' = [i \in DOMAIN p.bytes |-> [to |-> "debug", data |-> p.bytes[i]]]
                 \o <<[to |-> "debug", data |-> Delimiter(p.delay)]>>
      /\ sentPackets' = Append(sentPackets, p.bytes)
      /\ UNCHANGED <<flushing, appTxBuf, debugTxBuf, packetBuf, packetReady, txStream, sentApp,
                     wire, sw>>
  BY TransmitAssumption DEF StreamInv, transmitPacket, Idle, quiet
<1>2. PICK x \in Nat : x = Delimiter(p.delay) /\ IsDelimiter(x)
  BY <1>1, Characters
<1>3. PICK q \in P : q = p.bytes
  BY <1>1
<1>4. PICK n \in Nat : /\ n = Len(q) /\ DOMAIN q = 1 .. n /\ q \in Seq(Nat)
                       /\ \A i \in 1 .. n : q[i] \in Nat
  <2>1. Bytes \subseteq Nat
    BY Characters
  <2>2. q \in Seq(Nat)
    BY <2>1, SeqMonotonic
  <2> QED BY <2>2, LenProperties, ElementOfSeq
<1>5. PICK calls \in Seq(DebugCalls) : /\ calls = todo' /\ Len(calls) = n + 1
                                       /\ calls[n + 1] = [to |-> "debug", data |-> x]
                                       /\ \A i \in 1 .. n : calls[i] = [to |-> "debug", data |-> q[i]]
  <2> DEFINE c == [i \in 1 .. n |-> [to |-> "debug", data |-> q[i]]]
             last == [to |-> "debug", data |-> x]
  <2>1. c \in Seq(DebugCalls) /\ Len(c) = n /\ \A i \in 1 .. n : c[i] = [to |-> "debug", data |-> q[i]]
    <3>1. \A i \in 1 .. n : [to |-> "debug", data |-> q[i]] \in DebugCalls
      BY <1>4 DEF DebugCalls
    <3>2. c \in [1 .. n -> DebugCalls]
      BY <3>1
    <3> QED BY <3>2
  <2>2. last \in DebugCalls
    BY DEF DebugCalls
  <2>3. todo' = c \o <<last>>
    BY <1>1, <1>2, <1>3, <1>4
  <2> HIDE DEF c
  <2>4. c \o <<last>> = Append(c, last)
    BY <2>1, <2>2, AppendIsConcat
  <2>5. /\ Append(c, last) \in Seq(DebugCalls) /\ Len(Append(c, last)) = n + 1
        /\ Append(c, last)[n + 1] = last /\ \A i \in 1 .. n : Append(c, last)[i] = c[i]
    BY <2>1, <2>2, AppendProperties
  <2> QED BY <2>1, <2>3, <2>4, <2>5
<1>6. CallData(calls) = q \o <<x>>
  <2>1. PICK s \in Seq(Nat) : /\ s = Append(q, x) /\ Len(s) = n + 1
                              /\ s[n + 1] = x /\ \A i \in 1 .. n : s[i] = q[i]
    <3>1. /\ Append(q, x) \in Seq(Nat) /\ Len(Append(q, x)) = Len(q) + 1
          /\ Append(q, x)[Len(q) + 1] = x /\ \A i \in 1 .. Len(q) : Append(q, x)[i] = q[i]
      BY ONLY <1>4, x \in Nat, AppendProperties
    <3> QED BY <1>4, <3>1
  <2>2. q \o <<x>> = s
    BY <1>4, <2>1, AppendIsConcat
  <2>3. ASSUME NEW i \in 1 .. (n + 1) PROVE calls[i].data = s[i]
    <3>1. CASE i = n + 1
      BY <1>5, <2>1, <3>1
    <3>2. CASE i # n + 1
      <4>1. i \in 1 .. n
        BY <3>2
      <4>2. calls[i] = [to |-> "debug", data |-> q[i]] /\ s[i] = q[i]
        BY <1>5, <2>1, <4>1
      <4> QED BY <4>2
    <3> QED BY <3>1, <3>2
  <2>4. PICK r \in Seq(Nat) : r = CallData(calls)
    BY CallsTyped
  <2>5. r = [i \in 1 .. (n + 1) |-> calls[i].data]
    BY <1>5, <2>4 DEF CallData
  <2>6. Len(r) = n + 1 /\ \A i \in 1 .. (n + 1) : r[i] = s[i]
    BY <2>3, <2>5
  <2>7. r = s
    BY <2>1, <2>6, SeqEqual
  <2> QED BY <2>2, <2>4, <2>7
<1>7. /\ Called("app") = <<>> /\ Called("debug") = <<>>
      /\ Called("app")' = <<>> /\ Called("debug")' = q \o <<x>>
  <2>1. todo' # <<>> /\ todo'[1].to = "debug"
    <3>1. calls # <<>>
      BY <1>5
    <3> QED BY <1>5, <3>1, CallsTyped
  <2> QED BY <1>1, <1>5, <1>6, <2>1 DEF Called, CallData
<1>8. StreamTypes'
  <2>1. sentPackets' \in Seq(P)
    BY <1>1 DEF StreamTypes
  <2> QED BY <1>1, <1>5, <2>1 DEF StreamTypes
<1>9. Limits'
  BY <1>1 DEF Limits, Ready
<1>10. sentApp' = sw.user \o (appTxBuf \o Called("app"))'
  BY <1>1, <1>7, AtRest
<1>11. PICK done \in Seq(P), rest \in Seq(P) : Settled(done, rest)
  BY <1>1, AtRest
<1>12. Append(rest, q) \in Seq(P)
  OBVIOUS
<1>13. Settled(done, Append(rest, q))'
  <2>1. Pending' = Pending \o (q \o <<x>>)
    <3>1. PICK k \in Seq(Nat), l \in Seq(Nat), m \in Seq(Nat), e \in Seq(Nat) :
            k = packetBuf /\ l = Due /\ m = debugTxBuf /\ e = q \o <<x>>
      <4>1. q \o <<x>> \in Seq(Nat)
        <5>1. <<x>> \in Seq(Nat)
          OBVIOUS
        <5> QED BY <1>4, <5>1, ConcatProperties
      <4> QED BY <1>1, <4>1, PendingTyped
    <3>2. k \o (l \o (m \o e)) = (k \o (l \o (m \o <<>>))) \o e
      <4>1. \A v, w, y \in Seq(Nat) : (v \o w) \o y = v \o (w \o y)
        BY ONLY NumbersRegroup
      <4>2. PICK d \in Seq(Nat) : d = l \o m
        BY ConcatProperties
      <4>3. (k \o d) \o e = k \o (d \o e)
        BY ONLY <4>1, k \in Seq(Nat), d \in Seq(Nat), e \in Seq(Nat)
      <4>4. (l \o m) \o e = l \o (m \o e)
        BY ONLY <4>1, l \in Seq(Nat), m \in Seq(Nat), e \in Seq(Nat)
      <4>5. m \o <<>> = m
        BY ConcatEmptySeq
      <4> QED BY <4>2, <4>3, <4>4, <4>5
    <3> QED BY <1>1, <1>7, <3>1, <3>2 DEF Pending, Due, Ready
  <2>2. Holds(Pending \o (q \o <<x>>), Append(rest, q))
    BY <1>1, <1>2, <1>11, PendingTyped, HoldsMore DEF Settled
  <2>3. sentPackets' = done \o Append(rest, q)
    <3> HIDE DEF P
    <3>1. <<q>> \in Seq(P) /\ Append(rest, q) = rest \o <<q>>
          /\ Append(done \o rest, q) = (done \o rest) \o <<q>>
      BY AppendIsConcat, ConcatProperties
    <3>2. (done \o rest) \o <<q>> = done \o (rest \o <<q>>)
      BY <3>1, Regroup
    <3> QED BY <1>1, <1>3, <1>11, <3>1, <3>2 DEF Settled
  <2> QED BY <1>1, <1>11, <2>1, <2>2, <2>3 DEF Settled
<1> QED BY <1>1, <1>8, <1>9, <1>10, <1>12, <1>13, Unsent

\* The first element of a sequence may as well end the one before it.
LEMMA Shift ==
  ASSUME NEW S
  PROVE  \A x \in S, b, c \in Seq(S) : /\ Append(b, x) \in Seq(S)
                                       /\ Append(b, x) \o c = b \o (<<x>> \o c)
<1>1. ASSUME NEW x \in S, NEW b \in Seq(S), NEW c \in Seq(S)
      PROVE  Append(b, x) \in Seq(S) /\ Append(b, x) \o c = b \o (<<x>> \o c)
  <2>1. PICK y \in Seq(S) : y = <<x>>
    <3>1. <<x>> \in Seq(S)
      OBVIOUS
    <3> QED BY <3>1
  <2>2. Append(b, x) \in Seq(S) /\ Append(b, x) = b \o y
    BY <2>1, AppendProperties, AppendIsConcat
  <2>3. (b \o y) \o c = b \o (y \o c)
    BY ONLY ConcatAssociative, b \in Seq(S), y \in Seq(S), c \in Seq(S)
  <2> QED BY <2>1, <2>2, <2>3
<1> QED BY <1>1

LEMMA NumbersShift ==
  \A x \in Nat, b, c \in Seq(Nat) : /\ Append(b, x) \in Seq(Nat)
                                    /\ Append(b, x) \o c = b \o (<<x>> \o c)
<1> DEFINE S == Nat
<1> HIDE DEF S
<1>1. \A x \in S, b, c \in Seq(S) : /\ Append(b, x) \in Seq(S)
                                    /\ Append(b, x) \o c = b \o (<<x>> \o c)
  BY ONLY Shift
<1> QED BY <1>1 DEF S

\* An element goes from the call to its buffer.
LEMMA PushStep ==
  ASSUME StreamInv, wire = <<>>, Push
  PROVE  StreamInv'
<1>1. /\ StreamTypes /\ Limits /\ todo # <<>> /\ todo' = Tail(todo) /\ ~flushing
      /\ ~ringBufFull(Buffer(Head(todo).to))
      /\ UNCHANGED <<flushing, packetBuf, packetReady, txStream, sentApp, sentPackets, wire, sw>>
  BY DEF StreamInv, Push, quiet
<1>2. PICK u \in Seq(Bytes) : u = sw.user /\ sentApp = u \o (appTxBuf \o Called("app"))
  BY <1>1, AtRest DEF StreamTypes, Switches
<1>3. PICK done \in Seq(Seq(Bytes)), rest \in Seq(Seq(Bytes)) : Settled(done, rest)
  BY AtRest
<1>4. CASE Head(todo).to = "app"
  <2>1. /\ Head(todo).data \in Bytes /\ Called("app")' \in Seq(Bytes)
        /\ Called("app") = <<Head(todo).data>> \o Called("app")'
        /\ Called("debug") = <<>> /\ Called("debug")' = <<>>
    BY <1>1, <1>4, CalledNext
  <2>2. appTxBuf' = Append(appTxBuf, Head(todo).data) /\ UNCHANGED debugTxBuf
    BY <1>4 DEF Push
  <2>3. /\ Append(appTxBuf, Head(todo).data) \in Seq(Bytes)
        /\ Append(appTxBuf, Head(todo).data) \o Called("app")'
             = appTxBuf \o (<<Head(todo).data>> \o Called("app")')
        /\ Len(appTxBuf') = Len(appTxBuf) + 1
    <3>1. PICK x \in Bytes, b \in Seq(Bytes), c \in Seq(Bytes) :
            x = Head(todo).data /\ b = appTxBuf /\ c = Called("app")'
      BY <1>1, <2>1 DEF StreamTypes
    <3>2. Append(b, x) \in Seq(Bytes) /\ Append(b, x) \o c = b \o (<<x>> \o c)
      BY ONLY x \in Bytes, b \in Seq(Bytes), c \in Seq(Bytes), Shift
    <3>3. Len(Append(b, x)) = Len(b) + 1
      BY AppendProperties
    <3> QED BY <2>2, <3>1, <3>2, <3>3
  <2>4. StreamTypes'
    <3>1. todo' \in Seq(AppCalls) \/ todo' \in Seq(DebugCalls)
      BY <1>1, CalledNext
    <3> QED BY <1>1, <2>2, <2>3, <3>1 DEF StreamTypes
  <2>5. Limits'
    <3>1. Len(appTxBuf) \in Nat /\ BufferSize \in Nat /\ ~(Len(appTxBuf) >= BufferSize)
      BY <1>1, <1>4, LenProperties, StreamAssumption DEF StreamTypes, Buffer, ringBufFull
    <3> QED BY <1>1, <2>2, <2>3, <3>1 DEF Limits, Ready
  <2>6. sentApp' = sw.user \o (appTxBuf \o Called("app"))'
    BY <1>1, <1>2, <2>1, <2>2, <2>3
  <2>7. Settled(done, rest)'
    <3>1. Pending' = Pending
      BY <1>1, <2>1, <2>2 DEF Pending, Due, Ready
    <3> QED BY <1>1, <1>3, <3>1 DEF Settled
  <2> QED BY <1>1, <2>4, <2>5, <2>6, <2>7, Unsent
<1>5. CASE Head(todo).to # "app"
  <2>1. /\ Head(todo).to = "debug" /\ Head(todo).data \in Nat /\ Called("debug")' \in Seq(Nat)
        /\ Called("debug") = <<Head(todo).data>> \o Called("debug")'
        /\ Called("app") = <<>> /\ Called("app")' = <<>>
    BY <1>1, <1>5, CalledNext
  <2>2. debugTxBuf' = Append(debugTxBuf, Head(todo).data) /\ UNCHANGED appTxBuf
    BY <1>5 DEF Push
  <2>3. /\ Append(debugTxBuf, Head(todo).data) \in Seq(Nat)
        /\ Append(debugTxBuf, Head(todo).data) \o Called("debug")'
             = debugTxBuf \o (<<Head(todo).data>> \o Called("debug")')
        /\ Len(debugTxBuf') = Len(debugTxBuf) + 1
    <3>1. PICK x \in Nat, b \in Seq(Nat), c \in Seq(Nat) :
            x = Head(todo).data /\ b = debugTxBuf /\ c = Called("debug")'
      BY <1>1, <2>1 DEF StreamTypes
    <3>2. Append(b, x) \in Seq(Nat) /\ Append(b, x) \o c = b \o (<<x>> \o c)
      BY ONLY x \in Nat, b \in Seq(Nat), c \in Seq(Nat), NumbersShift
    <3>3. Len(Append(b, x)) = Len(b) + 1
      BY AppendProperties
    <3> QED BY <2>2, <3>1, <3>2, <3>3
  <2>4. StreamTypes'
    <3>1. todo' \in Seq(AppCalls) \/ todo' \in Seq(DebugCalls)
      BY <1>1, CalledNext
    <3> QED BY <1>1, <2>2, <2>3, <3>1 DEF StreamTypes
  <2>5. Limits'
    <3>1. Len(debugTxBuf) \in Nat /\ BufferSize \in Nat /\ ~(Len(debugTxBuf) >= BufferSize)
      BY <1>1, <2>1, LenProperties, StreamAssumption DEF StreamTypes, Buffer, ringBufFull
    <3> QED BY <1>1, <2>2, <2>3, <3>1 DEF Limits, Ready
  <2>6. sentApp' = sw.user \o (appTxBuf \o Called("app"))'
    BY <1>1, <1>2, <2>1, <2>2
  <2>7. Settled(done, rest)'
    <3>1. Pending' = Pending
      BY <1>1, <2>1, <2>2, <2>3 DEF Pending, Due, Ready
    <3> QED BY <1>1, <1>3, <3>1 DEF Settled
  <2> QED BY <1>1, <2>4, <2>5, <2>6, <2>7, Unsent
<1> QED BY <1>4, <1>5

\* A flush begins, or ends with nothing left.
LEMMA FlushTurns ==
  ASSUME StreamInv, wire = <<>>, Flush \/ EndFlush
  PROVE  StreamInv'
<1>1. /\ StreamTypes /\ Limits /\ (~flushing' => ~Ready)
      /\ UNCHANGED <<todo, appTxBuf, debugTxBuf, packetBuf, packetReady, txStream, sentApp,
                     sentPackets, wire, sw>>
  BY DEF StreamInv, Flush, EndFlush, quiet
<1>2. PICK done \in Seq(Seq(Bytes)), rest \in Seq(Seq(Bytes)) : Settled(done, rest)
  BY AtRest
<1>3. Called("app")' = Called("app") /\ Called("debug")' = Called("debug")
  BY <1>1 DEF Called, CallData
<1>4. StreamTypes'
  BY <1>1 DEF StreamTypes
<1>5. Limits'
  <2>1. flushing' \in BOOLEAN /\ (Ready' <=> Ready)
    BY <1>1 DEF Flush, EndFlush, Ready
  <2> QED BY <1>1, <2>1 DEF Limits
<1>6. sentApp' = sw.user \o (appTxBuf \o Called("app"))'
  BY <1>1, <1>3, AtRest
<1>7. Settled(done, rest)'
  <2>1. Pending' = Pending
    BY <1>1, <1>3 DEF Pending, Due, Ready
  <2> QED BY <1>1, <1>2, <2>1 DEF Settled
<1> QED BY <1>1, <1>4, <1>5, <1>6, <1>7, Unsent

\* What waits behind the next element of the buffer.
LEMMA PendingHead ==
  ASSUME StreamTypes, ~Ready, debugTxBuf # <<>>
  PROVE  /\ Head(debugTxBuf) \in Nat /\ Tail(debugTxBuf) \in Seq(Nat)
         /\ Len(Tail(debugTxBuf)) <= Len(debugTxBuf)
         /\ Tail(debugTxBuf) \o Called("debug") \in Seq(Nat)
         /\ Pending = packetBuf \o (<<Head(debugTxBuf)>> \o (Tail(debugTxBuf) \o Called("debug")))
<1>1. PICK d \in Nat, t \in Seq(Nat), c \in Seq(Nat), k \in Seq(Nat) :
        d = Head(debugTxBuf) /\ t = Tail(debugTxBuf) /\ c = Called("debug") /\ k = packetBuf
  <2>1. debugTxBuf \in Seq(Nat)
    BY DEF StreamTypes
  <2>2. Head(debugTxBuf) \in Nat /\ Tail(debugTxBuf) \in Seq(Nat)
    BY <2>1
  <2> QED BY <2>2, PendingTyped
<1>2. debugTxBuf = <<d>> \o t /\ Len(t) <= Len(debugTxBuf)
  <2>1. debugTxBuf \in Seq(Nat)
    BY DEF StreamTypes
  <2> QED BY <1>1, <2>1
<1>3. PICK e \in Seq(Nat) : e = <<d>>
  <2>1. <<d>> \in Seq(Nat)
    OBVIOUS
  <2> QED BY <2>1
<1>4. (e \o t) \o c = e \o (t \o c)
  BY ONLY e \in Seq(Nat), t \in Seq(Nat), c \in Seq(Nat), NumbersRegroup
<1>5. PICK f \in Seq(Nat) : f = t \o c
  BY ConcatProperties
<1>6. PICK g \in Seq(Nat) : g = e \o f
  BY ConcatProperties
<1>7. <<>> \o g = g
  BY ConcatEmptySeq
<1>8. Due = <<>>
  BY DEF Due
<1>9. Pending = packetBuf \o (<<>> \o ((e \o t) \o c))
  BY <1>1, <1>2, <1>3, <1>8 DEF Pending
<1> QED BY <1>1, <1>2, <1>3, <1>4, <1>5, <1>6, <1>7, <1>9

\* The first packet of a list is dealt with.
LEMMA FirstDone ==
  ASSUME NEW P, NEW done \in Seq(P), NEW rest \in Seq(P), rest # <<>>
  PROVE  /\ Append(done, Head(rest)) \in Seq(P) /\ Tail(rest) \in Seq(P)
         /\ done \o rest = Append(done, Head(rest)) \o Tail(rest)
<1>1. PICK h \in P, t \in Seq(P) : h = Head(rest) /\ t = Tail(rest)
  BY HeadTail
<1>2. rest = <<h>> \o t
  BY <1>1
<1>3. Append(done, h) \in Seq(P) /\ Append(done, h) \o t = done \o (<<h>> \o t)
  <2>1. PICK y \in Seq(P) : y = <<h>>
    <3>1. <<h>> \in Seq(P)
      OBVIOUS
    <3> QED BY <3>1
  <2>2. Append(done, h) \in Seq(P) /\ Append(done, h) = done \o y
    BY <2>1, AppendProperties, AppendIsConcat
  <2>3. (done \o y) \o t = done \o (y \o t)
    BY ONLY ConcatAssociative, done \in Seq(P), y \in Seq(P), t \in Seq(P)
  <2> QED BY <2>1, <2>2, <2>3
<1> QED BY <1>1, <1>2, <1>3

\* The packet buffer is filled, or emptied when it was too long.
LEMMA FillPacketStep ==
  ASSUME StreamInv, wire = <<>>, FillPacket
  PROVE  StreamInv'
<1> DEFINE d == Head(debugTxBuf)
           after == Tail(debugTxBuf) \o Called("debug")
<1>1. /\ StreamTypes /\ Limits /\ flushing /\ ~Ready /\ debugTxBuf # <<>>
      /\ debugTxBuf' = Tail(debugTxBuf)
      /\ UNCHANGED <<todo, flushing, appTxBuf, txStream, sentApp, sentPackets, wire, sw>>
  BY DEF StreamInv, FillPacket, CanFill, quiet
<1>2. /\ d \in Nat /\ debugTxBuf' \in Seq(Nat) /\ Len(debugTxBuf') <= Len(debugTxBuf)
      /\ after \in Seq(Nat) /\ Pending = packetBuf \o (<<d>> \o after)
  BY <1>1, PendingHead
<1>3. Called("app")' = Called("app") /\ Called("debug")' = Called("debug")
  BY <1>1 DEF Called, CallData
<1>4. sentApp' = sw.user \o (appTxBuf \o Called("app"))'
  BY <1>1, <1>3, AtRest
<1>5. PICK done \in Seq(Seq(Bytes)), rest \in Seq(Seq(Bytes)) : Settled(done, rest)
  BY AtRest
<1>6. /\ Pending' = packetBuf' \o (Due' \o after)
      /\ packetBuf \in Seq(Bytes) /\ packetBuf \in Seq(Nat) /\ packetReady = NoPacket
      /\ <<>> \o after = after
  <2>1. Pending' = packetBuf' \o (Due' \o after)
    BY <1>1, <1>3 DEF Pending
  <2>2. packetBuf \in Seq(Bytes) /\ packetBuf \in Seq(Nat) /\ packetReady = NoPacket
    BY <1>1, PendingTyped DEF StreamTypes, Ready
  <2>3. <<>> \o after = after
    BY <1>2, ConcatEmptySeq
  <2> QED BY <2>1, <2>2, <2>3
<1>7. Len(debugTxBuf') <= BufferSize /\ Len(appTxBuf') <= BufferSize
  <2>1. Len(debugTxBuf) \in Nat /\ Len(debugTxBuf') \in Nat /\ BufferSize \in Nat
    BY <1>1, <1>2, LenProperties, StreamAssumption DEF StreamTypes
  <2> QED BY <1>1, <1>2, <2>1 DEF Limits
<1> HIDE DEF d, after
<1>8. CASE ~IsDelimiter(d)
  <2>1. packetBuf' = Append(packetBuf, d) /\ UNCHANGED packetReady
    BY <1>8 DEF FillPacket, d
  <2>2. d \in Bytes
    BY <1>2, <1>8, Characters
  <2>3. StreamTypes'
    <3>1. packetBuf' \in Seq(Bytes)
      BY <1>6, <2>1, <2>2
    <3> QED BY <1>1, <1>2, <2>1, <3>1 DEF StreamTypes
  <2>4. Limits'
    BY <1>1, <1>7, <2>1 DEF Limits, Ready
  <2>5. Pending' = Pending
    <3>1. Due' = <<>>
      BY <1>6, <2>1 DEF Due, Ready
    <3>2. Append(packetBuf, d) \o after = packetBuf \o (<<d>> \o after)
      BY <1>2, <1>6, NumbersShift
    <3> QED BY <1>2, <1>6, <2>1, <3>1, <3>2
  <2>6. Settled(done, rest)'
    BY <1>1, <1>5, <2>5 DEF Settled
  <2> QED BY <1>1, <1>4, <2>3, <2>4, <2>6, Unsent
<1>9. CASE IsDelimiter(d) /\ Len(packetBuf) <= PacketMax
  <2>1. packetReady' = d - Delimiter(0) /\ UNCHANGED packetBuf
    BY <1>9 DEF FillPacket, d
  <2>2. packetReady' \in Nat /\ Delimiter(packetReady') = d
    BY <1>2, <1>9, <2>1, StreamAssumption DEF IsDelimiter, Delimiter
  <2>3. StreamTypes'
    BY <1>1, <1>2, <2>1, <2>2 DEF StreamTypes
  <2>4. Limits'
    BY <1>1, <1>7, <1>9, <2>1 DEF Limits, Ready
  <2>5. Pending' = Pending
    <3>1. Due' = <<d>>
      BY <2>2 DEF Due, Ready, NoPacket
    <3> QED BY <1>2, <1>6, <2>1, <3>1
  <2>6. Settled(done, rest)'
    BY <1>1, <1>5, <2>5 DEF Settled
  <2> QED BY <1>1, <1>4, <2>3, <2>4, <2>6, Unsent
<1>10. CASE IsDelimiter(d) /\ ~(Len(packetBuf) <= PacketMax)
  <2> DEFINE P == Seq(Bytes)
  <2>1. packetBuf' = <<>> /\ UNCHANGED packetReady
    BY <1>10 DEF FillPacket, d
  <2>2. StreamTypes'
    BY <1>1, <1>2, <2>1 DEF StreamTypes
  <2>3. Limits'
    BY <1>1, <1>7, <2>1 DEF Limits, Ready
  <2>4. Pending' = after
    <3>1. Due' = <<>>
      BY <1>6, <2>1 DEF Due, Ready
    <3> QED BY <1>6, <2>1, <3>1
  <2>5. /\ rest # <<>> /\ Head(rest) = packetBuf /\ Tail(rest) \in Seq(P)
        /\ Holds(after, Tail(rest))
    BY <1>2, <1>5, <1>6, <1>10, HoldsFirst DEF Settled
  <2>6. packetBuf \in P /\ done \in Seq(P) /\ rest \in Seq(P)
    BY <1>6
  <2> HIDE DEF P
  <2>7. /\ Append(done, packetBuf) \in Seq(P)
        /\ sentPackets' = Append(done, packetBuf) \o Tail(rest)
    BY <1>1, <1>5, <2>5, <2>6, FirstDone DEF Settled
  <2>8. OfLength(Append(done, packetBuf), 1..PacketMax) = NonEmpty(sw.packets)
    <3>1. OneIf(packetBuf, 1..PacketMax) = <<>>
      BY <1>10, StreamAssumption DEF OneIf
    <3>2. /\ OfLength(done, 1..PacketMax) \in Seq(P)
          /\ OfLength(Append(done, packetBuf), 1..PacketMax)
               = OfLength(done, 1..PacketMax) \o OneIf(packetBuf, 1..PacketMax)
      BY <2>6, OfLengthAppend
    <3> QED BY <1>5, <3>1, <3>2, ConcatEmptySeq DEF Settled
  <2>9. PICK more \in Seq(P), left \in Seq(P) : more = Append(done, packetBuf) /\ left = Tail(rest)
    BY <2>5, <2>7
  <2>10. Settled(more, left)'
    BY <1>1, <2>4, <2>5, <2>7, <2>8, <2>9 DEF Settled
  <2>11. more \in Seq(Seq(Bytes)) /\ left \in Seq(Seq(Bytes))
    BY <2>9 DEF P
  <2> QED BY <1>1, <1>4, <2>2, <2>3, <2>10, <2>11, Unsent
<1> QED BY <1>8, <1>9, <1>10

\* An application byte is written.
LEMMA SendAppStep ==
  ASSUME StreamInv, wire = <<>>, SendApp
  PROVE  StreamInv'
<1>1. /\ StreamTypes /\ Limits /\ appTxBuf # <<>> /\ appTxBuf' = Tail(appTxBuf)
      /\ txStream' = "user"
      /\ wire' = (IF txStream # "user" THEN <<CHAR_SEL_APP>> ELSE <<>>) \o Escaped(Head(appTxBuf))
      /\ UNCHANGED <<todo, flushing, debugTxBuf, packetBuf, packetReady, sentApp, sentPackets, sw>>
  BY DEF StreamInv, SendApp, CanPad, Write
<1>2. PICK b \in Bytes, t \in Seq(Bytes), u \in Seq(Bytes), c \in Seq(Bytes) :
        b = Head(appTxBuf) /\ t = Tail(appTxBuf) /\ u = sw.user /\ c = Called("app")
  <2>1. appTxBuf \in Seq(Bytes) /\ sw.user \in Seq(Bytes)
    BY <1>1 DEF StreamTypes, Switches
  <2>2. Head(appTxBuf) \in Bytes /\ Tail(appTxBuf) \in Seq(Bytes)
    BY <1>1, <2>1
  <2> QED BY <1>1, <2>1, <2>2, CalledTyped
<1>3. appTxBuf = <<b>> \o t /\ Len(t) <= Len(appTxBuf)
  <2>1. appTxBuf \in Seq(Bytes)
    BY <1>1 DEF StreamTypes
  <2> QED BY <1>1, <1>2, <2>1
<1>4. Called("app")' = c /\ Called("debug")' = Called("debug")
  BY <1>1, <1>2 DEF Called, CallData
<1>5. StreamTypes'
  BY <1>1, <1>2 DEF StreamTypes
<1>6. Limits'
  <2>1. Len(t) \in Nat /\ Len(appTxBuf) \in Nat /\ BufferSize \in Nat
    BY <1>1, LenProperties, StreamAssumption DEF StreamTypes
  <2>2. Len(t) <= BufferSize
    BY <1>1, <1>3, <2>1 DEF Limits
  <2> QED BY <1>1, <1>2, <2>2 DEF Limits, Ready
<1>7. NothingSent
  BY AtRest
<1>8. ByteSent(b)'
  <2>1. CASE txStream # "user"
    BY <1>1, <1>2, <1>7, <2>1 DEF NothingSent, ByteSent
  <2>2. CASE txStream = "user"
    <3>1. Escaped(b) \in Seq(Bytes)
      BY EscapedByte
    <3>2. wire' = Escaped(b)
      BY <1>1, <1>2, <2>2, <3>1, ConcatEmptySeq
    <3> QED BY <1>1, <1>7, <2>2, <3>2 DEF NothingSent, ByteSent
  <2> QED BY <2>1, <2>2
<1>9. PICK one \in Seq(Bytes) : one = <<b>>
  <2>1. <<b>> \in Seq(Bytes)
    OBVIOUS
  <2> QED BY <2>1
<1>10. Carries(one, <<>>)'
  BY <1>8, <1>9 DEF Carries
<1>11. sentApp' = sw'.user \o (one \o (appTxBuf' \o Called("app")'))
  <2>1. (one \o t) \o c = one \o (t \o c)
    BY ONLY one \in Seq(Bytes), t \in Seq(Bytes), c \in Seq(Bytes), ConcatAssociative
  <2>2. sentApp = sw.user \o (appTxBuf \o Called("app"))
    BY AtRest
  <2> QED BY <1>1, <1>2, <1>3, <1>4, <1>9, <2>1, <2>2
<1>12. PICK done \in Seq(Seq(Bytes)), rest \in Seq(Seq(Bytes)) : Settled(done, rest)
  BY AtRest
<1>13. /\ sentPackets' = done \o rest
       /\ OfLength(done, 1..PacketMax) = NonEmpty(sw'.packets) \o NonEmpty(<<>>)
       /\ Holds(Pending', rest)
  <2>1. Pending' = Pending
    BY <1>1, <1>4 DEF Pending, Due, Ready
  <2>2. NonEmpty(sw.packets) \o NonEmpty(<<>>) = NonEmpty(sw.packets)
    <3>1. sw.packets \in Seq(Seq(Bytes)) /\ <<>> \in Seq(Bytes)
      BY <1>1 DEF StreamTypes, Switches
    <3>2. NonEmpty(<<>>) = <<>> /\ NonEmpty(sw.packets) \o <<>> = NonEmpty(sw.packets)
      BY ONLY <3>1, PacketCounted
    <3> QED BY <3>2
  <2> QED BY <1>1, <1>12, <2>1, <2>2 DEF Settled
<1>14. Delivery(one, <<>>)'
  BY <1>10, <1>11, <1>13 DEF Delivery
<1>15. <<>> \in Seq(Seq(Bytes))
  OBVIOUS
<1> QED BY <1>5, <1>6, <1>14, <1>15 DEF StreamInv

\* Padding is written.
LEMMA PadStep ==
  ASSUME StreamInv, wire = <<>>, Pad
  PROVE  StreamInv'
<1>1. /\ StreamTypes /\ Limits /\ txStream' = "user" /\ wire' = <<CHAR_SEL_APP>>
      /\ UNCHANGED <<todo, flushing, appTxBuf, debugTxBuf, packetBuf, packetReady, sentApp,
                     sentPackets, sw>>
  BY DEF StreamInv, Pad, Write
<1>2. Called("app")' = Called("app") /\ Called("debug")' = Called("debug")
  BY <1>1 DEF Called, CallData
<1>3. StreamTypes'
  BY <1>1 DEF StreamTypes
<1>4. Limits'
  BY <1>1 DEF Limits, Ready
<1>5. Carries(<<>>, <<>>)'
  <2>1. PadSent'
    BY <1>1, AtRest DEF NothingSent, PadSent
  <2> QED BY <2>1 DEF Carries
<1>6. sentApp' = sw'.user \o (<<>> \o (appTxBuf' \o Called("app")'))
  <2>1. /\ appTxBuf \in Seq(Bytes) /\ Called("app") \in Seq(Bytes)
        /\ sentApp = sw.user \o (appTxBuf \o Called("app"))
    BY <1>1, CalledTyped, AtRest DEF StreamTypes
  <2>2. <<>> \o (appTxBuf \o Called("app")) = appTxBuf \o Called("app")
    BY <2>1, Regroup
  <2> QED BY <1>1, <1>2, <2>1, <2>2
<1>7. PICK done \in Seq(Seq(Bytes)), rest \in Seq(Seq(Bytes)) : Settled(done, rest)
  BY AtRest
<1>8. /\ sentPackets' = done \o rest
      /\ OfLength(done, 1..PacketMax) = NonEmpty(sw'.packets) \o NonEmpty(<<>>)
      /\ Holds(Pending', rest)
  <2>1. Pending' = Pending
    BY <1>1, <1>2 DEF Pending, Due, Ready
  <2>2. NonEmpty(sw.packets) \o NonEmpty(<<>>) = NonEmpty(sw.packets)
    <3>1. sw.packets \in Seq(Seq(Bytes)) /\ <<>> \in Seq(Bytes)
      BY <1>1 DEF StreamTypes, Switches
    <3>2. NonEmpty(<<>>) = <<>> /\ NonEmpty(sw.packets) \o <<>> = NonEmpty(sw.packets)
      BY ONLY <3>1, PacketCounted
    <3> QED BY <3>2
  <2> QED BY <1>1, <1>7, <2>1, <2>2 DEF Settled
<1>9. Delivery(<<>>, <<>>)'
  BY <1>5, <1>6, <1>8 DEF Delivery
<1>10. <<>> \in Seq(Bytes) /\ <<>> \in Seq(Seq(Bytes))
  OBVIOUS
<1> QED BY <1>3, <1>4, <1>9, <1>10 DEF StreamInv

\* A packet is written.
LEMMA SendPacketStep ==
  ASSUME StreamInv, wire = <<>>, SendPacket
  PROVE  StreamInv'
<1> DEFINE P == Seq(Bytes)
<1>1. /\ StreamTypes /\ Limits /\ Ready /\ packetReady' = NoPacket /\ packetBuf' = <<>>
      /\ wire' = ((IF txStream # "debug" THEN <<CHAR_SEL_DEBUG>> ELSE <<>>)
                  \o EscapedAll(packetBuf)) \o Terminator(debugTxBuf # <<>>)
      /\ txStream' = IF debugTxBuf # <<>> THEN "debug" ELSE "user"
      /\ UNCHANGED <<todo, flushing, appTxBuf, debugTxBuf, sentApp, sentPackets, sw>>
  BY DEF StreamInv, SendPacket
<1>2. PICK q \in P, x \in Nat, c \in Seq(Nat) :
        /\ q = packetBuf /\ x = Delimiter(packetReady) /\ IsDelimiter(x)
        /\ c = debugTxBuf \o Called("debug")
  BY <1>1, Characters, PendingTyped DEF StreamTypes, Ready
<1>3. Called("app")' = Called("app") /\ Called("debug")' = Called("debug")
  BY <1>1 DEF Called, CallData
<1>4. StreamTypes'
  BY <1>1 DEF StreamTypes
<1>5. Limits'
  BY <1>1 DEF Limits, Ready
<1>6. NothingSent
  BY AtRest
<1>7. PacketSent(q)'
  <2>1. /\ Ending' = Terminator(debugTxBuf # <<>>)
        /\ txStream \in {"user", "debug"}
    BY <1>1 DEF Ending, Terminator, StreamTypes
  <2>2. PICK e \in Seq(Bytes), m \in Seq(Bytes) : e = Ending' /\ m = EscapedAll(q)
    <3>1. Terminator(debugTxBuf # <<>>) \in Seq(Bytes)
      BY Characters DEF Terminator
    <3> QED BY <2>1, <3>1, EscapedTyped
  <2>3. CASE txStream = "user"
    <3>1. <<CHAR_SEL_DEBUG>> \in Seq(Bytes)
      BY Characters
    <3>2. PICK y \in Seq(Bytes) : y = <<CHAR_SEL_DEBUG>>
      BY <3>1
    <3>3. (y \o m) \o e = y \o (m \o e)
      BY ONLY y \in Seq(Bytes), m \in Seq(Bytes), e \in Seq(Bytes), ConcatAssociative
    <3>4. wire' = y \o (m \o e)
      BY <1>1, <1>2, <2>1, <2>2, <2>3, <3>2, <3>3
    <3> QED BY <1>1, <1>6, <2>2, <2>3, <3>2, <3>4 DEF NothingSent, PacketSent
  <2>4. CASE txStream = "debug"
    <3>1. <<>> \o m = m /\ q = <<>> \o q
      BY ConcatEmptySeq
    <3>2. wire' = m \o e
      BY <1>1, <1>2, <2>1, <2>2, <2>4, <3>1
    <3> QED BY <1>1, <1>6, <2>2, <2>4, <3>1, <3>2 DEF NothingSent, PacketSent
  <2> QED BY <2>1, <2>3, <2>4
<1>8. PICK one \in Seq(P) : one = <<q>>
  <2>1. <<q>> \in Seq(P)
    OBVIOUS
  <2> QED BY <2>1
<1>9. Carries(<<>>, one)'
  BY <1>7, <1>8 DEF Carries
<1>10. sentApp' = sw'.user \o (<<>> \o (appTxBuf' \o Called("app")'))
  <2>1. /\ appTxBuf \in Seq(Bytes) /\ Called("app") \in Seq(Bytes)
        /\ sentApp = sw.user \o (appTxBuf \o Called("app"))
    BY <1>1, CalledTyped, AtRest DEF StreamTypes
  <2>2. <<>> \o (appTxBuf \o Called("app")) = appTxBuf \o Called("app")
    BY <2>1, Regroup
  <2> QED BY <1>1, <1>3, <2>1, <2>2
<1>11. PICK done \in Seq(P), rest \in Seq(P) : Settled(done, rest)
  BY AtRest
<1>12. rest # <<>> /\ Head(rest) = q /\ Tail(rest) \in Seq(P) /\ Holds(c, Tail(rest))
  <2>1. Pending = q \o (<<x>> \o c)
    BY <1>1, <1>2 DEF Pending, Due
  <2> QED BY <1>2, <1>11, <2>1, HoldsFirst DEF Settled
<1>13. Pending' = c
  <2>1. Due' = <<>>
    BY <1>1 DEF Due, Ready
  <2>2. <<>> \o c = c
    BY ConcatEmptySeq
  <2> QED BY <1>1, <1>2, <1>3, <2>1, <2>2 DEF Pending
<1>14. Len(q) \in Nat /\ Len(q) <= PacketMax /\ PacketMax \in Nat
  BY <1>1, <1>2, LenProperties, StreamAssumption DEF Limits
<1>15. sw.packets \in Seq(P)
  BY <1>1 DEF StreamTypes, Switches
<1> HIDE DEF P
<1>16. PICK more \in Seq(P), left \in Seq(P) :
         more = Append(done, q) /\ left = Tail(rest) /\ sentPackets' = more \o left
  BY <1>1, <1>11, <1>12, FirstDone DEF Settled
<1>17. OfLength(more, 1..PacketMax) = NonEmpty(sw'.packets) \o NonEmpty(one)
  <2>1. OfLength(more, 1..PacketMax) = OfLength(done, 1..PacketMax) \o OneIf(q, 1..PacketMax)
    <3> DEFINE lengths == 1..PacketMax
    <3> HIDE DEF lengths
    <3>1. OfLength(Append(done, q), lengths) = OfLength(done, lengths) \o OneIf(q, lengths)
      BY OfLengthAppend
    <3> QED BY <1>16, <3>1 DEF lengths
  <2>2. OneIf(q, 1..PacketMax) = OneIf(q, Nat \ {0})
    BY <1>14 DEF OneIf
  <2>3. NonEmpty(one) = OneIf(q, Nat \ {0})
    BY <1>8, OfLengthOne DEF NonEmpty
  <2> QED BY <1>1, <1>11, <2>1, <2>2, <2>3 DEF Settled
<1>18. Delivery(<<>>, one)'
  <2>1. more \in Seq(Seq(Bytes)) /\ left \in Seq(Seq(Bytes))
    BY DEF P
  <2>2. Holds(Pending', left)
    BY <1>12, <1>13, <1>16
  <2> QED BY <1>9, <1>10, <1>16, <1>17, <2>1, <2>2 DEF Delivery
<1>19. <<>> \in Seq(Bytes) /\ one \in Seq(Seq(Bytes))
  BY DEF P
<1> QED BY <1>4, <1>5, <1>18, <1>19 DEF StreamInv

\* The hardware takes a character.
LEMMA DeliverStep ==
  ASSUME StreamInv, Deliver
  PROVE  StreamInv'
<1>1. /\ StreamTypes /\ Limits
      /\ UNCHANGED <<todo, flushing, appTxBuf, debugTxBuf, packetBuf, packetReady, txStream,
                     sentApp, sentPackets>>
  BY DEF StreamInv, Deliver
<1>2. PICK a \in Seq(Bytes), p \in Seq(Seq(Bytes)) : Delivery(a, p)
  BY DEF StreamInv
<1>3. /\ sw' \in Switches
      /\ \E b \in Seq(Bytes), r \in Seq(Seq(Bytes)) : Arrives(a, p, b, r)
  BY <1>1, <1>2, CarriedArrives DEF Delivery
<1>4. PICK b \in Seq(Bytes), r \in Seq(Seq(Bytes)) : Arrives(a, p, b, r)
  BY <1>3
<1>5. Called("app")' = Called("app") /\ Called("debug")' = Called("debug")
  BY <1>1 DEF Called, CallData
<1>6. Pending' = Pending
  BY <1>1, <1>5 DEF Pending, Due, Ready
<1>7. StreamTypes'
  BY <1>1, <1>3 DEF StreamTypes
<1>8. Limits'
  BY <1>1 DEF Limits, Ready
<1>9. sentApp' = sw'.user \o (b \o (appTxBuf' \o Called("app")'))
  <2>1. PICK u \in Seq(Bytes), v \in Seq(Bytes), c \in Seq(Bytes) :
          u = sw.user /\ v = sw'.user /\ c = appTxBuf \o Called("app")
    <3>1. sw.user \in Seq(Bytes) /\ sw'.user \in Seq(Bytes)
      BY <1>1, <1>3 DEF StreamTypes, Switches
    <3>2. appTxBuf \o Called("app") \in Seq(Bytes)
      BY <1>1, CalledTyped, ConcatProperties DEF StreamTypes
    <3> QED BY <3>1, <3>2
  <2>2. \A x, y, z \in Seq(Bytes) : (x \o y) \o z = x \o (y \o z)
    BY ONLY BytesRegroup
  <2>3. u \o (a \o c) = (u \o a) \o c /\ v \o (b \o c) = (v \o b) \o c
    BY ONLY <2>2, u \in Seq(Bytes), v \in Seq(Bytes), a \in Seq(Bytes), b \in Seq(Bytes),
            c \in Seq(Bytes)
  <2>4. v \o b = u \o a
    BY <1>4, <2>1 DEF Arrives
  <2>5. sentApp = u \o (a \o c)
    BY <1>2, <2>1 DEF Delivery
  <2> QED BY <1>1, <1>5, <2>1, <2>3, <2>4, <2>5
<1>10. PICK done \in Seq(Seq(Bytes)), rest \in Seq(Seq(Bytes)) :
         /\ sentPackets = done \o rest
         /\ OfLength(done, 1..PacketMax) = NonEmpty(sw.packets) \o NonEmpty(p)
         /\ Holds(Pending, rest)
  BY <1>2 DEF Delivery
<1>11. /\ Carries(b, r)'
       /\ NonEmpty(sw'.packets) \o NonEmpty(r) = NonEmpty(sw.packets) \o NonEmpty(p)
  BY <1>4 DEF Arrives
<1>12. Delivery(b, r)'
  BY <1>1, <1>6, <1>9, <1>10, <1>11 DEF Delivery
<1> QED BY <1>7, <1>8, <1>12 DEF StreamInv

THEOREM StreamInvariant == Spec => []StreamInv
<1>1. Init => StreamInv
  <2> SUFFICES ASSUME TxInit PROVE StreamInv
    BY DEF Init
  <2>1. /\ <<>> \in Seq(Bytes) /\ <<>> \in Seq(Nat) /\ <<>> \in Seq(Seq(Bytes))
        /\ <<>> \in Seq(AppCalls) /\ Len(<<>>) = 0 /\ <<>> \o <<>> = <<>>
    OBVIOUS
  <2>2. sw \in Switches /\ sw.user = <<>> /\ sw.packets = <<>> /\ NothingSent
    BY <2>1 DEF TxInit, Switch0, Switches, NothingSent
  <2>3. StreamTypes
    BY <2>1, <2>2 DEF TxInit, StreamTypes
  <2>4. Limits
    BY <2>1, StreamAssumption DEF TxInit, Limits, Ready
  <2>5. Called("app") = <<>> /\ Called("debug") = <<>> /\ Due = <<>> /\ Pending = <<>>
    BY <2>1 DEF TxInit, Called, Due, Ready, Pending
  <2>6. Holds(<<>>, <<>>)
    <3> DEFINE cut == [i \in 0 .. 0 |-> 0]
    <3>1. Cuts(<<>>, <<>>, cut)
      BY <2>1 DEF Cuts
    <3> QED BY <3>1, HoldsCuts
  <2>7. NonEmpty(<<>>) = <<>> /\ OfLength(<<>>, 1..PacketMax) = <<>>
    BY DEF NonEmpty, OfLength, FlattenSeq
  <2>8. Carries(<<>>, <<>>)
    BY <2>2 DEF Carries
  <2>9. sentApp = <<>> /\ sentPackets = <<>> /\ appTxBuf = <<>>
    BY DEF TxInit
  <2>10. Delivery(<<>>, <<>>)
    BY <2>1, <2>2, <2>5, <2>6, <2>7, <2>8, <2>9 DEF Delivery
  <2> QED BY <2>1, <2>3, <2>4, <2>10 DEF StreamInv
<1>2. StreamInv /\ [Next]_vars => StreamInv'
  <2> SUFFICES ASSUME StreamInv, [Next]_vars
               PROVE  StreamInv'
    OBVIOUS
  <2>1. CASE UNCHANGED txVars
    <3>1. /\ UNCHANGED <<todo, flushing, appTxBuf, debugTxBuf, packetBuf, packetReady, txStream>>
          /\ UNCHANGED <<wire, sw, sentApp, sentPackets>>
      BY <2>1 DEF txVars
    <3>2. StreamTypes' /\ Limits'
      BY <3>1 DEF StreamInv, StreamTypes, Limits, Ready
    <3>3. PICK a \in Seq(Bytes), p \in Seq(Seq(Bytes)) : Delivery(a, p)
      BY DEF StreamInv
    <3>4. Carries(a, p)'
      <4>1. Carries(a, p)
        BY <3>3 DEF Delivery
      <4>2. (NothingSent => NothingSent') /\ (PadSent => PadSent')
        BY <3>1 DEF NothingSent, PadSent
      <4>3. \A b \in Bytes : ByteSent(b) => ByteSent(b)'
        BY <3>1 DEF ByteSent
      <4>4. \A q \in Seq(Bytes) : PacketSent(q) => PacketSent(q)'
        BY <3>1 DEF PacketSent, Ending
      <4> QED BY <4>1, <4>2, <4>3, <4>4 DEF Carries
    <3>5. Called("app")' = Called("app") /\ Called("debug")' = Called("debug")
      BY <3>1 DEF Called, CallData
    <3>6. Pending' = Pending
      BY <3>1, <3>5 DEF Pending, Due, Ready
    <3>7. Delivery(a, p)'
      BY <3>1, <3>3, <3>4, <3>5, <3>6 DEF Delivery
    <3> QED BY <3>2, <3>7 DEF StreamInv
  <2>2. CASE TxNext
    <3>1. ASSUME NEW b \in AppBytes, AppSend(b) PROVE StreamInv'
      BY <3>1, AppSendStep
    <3>2. ASSUME NEW p \in Commands, transmitPacket(p) PROVE StreamInv'
      BY <3>2, TransmitPacketStep
    <3>3. CASE wire = <<>> /\ Push
      BY <3>3, PushStep
    <3>4. CASE wire = <<>> /\ (Flush \/ EndFlush)
      BY <3>4, FlushTurns
    <3>5. CASE wire = <<>> /\ FillPacket
      BY <3>5, FillPacketStep
    <3>6. CASE wire = <<>> /\ SendApp
      BY <3>6, SendAppStep
    <3>7. CASE wire = <<>> /\ Pad
      BY <3>7, PadStep
    <3>8. CASE wire = <<>> /\ SendPacket
      BY <3>8, SendPacketStep
    <3>9. CASE Deliver
      BY <3>9, DeliverStep
    <3> QED BY <2>2, <3>1, <3>2, <3>3, <3>4, <3>5, <3>6, <3>7, <3>8, <3>9
         DEF TxNext, FlushStep
  <2> QED BY <2>1, <2>2 DEF Next, vars
<1> QED BY <1>1, <1>2, PTL DEF Spec

\* serial.c and periph_uart_switch.vhd: the hardware gets the application stream
\* and the packets that fit unchanged and in order, wherever the flushes cut
\* them, all of them once everything is flushed; and no ring buffer is filled
\* over its end.
THEOREM StreamsArrive == Spec => []StreamsDelivered
<1>1. StreamInv => StreamsDelivered
  <2> SUFFICES ASSUME StreamInv PROVE StreamsDelivered
    OBVIOUS
  <2> DEFINE P == Seq(Bytes)
             fits == 1..PacketMax
  <2>1. /\ sw.user \in Seq(Bytes) /\ sw.packets \in Seq(P) /\ packetBuf \in Seq(Bytes)
        /\ appTxBuf \in Seq(Bytes) /\ Called("app") \in Seq(Bytes)
    BY CalledTyped DEF StreamInv, StreamTypes, Switches
  <2>2. PICK a \in Seq(Bytes), p \in Seq(P) : Delivery(a, p)
    BY DEF StreamInv
  <2>3. IsPrefix(sw.user, sentApp)
    <3>1. PICK later \in Seq(Bytes) : later = a \o (appTxBuf \o Called("app"))
      <4>1. appTxBuf \o Called("app") \in Seq(Bytes)
        BY <2>1, ConcatProperties
      <4> QED BY <4>1, ConcatProperties
    <3>2. sentApp = sw.user \o later
      BY <2>2, <3>1 DEF Delivery
    <3> QED BY <2>1, <3>2, PrefixOfConcat
  <2>4. PICK done \in Seq(P), rest \in Seq(P) :
          /\ sentPackets = done \o rest
          /\ OfLength(done, fits) = NonEmpty(sw.packets) \o NonEmpty(p)
    BY <2>2 DEF Delivery
  <2>5. NonEmpty(sw.packets) \in Seq(P) /\ NonEmpty(p) \in Seq(P)
    <3>1. <<>> \in Seq(Bytes)
      OBVIOUS
    <3>2. NonEmpty(sw.packets) \in Seq(Seq(Bytes))
      BY <2>1, <3>1, PacketCounted
    <3>3. NonEmpty(p) \in Seq(Seq(Bytes))
      BY <3>1, PacketCounted
    <3> QED BY <3>2, <3>3
  <2>6. IsPrefix(NonEmpty(sw.packets), OfLength(sentPackets, fits))
    <3> HIDE DEF P, fits
    <3>1. IsPrefix(NonEmpty(sw.packets), OfLength(done, fits))
      BY <2>4, <2>5, PrefixOfConcat
    <3>2. IsPrefix(NonEmpty(sw.packets), OfLength(done \o rest, fits))
      BY <2>5, <3>1, OfLengthPrefix
    <3> QED BY <2>4, <3>2
  <2>7. ASSUME Idle, appTxBuf = <<>>, debugTxBuf = <<>>
        PROVE  /\ sw.user = sentApp /\ NonEmpty(sw.packets) = OfLength(sentPackets, fits)
               /\ sw.stream = txStream
    <3>1. wire = <<>> /\ todo = <<>> /\ ~flushing /\ ~Ready
      BY <2>7 DEF Idle, StreamInv, Limits
    <3>2. NothingSent /\ sentApp = sw.user \o (appTxBuf \o Called("app"))
      BY <3>1, AtRest
    <3>3. PICK gone \in Seq(P), left \in Seq(P) : Settled(gone, left)
      BY <3>1, AtRest
    <3>4. Called("app") = <<>> /\ Called("debug") = <<>> /\ Due = <<>> /\ <<>> \o <<>> = <<>>
      BY <3>1 DEF Called, Due
    <3>5. sw.user = sentApp
      BY <2>1, <2>7, <3>2, <3>4, ConcatEmptySeq
    <3>6. Pending = packetBuf
      BY <2>1, <2>7, <3>4, ConcatEmptySeq DEF Pending
    <3>7. left = <<>>
      BY <2>1, <3>3, <3>6, HoldsNothing DEF Settled
    <3>8. sentPackets = gone
      BY <3>3, <3>7, ConcatEmptySeq DEF Settled
    <3> QED BY <3>2, <3>3, <3>5, <3>8 DEF NothingSent, Settled
  <2> QED BY <2>3, <2>6, <2>7 DEF StreamsDelivered, StreamInv, Limits
<1> QED BY <1>1, StreamInvariant, PTL

=============================================================================
