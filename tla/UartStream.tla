----------------------------- MODULE UartStream -----------------------------
(***************************************************************************)
(* The characters that multiplex the application stream and the debug      *)
(* packets onto one serial line (serial.c, periph_uart_switch.vhd), and    *)
(* the receiving half of the hardware's stream switch.                     *)
(***************************************************************************)
EXTENDS Integers, Sequences, SequencesExt

CONSTANTS
  ByteMax,      \* 255; any 2^w - 1 with room for three control characters
  BufferSize,   \* SERIAL_BUFFER_SIZE
  PacketMax     \* the size of a packet buffer, at both ends (32)

ASSUME StreamAssumption ==
  /\ ByteMax \in Nat /\ ByteMax >= 7
  /\ BufferSize \in Nat \ {0}
  /\ PacketMax \in Nat /\ PacketMax >= 2

Bytes == 0..ByteMax

\* The buffers for the debug stream hold delimiters between the packets; the
\* ones rvsrv sends ask for a delay.
Delimiter(delay) == ByteMax + 1 + delay

CHAR_SEL_APP   == ByteMax - 1
CHAR_SEL_DEBUG == ByteMax - 2
CHAR_ESCAPE    == ByteMax - 3

Complement(b)  == ByteMax - b
NeedsEscape(b) == b \in {CHAR_SEL_APP, CHAR_SEL_DEBUG, CHAR_ESCAPE}

\* bufferedWriteData: what is sent for a data byte.
Escaped(b) == IF NeedsEscape(b) THEN <<CHAR_ESCAPE, Complement(b)>> ELSE <<b>>

EscapedAll(bytes) == FlattenSeq([i \in DOMAIN bytes |-> Escaped(bytes[i])])

-----------------------------------------------------------------------------
(* The switch's receiver: currentStream, escaping, and what it hands on to   *)
(* the user and, packet by packet, to the packet control unit.               *)

Switch0 == [stream |-> "user", escaping |-> FALSE, partial |-> <<>>,
            user |-> <<>>, packets |-> <<>>]

\* rxEndPacket is raised at either control character if debug was selected.
EndPacket(sw) ==
  IF sw.stream = "debug"
  THEN [sw EXCEPT !.packets = Append(@, sw.partial), !.partial = <<>>]
  ELSE sw

SwitchData(sw, b) ==
  IF sw.stream = "debug" THEN [sw EXCEPT !.partial = Append(@, b)]
                         ELSE [sw EXCEPT !.user = Append(@, b)]

\* One received character.
rx_proc(sw, ch) ==
  LET next == CASE ch = CHAR_SEL_APP   -> [EndPacket(sw) EXCEPT !.stream = "user"]
                [] ch = CHAR_SEL_DEBUG -> [EndPacket(sw) EXCEPT !.stream = "debug"]
                [] ch = CHAR_ESCAPE    -> sw
                [] OTHER -> SwitchData(sw, IF sw.escaping THEN Complement(ch) ELSE ch)
  IN [next EXCEPT !.escaping = (ch = CHAR_ESCAPE)]
=============================================================================
