---------------------------- MODULE MCSerialPort ----------------------------
(* Instances of the serial port for model checking.  Bytes have three bits: *)
(* 6, 5 and 4 are the control characters, 1, 2 and 3 their complements.     *)
EXTENDS SerialPort

\* A packet with a control character and no delay, one with a long delay, and
\* one that is too long.
MCCommands ==
  {[bytes |-> <<0, 4>>, delay |-> 0], [bytes |-> <<6, 1>>, delay |-> 6],
   [bytes |-> <<0, 1, 2, 3>>, delay |-> 2]}

MCReplies == {<<0, 0>>, <<4, 4>>, <<2, 3, 5>>}
=============================================================================
