----------------------------- MODULE SerialPort -----------------------------
(***************************************************************************)
(* Both directions of the serial port.  They share no state, so that a     *)
(* behaviour shows all there is to see with one of them at work.           *)
(***************************************************************************)
EXTENDS SerialTransmit, SerialReceive

VARIABLE direction

vars == <<direction, txVars, rxVars>>

Init == direction \in {"out", "in"} /\ TxInit /\ RxInit

Next ==
  /\ \/ direction = "out" /\ TxNext /\ UNCHANGED rxVars
     \/ direction = "in" /\ RxNext /\ UNCHANGED txVars
  /\ UNCHANGED direction

Spec == Init /\ [][Next]_vars

\* serial_flush does not stop on its way, the UART sends what it is asked to,
\* and the main loop goes round.
FairSpec ==
  /\ Spec
  /\ WF_vars(Next /\ FlushStep)
  /\ WF_vars(Next /\ Transmit)
  /\ WF_vars(Next /\ Host)
=============================================================================
