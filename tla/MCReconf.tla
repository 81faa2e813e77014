------------------------------ MODULE MCReconf ------------------------------
(* The reconfiguration unit of a core with four lane groups.               *)
EXTENDS MCCfgCtrl, Reconf

\* Every word over four groups with the nibbles below, reserved disable
\* encodings (9) included.
MCNibbles == {0, 1, 2, 3, 8, 9}
MCDecoderWords ==
  {[i \in 0..7 |-> IF i \in Groups THEN f[i] ELSE 0] : f \in [0..3 -> MCNibbles]}
=============================================================================
