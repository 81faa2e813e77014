---------------------------- MODULE MCErrorFlag -----------------------------
(* The error flag of a core with four lane groups.                         *)
EXTENDS MCCfgCtrl, ErrorFlag
=============================================================================
