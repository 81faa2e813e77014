----------------------------- MODULE ErrorFlag ------------------------------
(***************************************************************************)
(* The reconfiguration controller with a note of how the last request      *)
(* ended, to compare the error flag software reads (GSR.E) with what is    *)
(* documented of it.                                                       *)
(***************************************************************************)
EXTENDS CfgCtrl

VARIABLE failed   \* history: the last request was for an invalid configuration

flagVars == <<failed, vars>>

FlagInit == Init /\ failed = FALSE

\* A request starts valid; it fails when the mask or the decoder refuses it.
FlagNext ==
  \/ (RejectRequest \/ FailDecode) /\ failed' = TRUE
  \/ (RepeatRequest \/ AcceptRequest) /\ failed' = FALSE
  \/ (NoRequest \/ Decode \/ AwaitIdle \/ Commit) /\ UNCHANGED failed

FlagSpec == FlagInit /\ [][FlagNext]_flagVars

-----------------------------------------------------------------------------
\* core_cfgCtrl.vhd of error_r: "This is synchronously reset when
\* reconfigRequest is high, and set when the request or decoder logic detects
\* an error in the new configuration vector."  So the flag is up exactly when
\* the last request failed.
ErrorTellsLastRequest == error <=> failed
=============================================================================
