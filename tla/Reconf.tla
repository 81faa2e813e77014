------------------------------- MODULE Reconf -------------------------------
(***************************************************************************)
(* The reconfiguration unit of a core: the controller with the decoder it  *)
(* starts; the controller of a core that sleeps and is woken up; or the    *)
(* decoder by itself, which can be given many more words than requests to  *)
(* the controller can be about.                                            *)
(***************************************************************************)
EXTENDS CfgCtrl, LaneDecode

CONSTANT DecoderWords   \* what the decoder is started with by itself
ASSUME DecoderWordsAssumption == DecoderWords \subseteq Word

Decoder == INSTANCE CfgDecode WITH RequestWords <- DecoderWords

\* While the program of context 0 sleeps the debug bus asks for configurations,
\* but none that would wake it.
Sleeper == INSTANCE CfgCtrl WITH
  RequestWords <- {w \in RequestWords : ~Wakes(w)},
  Requesters   <- {BusID},
  UseWakeup    <- TRUE

VARIABLE part

reconfVars == <<part, vars>>

ReconfInit == part \in {"controller", "sleeper", "decoder"} /\ Init

Controller(A) == part = "controller" /\ A /\ UNCHANGED part
Sleeping(A)   == part = "sleeper" /\ A /\ UNCHANGED part

ReconfNext ==
  \/ Controller(Next)
  \/ Sleeping(Sleeper!Next)
  \/ /\ part = "decoder"
     /\ Decoder!DecNext
     /\ UNCHANGED <<part, curCfg, statusVars, blockVars, envVars>>

\* The fairness of the controller (CfgCtrl).
ReconfSpec ==
  /\ ReconfInit /\ [][ReconfNext]_reconfVars
  /\ WF_reconfVars(busy /\ (Controller(Next) \/ Sleeping(Sleeper!Next)))
  /\ WF_reconfVars(WakeupActive /\ Sleeping(Sleeper!Next))
  /\ \A c \in Contexts :
       /\ WF_reconfVars(Controller(DrainPipe(c)) \/ Sleeping(Sleeper!DrainPipe(c)))
       /\ WF_reconfVars(Controller(DrainMem(c)) \/ Sleeping(Sleeper!DrainMem(c)))
=============================================================================
