-------------------------------- MODULE Rvd --------------------------------
(***************************************************************************)
(* One run of rvd: "rvd gdb", or a command that works through expressions. *)
(***************************************************************************)
EXTENDS RvdCommands, GdbBridge

VARIABLE command

vars == <<command, cmdVars, bridgeVars>>

\* What the command that is not run was given makes no difference.
Some(S) == CHOOSE x \in S : TRUE
Init ==
  /\ CmdInit /\ BridgeInit
  /\ \/ command = "other" /\ script = Some(Sessions)
     \/ command = "gdb" /\ todo = Some(Maps) /\ invocation = Some(Invocations)
                        /\ world.left = Some(Transfers)

Bridge(A) == command = "gdb" /\ pc # "ended" /\ A /\ UNCHANGED <<command, cmdVars>>

Next ==
  \/ command = "other" /\ CmdNext /\ UNCHANGED <<command, bridgeVars>>
  \/ Bridge(BridgeNext)

\* rvd runs whenever it can, the program under test stops at last, and gdb
\* takes the replies it is sent.
FairSpec ==
  /\ Init /\ [][Next]_vars
  /\ WF_vars(Bridge(RvdStep))
  /\ WF_vars(Bridge(Halt))
  /\ WF_vars(Bridge(GdbReceive))
=============================================================================
