---------------------------- MODULE PacketHandler ---------------------------
(***************************************************************************)
(* The processor's end of the debug line, periph_uart_packetHandler.vhd:   *)
(* packets are handled one at a time, bus operations included, and every   *)
(* packet is answered with a copy of its command and sequence number.      *)
(*                                                                         *)
(* Every request has an address page of its own, named like the request.   *)
(***************************************************************************)
EXTENDS SerialLink

CONSTANT Clients    \* the requests, 1..n
ASSUME ClientsAssumption == Clients \subseteq Nat \ {0}

VARIABLES
  page,        \* the page in the upper bits of busRequest_r.address
  prepared,    \* the request whose operation busRequest_r holds, 0 when
               \* busRequestValid_r is low
  result,      \* the request whose volatile operation filled busResult_r, or 0
  performed,   \* how often each request's volatile operation was performed
  astray       \* requests some bus access of which went to another page

targetVars == <<page, prepared, result, performed, astray>>

TargetInit ==
  /\ page = 0
  /\ prepared = 0
  /\ result = 0
  /\ performed = [r \in Clients |-> 0]
  /\ astray = {}

Incoming(com) == toTarget # <<>> /\ Head(toTarget).com = com /\ CanReply
Client        == Head(toTarget).req

\* The reply to a volatile operation holds the result registers, replies to
\* the others nothing that identifies a volatile operation (0).
Answer(data) ==
  /\ toTarget' = Tail(toTarget)
  /\ fromTarget' = Append(fromTarget, [seq |-> Head(toTarget).seq, result |-> data])
  /\ UNCHANGED <<losses, late>>

\* Only the address register changes: an operation that was prepared before
\* stays valid.
HandleSetPage ==
  /\ Incoming("page")
  /\ page' = Client
  /\ UNCHANGED <<prepared, result, performed, astray>>
  /\ Answer(0)

\* A completed bus operation clears busRequestValid_r and overwrites the
\* result, whatever command it belonged to.
HandleBulkWrite ==
  /\ Incoming("write")
  /\ astray' = IF page = Client THEN astray ELSE astray \cup {Client}
  /\ prepared' = 0
  /\ result' = 0
  /\ UNCHANGED <<page, performed>>
  /\ Answer(0)

HandleBulkRead ==
  /\ Incoming("read")
  /\ page' = Client
  /\ prepared' = 0
  /\ result' = 0
  /\ UNCHANGED <<performed, astray>>
  /\ Answer(0)

HandlePrepare ==
  /\ Incoming("prepare")
  /\ page' = Client
  /\ prepared' = Client
  /\ UNCHANGED <<result, performed, astray>>
  /\ Answer(0)

\* Seeded fault: the operation stays valid after it was performed.
ExecuteAgain ==
  /\ Incoming("execute")
  /\ prepared # 0
  /\ performed' = [performed EXCEPT ![prepared] = @ + 1]
  /\ astray' = IF page = prepared THEN astray ELSE astray \cup {prepared}
  /\ result' = prepared
  /\ UNCHANGED <<page, prepared>>
  /\ Answer(prepared)

HandleExecute ==
  /\ Incoming("execute")
  /\ prepared # 0
  /\ performed' = [performed EXCEPT ![prepared] = @ + 1]
  /\ astray' = IF page = prepared THEN astray ELSE astray \cup {prepared}
  /\ prepared' = 0
  /\ result' = prepared
  /\ UNCHANGED page
  /\ Answer(prepared)

\* Nothing is prepared, or no longer: the result registers are returned.
HandleExecuteAgain ==
  /\ Incoming("execute")
  /\ prepared = 0
  /\ UNCHANGED targetVars
  /\ Answer(result)

HandlePacket ==
  \/ HandleSetPage \/ HandleBulkWrite \/ HandleBulkRead
  \/ HandlePrepare \/ HandleExecute \/ HandleExecuteAgain
=============================================================================
