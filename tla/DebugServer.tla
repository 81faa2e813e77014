----------------------------- MODULE DebugServer ----------------------------
(***************************************************************************)
(* The main loop of rvsrv (main.c) with its two TCP servers (tcpserv.c)    *)
(* and its select wrapper (select.c).                                      *)
(*                                                                         *)
(* rvsrv is single-threaded: a round of the loop is a sequence of steps,   *)
(* one per call the loop makes.  Clients connect, send, and disconnect     *)
(* between any two of them, and the serial port may be unplugged.          *)
(*                                                                         *)
(* A connection attempt is a member of Conns.  Script[c] is what its       *)
(* client sends, one symbol per byte: "R" stands for the text of a Read or *)
(* a Write, "S" for Stop, "x" for any other text, ";" ends a command.      *)
(***************************************************************************)
EXTENDS Integers, FiniteSets, FiniteSetsExt, Sequences, SequencesExt, Functions

CONSTANTS
  Conns,         \* connection attempts
  Server,        \* Server[c] is the server it goes to: "app" or "debug"
  Script,        \* Script[c] is what the client sends
  Scenarios,     \* bound: which clients try to connect, which of them may
                 \* disconnect, how often the serial port is unplugged,
                 \* and whether SIGTERM may be sent
  MaxCommand,    \* MAX_DEBUG_COMMAND_SIZE, in symbols
  noReconnect    \* the command line argument

ASSUME ServerAssumption ==
  /\ IsFiniteSet(Conns) /\ Conns \subseteq Nat
  /\ Server \in [Conns -> {"app", "debug"}]
  /\ \A c \in Conns : Script[c] \in Seq({"R", "S", "x", ";"})
  /\ Scenarios \subseteq [attempts : SUBSET Conns, leavers : SUBSET Conns,
                           unplugs : Nat, sigterm : BOOLEAN]
  /\ MaxCommand \in Nat \ {0}
  /\ noReconnect \in BOOLEAN

VARIABLES
  scenario,     \* a member of Scenarios
  pc,           \* the next call of the main loop
  backlog,      \* backlog[s]: connections the server s has not accepted
  sent,         \* sent[c]: how much of its script the client has sent
  taken,        \* taken[c]: how much of it the server has read
  left,         \* the connections whose clients have disconnected
  clients,      \* clients[s][id]: the tcpClient_t structures
  registered,   \* registeredDescriptors
  ready,        \* readyDescriptors, a copy made by select_wait
  tty,          \* the descriptor of the serial port, or NoDesc
  plugged,      \* whether there is a serial port
  unplugs,      \* how often it was unplugged
  overdue,      \* whether last_reconnect_attempt lies more than 5 s back
  pending,      \* requests the rvex interface works on
  busy,
  signalled,    \* SIGTERM was received: terminatePipe holds a byte
  terminated,
  received,     \* received[c]: the replies written to the connection
  heirs         \* history: connections that were given the ID of a client
                \* whose requests were still pending

netVars == <<scenario, backlog, sent, left, plugged, unplugs, signalled>>
vars == <<pc, netVars, taken, clients, registered, ready, tty, overdue, pending, busy,
          terminated, received, heirs>>

NoDesc  == 0
Servers == {"app", "debug"}

\* The serial port is opened first; the listening sockets and the pipe stay
\* open; clients get what is left.
listenDesc    == [app |-> 2, debug |-> 3]
terminatePipe == 4
Fixed         == {2, 3, 4}
Descs         == 1..(Cardinality(Conns) + 4)

\* The descriptors in use, and the one the kernel hands out next.
Open == {tty} \cup UNION {{clients[s][i].desc : i \in DOMAIN clients[s]} : s \in Servers}
FreeDesc == Min(Descs \ (Open \cup Fixed))

\* The first free place in server->clients; the array grows when it is full.
FreeSlot(s) == Min(0..Cardinality(DOMAIN clients[s]) \ DOMAIN clients[s])

Unread(c) == SubSeq(Script[c], taken[c] + 1, sent[c])

\* What select() finds ready: data, end of file, or a connection to accept.
Readable(d) ==
  \/ \E s \in Servers : d = listenDesc[s] /\ backlog[s] # <<>>
  \/ d = terminatePipe /\ signalled
  \/ d # NoDesc /\ d = tty /\ ~plugged
  \/ \E s \in Servers : \E i \in DOMAIN clients[s] :
       LET cl == clients[s][i] IN cl.desc = d /\ (Unread(cl.conn) # <<>> \/ cl.conn \in left)

Init ==
  /\ scenario \in Scenarios
  /\ pc = "select"
  /\ backlog = [s \in Servers |-> <<>>]
  /\ sent = [c \in Conns |-> 0]
  /\ taken = [c \in Conns |-> 0]
  /\ left = {}
  /\ clients = [s \in Servers |-> <<>>]
  /\ tty = 1
  /\ registered = Fixed \cup {1}
  /\ ready = {}
  /\ plugged = TRUE
  /\ unplugs = 0
  /\ overdue = TRUE
  /\ pending = <<>>
  /\ busy = FALSE
  /\ signalled = FALSE
  /\ terminated = FALSE
  /\ received = [c \in Conns |-> <<>>]
  /\ heirs = {}

-----------------------------------------------------------------------------
(* The world around the server. *)

Known(c) == \/ \E s \in Servers : c \in ToSet(backlog[s])
            \/ \E s \in Servers : \E i \in DOMAIN clients[s] : clients[s][i].conn = c

Connect(c) ==
  /\ c \in scenario.attempts
  /\ ~Known(c) /\ taken[c] = 0 /\ sent[c] = 0 /\ c \notin left
  /\ \A b \in scenario.attempts : b < c => Known(b) \/ b \in left
  /\ backlog' = [backlog EXCEPT ![Server[c]] = Append(@, c)]
  /\ UNCHANGED <<scenario, sent, left, plugged, unplugs, signalled>>

ClientSend(c) ==
  /\ Known(c) /\ c \notin left /\ sent[c] < Len(Script[c])
  /\ sent' = [sent EXCEPT ![c] = @ + 1]
  /\ UNCHANGED <<scenario, backlog, left, plugged, unplugs, signalled>>

Disconnect(c) ==
  /\ c \in scenario.leavers /\ Known(c) /\ c \notin left
  /\ left' = left \cup {c}
  /\ UNCHANGED <<scenario, backlog, sent, plugged, unplugs, signalled>>

Unplug ==
  /\ plugged /\ unplugs < scenario.unplugs
  /\ plugged' = FALSE
  /\ unplugs' = unplugs + 1
  /\ UNCHANGED <<scenario, backlog, sent, left, signalled>>

PlugIn ==
  /\ ~plugged /\ tty = NoDesc
  /\ plugged' = TRUE
  /\ UNCHANGED <<scenario, backlog, sent, left, unplugs, signalled>>

\* The SIGTERM handler.
terminate ==
  /\ scenario.sigterm /\ ~signalled
  /\ signalled' = TRUE
  /\ UNCHANGED <<scenario, backlog, sent, left, plugged, unplugs>>

\* The loop looks at the world when it sleeps and when it reads; what happens
\* in between shows at the next of these points.
World ==
  /\ pc \in {"select", "read_app", "read_debug"}
  /\ \/ \E c \in Conns : Connect(c) \/ ClientSend(c) \/ Disconnect(c)
     \/ Unplug \/ PlugIn \/ terminate
  /\ UNCHANGED <<pc, taken, clients, registered, ready, tty, overdue, pending, busy,
                 terminated, received, heirs>>

-----------------------------------------------------------------------------
(* One round of the main loop. *)

\* With a request in progress select() gives up after 10 ms; otherwise it
\* waits until something is ready, which may take long.  A port that was opened
\* again is taken to stay for more than 5 s.
select_wait ==
  /\ pc = "select"
  /\ ready' = {d \in registered : Readable(d)}
  /\ busy \/ ready' # {}
  /\ busy' = FALSE
  /\ overdue' \in IF tty # NoDesc THEN {TRUE}
                 ELSE IF ~busy THEN {overdue, TRUE} ELSE {overdue}
  /\ pc' = "serial"
  /\ UNCHANGED <<netVars, taken, clients, registered, tty, pending, terminated, received, heirs>>

\* serial_update and the attempts to open the port again.  The attempt is
\* noted in every round without a port, also when none was made.
UpdateSerial ==
  /\ pc = "serial"
  /\ CASE tty # NoDesc /\ tty \in ready /\ ~plugged ->
            /\ tty' = NoDesc
            /\ registered' = registered \ {tty}
            /\ terminated' = (terminated \/ noReconnect)
            /\ UNCHANGED overdue
       [] tty = NoDesc ->
            /\ tty' = IF overdue /\ plugged THEN FreeDesc ELSE NoDesc
            /\ registered' = registered \cup ({tty'} \ {NoDesc})
            /\ overdue' = FALSE
            /\ UNCHANGED terminated
       [] OTHER -> UNCHANGED <<tty, registered, terminated, overdue>>
  /\ pc' = "accept_app"
  /\ UNCHANGED <<netVars, taken, clients, ready, pending, busy, received, heirs>>

\* The main loop updates the application server first.
acceptAt == [app |-> "accept_app", debug |-> "accept_debug"]
readAt   == [app |-> "read_app", debug |-> "read_debug"]

\* The first half of tcpServer_update.
Accept(s) ==
  /\ pc = acceptAt[s]
  /\ IF listenDesc[s] \in ready
     THEN /\ clients' = [clients EXCEPT ![s] =
               [i \in DOMAIN @ \cup {FreeSlot(s)} |->
                  IF i = FreeSlot(s)
                  THEN [conn |-> Head(backlog[s]), desc |-> FreeDesc, rx |-> <<>>,
                        command |-> <<>>, tx |-> <<>>, n |-> 0]
                  ELSE @[i]]]
          /\ registered' = registered \cup {FreeDesc}
          /\ backlog' = [backlog EXCEPT ![s] = Tail(@)]
          /\ heirs' = IF s = "debug" /\ \E k \in DOMAIN pending : pending[k].id = FreeSlot(s)
                      THEN heirs \cup {Head(backlog[s])} ELSE heirs
     ELSE UNCHANGED <<clients, registered, backlog, heirs>>
  /\ pc' = readAt[s]
  /\ UNCHANGED <<scenario, sent, left, plugged, unplugs, signalled, taken, ready, tty, overdue, pending, busy,
                 terminated, received>>

\* The clients a server is going to read from: ready, with a drained buffer.
ReadFrom(s) == {i \in DOMAIN clients[s] : clients[s][i].desc \in ready /\ clients[s][i].rx = <<>>}

\* read() returns at once for a client that has sent something or has left.
CanRead(c) == Unread(c) # <<>> \/ c \in left

\* The server sleeps in read().  readyDescriptors is not touched when a
\* descriptor is closed: a client that is accepted in the round in which
\* another descriptor was closed, and is given its number, is read from although
\* it may have nothing to say.  A signal does not wake the server, since read()
\* is restarted after a handler installed with signal().
InRead == \E s \in Servers :
            pc = readAt[s] /\ \E i \in ReadFrom(s) : ~CanRead(clients[s][i].conn)

\* read() may fail once for a client that has gone.  tcpServer_update returns
\* then: the client keeps its place, and those after it have to wait.
ReadUpTo(s) ==
  {ReadFrom(s)} \cup
    {{i \in ReadFrom(s) : i < k} :
       k \in {j \in ReadFrom(s) : /\ clients[s][j].conn \in left
                                  /\ Unread(clients[s][j].conn) = <<>>}}

\* The second half of tcpServer_update.  A client that is not readable makes
\* read() block, and with it the server.
ReadThese(s, these) ==
  /\ pc = readAt[s]
  /\ \A i \in these : CanRead(clients[s][i].conn)
  /\ LET gone == {i \in these : Unread(clients[s][i].conn) = <<>>}
     IN /\ clients' = [clients EXCEPT ![s] = [i \in DOMAIN @ \ gone |->
             IF i \in these THEN [@[i] EXCEPT !.rx = Unread(clients[s][i].conn)] ELSE @[i]]]
        /\ registered' = registered \ {clients[s][i].desc : i \in these}
        /\ taken' = [c \in Conns |->
             IF \E i \in these : clients[s][i].conn = c THEN sent[c] ELSE taken[c]]
  /\ pc' = IF s = "app" THEN "accept_debug" ELSE "handle"
  /\ UNCHANGED <<netVars, ready, tty, overdue, pending, busy, terminated, received, heirs>>

Read(s) == \E these \in ReadUpTo(s) : ReadThese(s, these)

\* Seeded fault: client 0 is taken for none.
ZeroIsNobody(cls, id, tag) ==
  IF id \in DOMAIN cls \ {0} THEN [cls EXCEPT ![id].tx = Append(@, tag)] ELSE cls

\* tcpServer_sendStr: into the buffer of whoever has the ID now, or nowhere.
SendStr(cls, id, tag) ==
  IF id \in DOMAIN cls THEN [cls EXCEPT ![id].tx = Append(@, tag)] ELSE cls

\* Seeded fault: a client whose buffer is drained is not watched again.
NotAgain(cl) == {}

\* tcpServer_receive registers a client again with the last byte it pops.
Rewatch(cl) == IF Len(cl.rx) = 1 THEN {cl.desc} ELSE {}

\* A full command buffer ignores everything but the delimiter.
BufferFull(cl) == Len(cl.command) >= MaxCommand

\* Clients with bytes to handle; handleDebugServer takes them in the order of
\* their IDs.
Waiting == {i \in DOMAIN clients["debug"] : clients["debug"][i].rx # <<>>}

\* handleCommand: a request goes to the rvex interface with the number of the
\* client; anything else, and what overran the buffer, is answered on the spot.
\* Stop ends the loop of handleDebugServer.
handleCommand(id, cl) ==
  LET tag   == [conn |-> cl.conn, n |-> cl.n + 1]
      text  == IF BufferFull(cl) THEN <<>> ELSE cl.command
      debug == [clients["debug"] EXCEPT ![id] =
                  [cl EXCEPT !.rx = Tail(@), !.command = <<>>, !.n = @ + 1]]
  IN /\ terminated' = (terminated \/ text = <<"S">>)
     /\ pc' = IF text = <<"S">> THEN "update" ELSE pc
     /\ IF text = <<"R">>
        THEN /\ clients' = [clients EXCEPT !["debug"] = debug]
             /\ pending' = Append(pending, [id |-> id, tag |-> tag])
        ELSE /\ clients' = [clients EXCEPT !["debug"] = SendStr(debug, id, tag)]
             /\ UNCHANGED pending

\* One round of the loop of handleDebugServer.
HandleByte ==
  /\ pc = "handle" /\ Waiting # {}
  /\ LET id == Min(Waiting)
         cl == clients["debug"][id]
         b  == Head(cl.rx)
     IN /\ IF b = ";"
           THEN handleCommand(id, cl)
           ELSE /\ clients' = [clients EXCEPT !["debug"][id] =
                     [cl EXCEPT !.rx = Tail(@),
                                !.command = IF BufferFull(cl) THEN @ ELSE Append(@, b)]]
                /\ UNCHANGED <<pending, terminated, pc>>
        /\ registered' = registered \cup Rewatch(cl)
  /\ UNCHANGED <<netVars, taken, ready, tty, overdue, busy, received, heirs>>

EndHandle ==
  /\ pc = "handle" /\ Waiting = {}
  /\ pc' = "update"
  /\ UNCHANGED <<netVars, taken, clients, registered, ready, tty, overdue, pending, busy,
                 terminated, received, heirs>>

\* onReadWriteComplete, called by rvexIface.update: requests complete in order,
\* any number in a round.
Complete ==
  /\ pc = "update" /\ pending # <<>>
  /\ clients' = [clients EXCEPT !["debug"] = SendStr(@, Head(pending).id, Head(pending).tag)]
  /\ pending' = Tail(pending)
  /\ UNCHANGED <<pc, netVars, taken, registered, ready, tty, overdue, busy, terminated,
                 received, heirs>>

\* Seeded fault: the interface never asks to be called again.
NeverBusy == FALSE

\* What rvexIface.update returns: whether it waits for something.
StillBusy == pending # <<>>

EndUpdate ==
  /\ pc = "update"
  /\ busy' = StillBusy
  /\ pc' = "appdata"
  /\ UNCHANGED <<netVars, taken, clients, registered, ready, tty, overdue, pending, terminated,
                 received, heirs>>

\* The clients' bytes go to the serial port, if there is one.
handleApplicationData ==
  /\ pc = "appdata"
  /\ IF tty # NoDesc
     THEN /\ clients' = [clients EXCEPT !["app"] =
                          [i \in DOMAIN @ |-> [@[i] EXCEPT !.rx = <<>>]]]
          /\ registered' = registered \cup {clients["app"][i].desc : i \in DOMAIN clients["app"]}
     ELSE UNCHANGED <<clients, registered>>
  /\ pc' = "flush"
  /\ UNCHANGED <<netVars, taken, ready, tty, overdue, pending, busy, terminated, received, heirs>>

\* The debug clients tcpServer_flush writes to: all, or those before one that
\* has gone, where write() fails and tcpServer_flush returns.
FlushUpTo ==
  LET debug == clients["debug"]
  IN {DOMAIN debug} \cup {{i \in DOMAIN debug : i < k} :
        k \in {j \in DOMAIN debug : debug[j].conn \in left /\ debug[j].tx # <<>>}}

\* The replies of a connection that are written out.
Written(c, these) ==
  LET ids == {i \in these : clients["debug"][i].conn = c}
  IN IF ids = {} THEN <<>> ELSE clients["debug"][CHOOSE i \in ids : TRUE].tx

\* Seeded fault: the pipe is not looked at.
IgnoresPipe == terminated

Terminating == terminated \/ terminatePipe \in ready

WriteOut(these) ==
  /\ pc = "flush"
  /\ received' = [c \in Conns |-> received[c] \o Written(c, these)]
  /\ ready' = {}  \* not looked at before select_wait sets it again
  /\ UNCHANGED <<netVars, taken, overdue, busy, heirs>>

\* Everything is closed.
cleanup ==
  /\ clients' = [s \in Servers |-> <<>>]
  /\ pending' = <<>>
  /\ registered' = {}
  /\ tty' = NoDesc
  /\ pc' = "done"

\* tcpServer_flush, and the end of the round.  A server that is told to stop
\* has written its replies.
Flush ==
  \E these \in FlushUpTo :
    /\ WriteOut(these)
    /\ terminated' = Terminating
    /\ \/ terminated' /\ cleanup
       \/ /\ ~terminated'
          /\ clients' = [clients EXCEPT !["debug"] = [i \in DOMAIN @ |->
                          IF i \in these THEN [@[i] EXCEPT !.tx = <<>>] ELSE @[i]]]
          /\ pc' = "select"
          /\ UNCHANGED <<pending, registered, tty>>

\* A write to a client that has gone may also raise SIGPIPE, which nobody
\* handles: it ends the process.
Sigpipe ==
  \E these \in FlushUpTo \ {DOMAIN clients["debug"]} :
    /\ WriteOut(these)
    /\ cleanup
    /\ UNCHANGED terminated

Loop ==
  \/ select_wait \/ UpdateSerial
  \/ \E s \in Servers : Accept(s) \/ Read(s)
  \/ HandleByte \/ EndHandle \/ Complete \/ EndUpdate
  \/ handleApplicationData \/ Flush \/ Sigpipe

Next == World \/ Loop

Spec == Init /\ [][Next]_vars

\* The loop goes round, the rvex interface completes what it was given, and
\* read() does not fail for ever: a connection reports its end once as an error.
\* Nothing is asked of the clients: one may stay connected and say nothing.
FairSpec ==
  /\ Spec
  /\ WF_vars(Loop)
  /\ SF_vars(Complete)
  /\ \A s \in Servers : SF_vars(ReadThese(s, ReadFrom(s)))

-----------------------------------------------------------------------------
\* When rvsrv goes to sleep in select_wait it watches every descriptor on
\* which something may happen that it can act on, and no closed one (select
\* would fail, and the server stop): a client is unregistered exactly while
\* its buffer is not drained, and that is only the case for application
\* clients that wait for the serial port to come back.
Watched ==
  pc = "select" =>
    /\ registered \ Fixed \subseteq Open
    /\ Fixed \subseteq registered
    /\ tty # NoDesc => tty \in registered
    /\ \A s \in Servers : \A i \in DOMAIN clients[s] :
         \/ clients[s][i].desc \in registered /\ clients[s][i].rx = <<>>
         \/ s = "app" /\ tty = NoDesc /\ clients[s][i].rx # <<>>

\* What a connection was sent or is about to be sent.
Replies(cl) == received[cl.conn] \o cl.tx

\* The callbacks of the rvex interface hold nothing but a client ID, and IDs
\* are used again (tcpServer_update).  A connection still gets answers to its
\* own commands only, each once, unless its ID was that of a client who left
\* with requests pending.  And no command of a connected client is forgotten:
\* it has been answered, or it is pending under the client's present ID.
OwnReplies ==
  \A i \in DOMAIN clients["debug"] :
    LET cl == clients["debug"][i]
    IN /\ IsInjective(Replies(cl))
       /\ cl.conn \notin heirs =>
            \A k \in DOMAIN Replies(cl) : Replies(cl)[k].conn = cl.conn
       /\ \A k \in 1..cl.n :
            LET tag == [conn |-> cl.conn, n |-> k]
            IN \/ tag \in ToSet(Replies(cl))
               \/ \E p \in DOMAIN pending : pending[p] = [id |-> i, tag |-> tag]

\* Every command a client has sent is answered, unless the client leaves, the
\* server ends, or it sleeps in read() for another client, which may be for
\* ever.  A server that is woken again owes the answer still.
CommandsAnswered ==
  \A c \in {x \in Conns : Server[x] = "debug"} :
    sent[c] = Len(Script[c]) ~>
      \/ c \in left
      \/ pc = "done"
      \/ InRead
      \/ \A k \in 1..Len(SelectSeq(Script[c], LAMBDA b : b = ";")) :
           [conn |-> c, n |-> k] \in ToSet(received[c])

\* SIGTERM stops the server, also when it comes just before select(), and once
\* it has returned from read() if it sleeps there.
Stops == signalled ~> pc = "done" \/ InRead
=============================================================================
