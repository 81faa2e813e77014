-------------------------- MODULE DebugServerProofs -------------------------
(***************************************************************************)
(* Proofs about the main loop of rvsrv: what it watches while it sleeps    *)
(* (select.c, tcpserv.c), and who gets which answer (main.c), for every    *)
(* number of clients, every script and every scenario.                     *)
(***************************************************************************)
EXTENDS DebugServer, SequenceTheorems, FiniteSetTheorems, TLAPS

-----------------------------------------------------------------------------
(* The invariant of the loop.                                               *)

Symbols == {"R", "S", "x", ";"}
Tags == [conn : Conns, n : Nat]
Requests == [id : Nat, tag : Tags]
ClientRec ==
  [conn : Conns, desc : Nat, rx : Seq(Symbols), command : Seq(Symbols), tx : Seq(Tags), n : Nat]

Steps == {"select", "serial", "accept_app", "read_app", "accept_debug", "read_debug", "handle",
          "update", "appdata", "flush", "done"}

ClientTypes ==
  /\ DOMAIN clients = Servers
  /\ \A s \in Servers : /\ DOMAIN clients[s] \subseteq Nat
                        /\ \A i \in DOMAIN clients[s] : clients[s][i] \in ClientRec

LoopTypes ==
  /\ pc \in Steps
  /\ backlog \in [Servers -> Seq(Conns)]
  /\ sent \in [Conns -> Nat]
  /\ taken \in [Conns -> Nat]
  /\ \A c \in Conns : taken[c] <= sent[c] /\ sent[c] <= Len(Script[c])
  /\ tty \in Nat
  /\ terminated \in BOOLEAN
  /\ pending \in Seq(Requests)
  /\ ClientTypes

\* A connection is one client, or waits once in one backlog.
OneClient ==
  \A s, t \in Servers : \A i \in DOMAIN clients[s], j \in DOMAIN clients[t] :
    clients[s][i].conn = clients[t][j].conn => s = t /\ i = j

Queued ==
  /\ \A s, t \in Servers : \A k \in 1 .. Len(backlog[s]), l \in 1 .. Len(backlog[t]) :
       backlog[s][k] = backlog[t][l] => s = t /\ k = l
  /\ \A s, t \in Servers : \A k \in 1 .. Len(backlog[s]), j \in DOMAIN clients[t] :
       backlog[s][k] # clients[t][j].conn

\* Descriptor numbers are used once at a time.
OwnDescriptor ==
  /\ \A s, t \in Servers : \A i \in DOMAIN clients[s], j \in DOMAIN clients[t] :
       clients[s][i].desc = clients[t][j].desc => s = t /\ i = j
  /\ \A s \in Servers : \A i \in DOMAIN clients[s] :
       clients[s][i].desc \notin Fixed /\ clients[s][i].desc # tty /\ clients[s][i].desc # NoDesc
  /\ tty \notin Fixed

\* Nothing closed is watched, and a client exactly while its buffer is drained.
Watching ==
  /\ Fixed \subseteq registered
  /\ registered \ Fixed \subseteq Open \ {NoDesc}
  /\ tty # NoDesc => tty \in registered
  /\ \A s \in Servers : \A i \in DOMAIN clients[s] :
       clients[s][i].desc \in registered <=> clients[s][i].rx = <<>>

AllDrained(s) == \A i \in DOMAIN clients[s] : clients[s][i].rx = <<>>

\* Which buffers a round has emptied when.  A server that is told to stop may
\* leave commands behind.
Drained ==
  /\ pc \in Steps \ {"handle", "update", "appdata", "flush", "done"} => AllDrained("debug")
  /\ pc \in {"update", "appdata", "flush"} /\ ~terminated => AllDrained("debug")
  /\ pc \in {"select", "serial", "flush"} /\ tty # NoDesc => AllDrained("app")
  /\ pc = "select" => ~terminated

\* A listening socket that was ready is still ready when it is looked at.
Pending(s) == IF s = "app" THEN {"serial", "accept_app"}
              ELSE {"serial", "accept_app", "read_app", "accept_debug"}

StillReady == \A s \in Servers : pc \in Pending(s) /\ listenDesc[s] \in ready => backlog[s] # <<>>

LoopInv ==
  /\ LoopTypes /\ OneClient /\ Queued /\ OwnDescriptor
  /\ pc # "done" => Watching
  /\ Drained /\ StillReady

-----------------------------------------------------------------------------
(* Free numbers.                                                            *)

\* A set of numbers that is not empty has a least one.
LEMMA LeastNumber ==
  ASSUME NEW T \in SUBSET Nat, T # {}
  PROVE  Min(T) \in T /\ \A k \in T : Min(T) <= k
<1>1. \E m \in T : \A k \in T : ~(<<k, m>> \in OpToRel(<, Nat))
  BY NatLessThanWellFounded, WFMin
<1>2. PICK m \in T : \A k \in T : ~(<<k, m>> \in OpToRel(<, Nat))
  BY <1>1
<1>3. \A k \in T : ~(k < m)
  BY <1>2 DEF OpToRel
<1>4. \A k \in T : m <= k
  BY <1>3
<1> QED BY <1>4 DEF Min

\* Descriptors that all belong to clients are no more than the connections.
LEMMA NoMoreThanConns ==
  ASSUME OneClient, NEW X, NEW Y, IsFiniteSet(X), IsFiniteSet(Y),
         \A d \in X : \E s \in Servers : \E i \in DOMAIN clients[s] :
            clients[s][i].desc = d /\ clients[s][i].conn \in Y
  PROVE  Cardinality(X) <= Cardinality(Y)
<1> DEFINE Holds(d, c) == \E s \in Servers : \E i \in DOMAIN clients[s] :
                            clients[s][i].desc = d /\ clients[s][i].conn = c
           f == [d \in X |-> CHOOSE c \in Y : Holds(d, c)]
<1>1. \A d \in X : \E c \in Y : Holds(d, c)
  OBVIOUS
<1>2. \A d, e : \A c : Holds(d, c) /\ Holds(e, c) => d = e
  BY DEF OneClient
<1> HIDE DEF Holds
<1>3. \A d \in X : f[d] \in Y /\ Holds(d, f[d])
  BY <1>1
<1>4. f \in [X -> Y]
  BY <1>3
<1>5. \A d, e \in X : f[d] = f[e] => d = e
  BY <1>2, <1>3
<1>6. f \in Injection(X, Y)
  BY <1>4, <1>5 DEF Injection, IsInjective
<1> QED BY <1>6, FS_Injection

\* The descriptors beside the fixed ones.
LEMMA DescriptorCount ==
  /\ IsFiniteSet(Descs \ Fixed) /\ Cardinality(Descs \ Fixed) = Cardinality(Conns) + 1
  /\ \A d : /\ IsFiniteSet((Descs \ Fixed) \ {d})
            /\ Cardinality((Descs \ Fixed) \ {d}) >= Cardinality(Conns)
  /\ Cardinality(Conns) \in Nat
<1>1. PICK n \in Nat : n = Cardinality(Conns)
  BY ServerAssumption, FS_CardinalityType
<1>2. Descs = 1 .. (n + 4)
  BY <1>1 DEF Descs
<1>3. IsFiniteSet(Descs) /\ Cardinality(Descs) = n + 4
  BY <1>2, FS_Interval
<1>a. 2 \in Descs /\ 3 \in Descs \ {2} /\ 4 \in (Descs \ {2}) \ {3}
  BY <1>2
<1>4. IsFiniteSet(Descs \ {2}) /\ Cardinality(Descs \ {2}) = n + 3
  <2>1. IsFiniteSet(Descs \ {2}) /\ Cardinality(Descs \ {2}) = Cardinality(Descs) - 1
    BY <1>3, <1>a, FS_RemoveElement
  <2> QED BY <1>3, <2>1
<1>5. IsFiniteSet((Descs \ {2}) \ {3}) /\ Cardinality((Descs \ {2}) \ {3}) = n + 2
  <2>1. /\ IsFiniteSet((Descs \ {2}) \ {3})
        /\ Cardinality((Descs \ {2}) \ {3}) = Cardinality(Descs \ {2}) - 1
    BY <1>4, <1>a, FS_RemoveElement
  <2> QED BY <1>4, <2>1
<1>6. IsFiniteSet(((Descs \ {2}) \ {3}) \ {4}) /\ Cardinality(((Descs \ {2}) \ {3}) \ {4}) = n + 1
  <2>1. /\ IsFiniteSet(((Descs \ {2}) \ {3}) \ {4})
        /\ Cardinality(((Descs \ {2}) \ {3}) \ {4}) = Cardinality((Descs \ {2}) \ {3}) - 1
    BY <1>5, <1>a, FS_RemoveElement
  <2> QED BY <1>5, <2>1
<1>7. Descs \ Fixed = ((Descs \ {2}) \ {3}) \ {4}
  BY DEF Fixed
<1>8. IsFiniteSet(Descs \ Fixed) /\ Cardinality(Descs \ Fixed) = n + 1
  BY <1>6, <1>7
<1>9. \A d : /\ IsFiniteSet((Descs \ Fixed) \ {d})
             /\ Cardinality((Descs \ Fixed) \ {d}) >= n
  BY <1>8, FS_RemoveElement
<1> QED BY <1>1, <1>8, <1>9

\* The kernel has a descriptor for the port, and for a client that waits.
LEMMA DescriptorFree ==
  ASSUME LoopTypes, OneClient, Queued,
         tty = NoDesc \/ \E s \in Servers : backlog[s] # <<>>
  PROVE  /\ FreeDesc \in Nat /\ FreeDesc # NoDesc
         /\ FreeDesc \notin Open /\ FreeDesc \notin Fixed
<1> DEFINE X == (Descs \ Fixed) \ {tty}
<1>1. NoDesc \notin Descs /\ Descs \subseteq Nat
  BY DescriptorCount DEF NoDesc, Descs
<1>2. Descs \ (Open \cup Fixed) # {}
  <2> SUFFICES ASSUME Descs \ (Open \cup Fixed) = {}
               PROVE  FALSE
    OBVIOUS
  <2>1. \A d \in X : \E s \in Servers : \E i \in DOMAIN clients[s] : clients[s][i].desc = d
    BY DEF Open
  <2>2. \A s \in Servers : \A i \in DOMAIN clients[s] : clients[s][i].conn \in Conns
    BY DEF LoopTypes, ClientTypes, ClientRec
  <2>3. CASE tty = NoDesc
    <3>1. X = Descs \ Fixed
      BY <1>1, <2>3
    <3>2. IsFiniteSet(X) /\ IsFiniteSet(Conns)
      BY <3>1, ServerAssumption, DescriptorCount
    <3>3. Cardinality(X) <= Cardinality(Conns)
      <4> HIDE DEF X
      <4> QED BY <2>1, <2>2, <3>2, NoMoreThanConns
    <3>4. Cardinality(X) = Cardinality(Conns) + 1 /\ Cardinality(Conns) \in Nat
      BY <3>1, DescriptorCount
    <3> QED BY <3>3, <3>4
  <2>4. CASE \E s \in Servers : backlog[s] # <<>>
    <3>1. PICK s \in Servers : backlog[s] # <<>>
      BY <2>4
    <3>2. backlog[s] \in Seq(Conns) /\ 1 \in 1 .. Len(backlog[s]) /\ backlog[s][1] \in Conns
      BY <3>1 DEF LoopTypes
    <3> DEFINE Y == Conns \ {backlog[s][1]}
    <3>3. \A t \in Servers : \A i \in DOMAIN clients[t] : clients[t][i].conn \in Y
      BY <2>2, <3>2 DEF Queued
    <3>4. IsFiniteSet(Y) /\ Cardinality(Y) = Cardinality(Conns) - 1
      <4>1. IsFiniteSet(Conns)
        BY ServerAssumption
      <4> QED BY <3>2, <4>1, FS_RemoveElement
    <3>5. IsFiniteSet(X) /\ Cardinality(X) >= Cardinality(Conns)
      BY DescriptorCount
    <3>6. Cardinality(X) <= Cardinality(Y)
      <4> HIDE DEF X, Y
      <4> QED BY <2>1, <3>3, <3>4, <3>5, NoMoreThanConns
    <3>7. Cardinality(X) \in Nat
      BY <3>5, FS_CardinalityType
    <3> QED BY <3>4, <3>5, <3>6, <3>7, DescriptorCount
  <2> QED BY <2>3, <2>4
<1>3. FreeDesc \in Descs \ (Open \cup Fixed)
  <2>1. Descs \ (Open \cup Fixed) \in SUBSET Nat
    BY <1>1
  <2> QED BY <1>2, <2>1, LeastNumber DEF FreeDesc
<1> QED BY <1>1, <1>3

\* There is a place for a client in the array, or it grows by one.
LEMMA PlaceFree ==
  ASSUME LoopTypes, OneClient, NEW s \in Servers
  PROVE  FreeSlot(s) \in Nat /\ FreeSlot(s) \notin DOMAIN clients[s]
<1> DEFINE D == DOMAIN clients[s]
           f == [i \in D |-> clients[s][i].conn]
           n == Cardinality(D)
<1>1. f \in [D -> Conns]
  BY DEF LoopTypes, ClientTypes, ClientRec
<1>2. \A i, j \in D : f[i] = f[j] => i = j
  BY DEF OneClient
<1>3. f \in Injection(D, Conns)
  BY <1>1, <1>2 DEF Injection, IsInjective
<1>4. IsFiniteSet(D) /\ n \in Nat
  BY <1>3, ServerAssumption, FS_Injection, FS_CardinalityType
<1>5. Cardinality(0 .. n) = n + 1
  BY <1>4, FS_Interval
<1>6. (0 .. n) \ D # {}
  <2> SUFFICES ASSUME (0 .. n) \in SUBSET D
               PROVE  FALSE
    OBVIOUS
  <2>1. Cardinality(0 .. n) <= n
    BY <1>4, FS_Subset
  <2> QED BY <1>4, <1>5, <2>1
<1>7. (0 .. n) \ D \in SUBSET Nat
  BY <1>4
<1>8. FreeSlot(s) = Min((0 .. n) \ D)
  BY DEF FreeSlot
<1> QED BY <1>6, <1>7, <1>8, LeastNumber

-----------------------------------------------------------------------------
(* The steps of a round.                                                    *)

\* No client comes or goes.
SameClients ==
  /\ DOMAIN clients' = Servers
  /\ \A s \in Servers : /\ DOMAIN clients'[s] = DOMAIN clients[s]
                        /\ \A i \in DOMAIN clients[s] :
                             /\ clients'[s][i].conn = clients[s][i].conn
                             /\ clients'[s][i].desc = clients[s][i].desc

\* A step that keeps connections, descriptors and places of all clients keeps what is
\* said of them.
LEMMA KeptClients ==
  ASSUME OneClient, Queued, OwnDescriptor, SameClients, UNCHANGED <<backlog, tty>>
  PROVE  OneClient' /\ Queued' /\ OwnDescriptor' /\ Open' = Open
<1>1. OneClient'
  BY DEF OneClient, SameClients
<1>2. Queued'
  BY DEF Queued, SameClients
<1>3. OwnDescriptor'
  BY DEF OwnDescriptor, SameClients
<1>4. Open' = Open
  BY DEF Open, SameClients
<1> QED BY <1>1, <1>2, <1>3, <1>4

\* Clients, the port and signals change under the loop, but only at its ends.
LEMMA WorldStep ==
  ASSUME LoopInv, World
  PROVE  LoopInv'
<1> USE DEF LoopInv
<1>1. UNCHANGED <<pc, taken, clients, registered, ready, tty, terminated, pending>>
  BY DEF World
<1>2. OneClient' /\ OwnDescriptor' /\ Drained' /\ (pc' # "done" => Watching')
  <2>1. OneClient'
    BY <1>1 DEF OneClient
  <2>2. OwnDescriptor'
    BY <1>1 DEF OwnDescriptor
  <2>3. Drained'
    BY <1>1 DEF Drained, AllDrained
  <2>4. pc # "done" => Watching'
    BY <1>1 DEF Watching, Open
  <2> QED BY <1>1, <2>1, <2>2, <2>3, <2>4
<1>3. ClientTypes'
  BY <1>1 DEF LoopTypes, ClientTypes
<1>4. ASSUME NEW c \in Conns, Connect(c)
      PROVE  /\ backlog' \in [Servers -> Seq(Conns)] /\ Queued' /\ StillReady' /\ UNCHANGED sent
  <2>1. Server[c] \in Servers
    BY ServerAssumption DEF Servers
  <2>2. PICK q : q = Server[c] /\ q \in Servers
    BY <2>1
  <2>3. backlog \in [Servers -> Seq(Conns)] /\ backlog' = [backlog EXCEPT ![q] = Append(backlog[q], c)]
    BY <1>4, <2>2 DEF Connect, LoopTypes
  <2>4. /\ backlog'[q] = Append(backlog[q], c) /\ backlog[q] \in Seq(Conns)
        /\ \A s \in Servers \ {q} : backlog'[s] = backlog[s]
    BY <2>2, <2>3
  <2>5. /\ Append(backlog[q], c) \in Seq(Conns)
        /\ Len(Append(backlog[q], c)) = Len(backlog[q]) + 1 /\ Len(backlog[q]) \in Nat
        /\ Append(backlog[q], c)[Len(backlog[q]) + 1] = c
        /\ \A k \in 1 .. Len(backlog[q]) : Append(backlog[q], c)[k] = backlog[q][k]
    BY <2>4
  <2>6. /\ \A s \in Servers : \A k \in 1 .. Len(backlog[s]) : backlog[s][k] # c
        /\ \A s \in Servers : \A i \in DOMAIN clients[s] : clients[s][i].conn # c
    <3>1. ~Known(c)
      BY <1>4 DEF Connect
    <3>2. \A s \in Servers : c \notin ToSet(backlog[s])
      BY <3>1 DEF Known
    <3>3. \A s \in Servers : DOMAIN backlog[s] = 1 .. Len(backlog[s])
      BY <2>3
    <3>4. \A s \in Servers : \A k \in 1 .. Len(backlog[s]) : backlog[s][k] # c
      BY <3>2, <3>3 DEF ToSet
    <3> QED BY <3>1, <3>4 DEF Known
  <2>7. \A s \in Servers : \A k \in 1 .. Len(backlog'[s]) :
          \/ k \in 1 .. Len(backlog[s]) /\ backlog'[s][k] = backlog[s][k]
          \/ s = q /\ k = Len(backlog[q]) + 1 /\ backlog'[s][k] = c
    <3> TAKE s \in Servers
    <3>1. CASE s # q
      BY <2>4, <3>1
    <3>2. CASE s = q
      BY <2>4, <2>5, <3>2
    <3> QED BY <3>1, <3>2
  <2>8. Queued'
    <3>1. ASSUME NEW s \in Servers, NEW t \in Servers, NEW k \in 1 .. Len(backlog'[s]),
                 NEW l \in 1 .. Len(backlog'[t]), backlog'[s][k] = backlog'[t][l]
          PROVE  s = t /\ k = l
      BY <2>6, <2>7, <3>1 DEF Queued
    <3>2. ASSUME NEW s \in Servers, NEW t \in Servers, NEW k \in 1 .. Len(backlog'[s]),
                 NEW j \in DOMAIN clients[t]
          PROVE  backlog'[s][k] # clients[t][j].conn
      BY <2>6, <2>7 DEF Queued
    <3> QED BY <1>1, <3>1, <3>2 DEF Queued
  <2>9. StillReady'
    <3>1. \A s \in Servers : backlog[s] # <<>> => backlog'[s] # <<>>
      BY <2>4, <2>5
    <3>2. \A s \in Servers : backlog[s] \in Seq(Conns)
      BY <2>3
    <3> QED BY <1>1, <3>1 DEF StillReady
  <2>10. UNCHANGED sent
    BY <1>4 DEF Connect
  <2> QED BY <2>3, <2>5, <2>8, <2>9, <2>10
<1>5. UNCHANGED backlog => Queued' /\ StillReady'
  BY <1>1 DEF Queued, StillReady
<1>6. ASSUME NEW c \in Conns, ClientSend(c)
      PROVE  /\ UNCHANGED backlog
             /\ sent' \in [Conns -> Nat]
             /\ \A b \in Conns : taken'[b] <= sent'[b] /\ sent'[b] <= Len(Script[b])
  <2>1. sent \in [Conns -> Nat] /\ sent' = [sent EXCEPT ![c] = sent[c] + 1] /\ sent[c] < Len(Script[c])
    BY <1>6 DEF ClientSend, LoopTypes
  <2>2. \A b \in Conns : Len(Script[b]) \in Nat /\ taken[b] \in Nat
    <3>1. \A b \in Conns : Script[b] \in Seq(Symbols)
      BY ServerAssumption DEF Symbols
    <3> QED BY <3>1 DEF LoopTypes
  <2> QED BY <1>1, <1>6, <2>1, <2>2 DEF ClientSend, LoopTypes
<1>7. ASSUME \/ \E c \in Conns : Disconnect(c)
             \/ Unplug \/ PlugIn \/ terminate
      PROVE  UNCHANGED <<backlog, sent>>
  BY <1>7 DEF Disconnect, Unplug, PlugIn, terminate
<1>8. /\ backlog' \in [Servers -> Seq(Conns)] /\ Queued' /\ StillReady'
      /\ sent' \in [Conns -> Nat]
      /\ \A b \in Conns : taken'[b] <= sent'[b] /\ sent'[b] <= Len(Script[b])
  <2>1. /\ backlog \in [Servers -> Seq(Conns)] /\ sent \in [Conns -> Nat]
        /\ \A b \in Conns : taken[b] <= sent[b] /\ sent[b] <= Len(Script[b])
    BY DEF LoopTypes
  <2>2. UNCHANGED sent => \A b \in Conns : taken'[b] <= sent'[b] /\ sent'[b] <= Len(Script[b])
    BY <1>1, <2>1
  <2> QED BY <1>4, <1>5, <1>6, <1>7, <2>1, <2>2 DEF World
<1>9. LoopTypes'
  BY <1>1, <1>3, <1>8 DEF LoopTypes
<1> QED BY <1>2, <1>8, <1>9

\* select_wait finds a listening socket ready when somebody waits there.
LEMMA SelectStep ==
  ASSUME LoopInv, select_wait
  PROVE  LoopInv'
<1> USE DEF LoopInv
<1>1. /\ pc = "select" /\ pc' = "serial"
      /\ UNCHANGED <<backlog, sent, taken, clients, registered, tty, terminated, pending>>
  BY DEF select_wait, netVars
<1>2. OneClient' /\ Queued' /\ OwnDescriptor'
  BY <1>1 DEF OneClient, Queued, OwnDescriptor
<1>3. Watching'
  BY <1>1 DEF Watching, Open
<1>4. Drained'
  BY <1>1 DEF Drained, AllDrained, Steps
<1>5. LoopTypes'
  BY <1>1 DEF LoopTypes, ClientTypes, Steps
<1>6. StillReady'
  <2> SUFFICES ASSUME NEW s \in Servers, listenDesc[s] \in ready'
               PROVE  backlog[s] # <<>>
    BY <1>1 DEF StillReady
  <2>1. Readable(listenDesc[s])
    BY DEF select_wait
  <2>2. /\ listenDesc[s] \in Fixed /\ listenDesc[s] # terminatePipe
        /\ \A t \in Servers : listenDesc[s] = listenDesc[t] => s = t
    BY DEF listenDesc, Fixed, terminatePipe, Servers
  <2>3. /\ listenDesc[s] # tty
        /\ \A t \in Servers : \A i \in DOMAIN clients[t] : clients[t][i].desc # listenDesc[s]
    BY <2>2 DEF OwnDescriptor
  <2> QED BY <2>1, <2>2, <2>3 DEF Readable
<1> QED BY <1>2, <1>3, <1>4, <1>5, <1>6

\* The port is closed, or opened again under a number of its own.
LEMMA SerialStep ==
  ASSUME LoopInv, UpdateSerial
  PROVE  LoopInv'
<1> USE DEF LoopInv
<1>1. /\ pc = "serial" /\ pc' = "accept_app"
      /\ UNCHANGED <<backlog, sent, taken, clients, ready, pending>>
  BY DEF UpdateSerial, netVars
<1>2. OneClient' /\ Queued'
  BY <1>1 DEF OneClient, Queued
<1>3. StillReady'
  BY <1>1 DEF StillReady, Pending
<1>4. Watching /\ terminated \in BOOLEAN /\ tty \in Nat /\ NoDesc \in Nat /\ noReconnect \in BOOLEAN
  BY <1>1, ServerAssumption DEF LoopTypes, NoDesc
<1>5. /\ tty' \in Nat /\ tty' \notin Fixed /\ terminated' \in BOOLEAN
      /\ \A s \in Servers : \A i \in DOMAIN clients[s] : clients[s][i].desc # tty'
      /\ Watching'
  <2> DEFINE Held == UNION {{clients[s][i].desc : i \in DOMAIN clients[s]} : s \in Servers}
  <2>1. Open = {tty} \cup Held /\ Open' = {tty'} \cup Held
    BY <1>1 DEF Open
  <2>2. \A s \in Servers : \A i \in DOMAIN clients[s] :
          /\ clients[s][i].desc \in Held /\ clients[s][i].desc \notin Fixed
          /\ clients[s][i].desc # tty /\ clients[s][i].desc # NoDesc
    BY DEF OwnDescriptor
  <2>3. tty \notin Fixed /\ NoDesc \notin Fixed
    BY DEF OwnDescriptor, NoDesc, Fixed
  <2> HIDE DEF Held
  <2>4. CASE tty # NoDesc /\ tty \in ready /\ ~plugged
    <3>1. /\ tty' = NoDesc /\ registered' = registered \ {tty}
          /\ terminated' = (terminated \/ noReconnect)
      BY <2>4 DEF UpdateSerial
    <3>2. Watching'
      BY <1>1, <1>4, <2>1, <2>2, <2>3, <3>1 DEF Watching
    <3>3. terminated' \in BOOLEAN
      BY <1>4, <3>1
    <3> QED BY <1>4, <2>2, <2>3, <3>1, <3>2, <3>3
  <2>5. CASE tty = NoDesc
    <3>1. /\ tty' \in {FreeDesc, NoDesc} /\ registered' = registered \cup ({tty'} \ {NoDesc})
          /\ UNCHANGED terminated
      BY <2>5 DEF UpdateSerial
    <3>2. /\ FreeDesc \in Nat /\ FreeDesc # NoDesc
          /\ FreeDesc \notin Open /\ FreeDesc \notin Fixed
      BY <2>5, DescriptorFree
    <3>3. tty' \notin Held /\ tty' \in Nat /\ tty' \notin Fixed
      <4>1. NoDesc \notin Held
        BY <2>2, <2>1 DEF OwnDescriptor, Held
      <4> QED BY <1>4, <2>1, <2>3, <3>1, <3>2, <4>1
    <3>4. Watching'
      <4>1. Fixed \subseteq registered'
        BY <1>4, <3>1 DEF Watching
      <4>2. registered' \ Fixed \subseteq Open' \ {NoDesc}
        BY <1>4, <2>1, <2>2, <2>5, <3>1 DEF Watching
      <4>3. tty' # NoDesc => tty' \in registered'
        BY <3>1
      <4>4. \A s \in Servers : \A i \in DOMAIN clients[s] :
              clients[s][i].desc \in registered' <=> clients[s][i].rx = <<>>
        BY <1>4, <2>2, <3>1, <3>3 DEF Watching
      <4> QED BY <1>1, <4>1, <4>2, <4>3, <4>4 DEF Watching
    <3> QED BY <1>4, <2>2, <3>1, <3>3, <3>4
  <2>6. CASE ~(tty # NoDesc /\ tty \in ready /\ ~plugged) /\ tty # NoDesc
    <3>1. UNCHANGED <<tty, registered, terminated>>
      BY <2>6 DEF UpdateSerial
    <3>2. Watching'
      BY <1>1, <1>4, <3>1 DEF Watching, Open
    <3> QED BY <1>4, <2>2, <2>3, <3>1, <3>2
  <2> QED BY <2>4, <2>5, <2>6
<1>6. OwnDescriptor'
  BY <1>1, <1>5 DEF OwnDescriptor
<1>7. Drained'
  BY <1>1 DEF Drained, AllDrained, Steps
<1>8. LoopTypes'
  BY <1>1, <1>5 DEF LoopTypes, ClientTypes, Steps
<1> QED BY <1>2, <1>3, <1>5, <1>6, <1>7, <1>8

\* The first of a backlog becomes a client with a place, a descriptor and
\* buffers of its own.
NewClient(c, d) == [conn |-> c, desc |-> d, rx |-> <<>>, command |-> <<>>, tx |-> <<>>, n |-> 0]

LEMMA Accepted ==
  ASSUME LoopInv, NEW s \in Servers, Accept(s), listenDesc[s] \in ready
  PROVE  /\ backlog[s] # <<>> /\ Head(backlog[s]) \in Conns
         /\ FreeDesc \in Nat /\ FreeDesc # NoDesc /\ FreeDesc \notin Open /\ FreeDesc \notin Fixed
         /\ FreeSlot(s) \in Nat /\ FreeSlot(s) \notin DOMAIN clients[s]
         /\ DOMAIN clients' = Servers
         /\ DOMAIN clients'[s] = DOMAIN clients[s] \cup {FreeSlot(s)}
         /\ clients'[s][FreeSlot(s)] = NewClient(Head(backlog[s]), FreeDesc)
         /\ \A i \in DOMAIN clients[s] : clients'[s][i] = clients[s][i]
         /\ \A t \in Servers \ {s} : clients'[t] = clients[t]
<1> USE DEF LoopInv
<1>1. pc = acceptAt[s] /\ pc \in Pending(s)
  BY DEF Accept, acceptAt, Pending, Servers
<1>2. backlog[s] # <<>> /\ backlog[s] \in Seq(Conns)
  BY <1>1 DEF StillReady, LoopTypes
<1>3. Head(backlog[s]) \in Conns
  BY <1>2
<1>4. FreeDesc \in Nat /\ FreeDesc # NoDesc /\ FreeDesc \notin Open /\ FreeDesc \notin Fixed
  BY <1>2, DescriptorFree
<1>5. FreeSlot(s) \in Nat /\ FreeSlot(s) \notin DOMAIN clients[s]
  BY PlaceFree
<1>6. PICK f, d, c : f = FreeSlot(s) /\ d = FreeDesc /\ c = Head(backlog[s])
  OBVIOUS
<1>7. clients' = [clients EXCEPT ![s] = [i \in DOMAIN clients[s] \cup {f} |->
                    IF i = f THEN NewClient(c, d) ELSE clients[s][i]]]
  BY <1>6 DEF Accept, NewClient
<1>8. DOMAIN clients = Servers
  BY DEF LoopTypes, ClientTypes
<1>9. /\ DOMAIN clients' = Servers
      /\ clients'[s] = [i \in DOMAIN clients[s] \cup {f} |->
                          IF i = f THEN NewClient(c, d) ELSE clients[s][i]]
      /\ \A t \in Servers \ {s} : clients'[t] = clients[t]
  BY <1>7, <1>8
<1>10. /\ DOMAIN clients'[s] = DOMAIN clients[s] \cup {f}
       /\ clients'[s][f] = NewClient(c, d)
       /\ \A i \in DOMAIN clients[s] : clients'[s][i] = clients[s][i]
  BY <1>5, <1>6, <1>9
<1> QED BY <1>2, <1>3, <1>4, <1>5, <1>6, <1>9, <1>10

\* The first half of tcpServer_update.
LEMMA AcceptStep ==
  ASSUME LoopInv, NEW s \in Servers, Accept(s)
  PROVE  LoopInv'
<1> USE DEF LoopInv
<1>1. /\ pc = acceptAt[s] /\ pc' = readAt[s]
      /\ UNCHANGED <<sent, taken, ready, tty, terminated, pending>>
  BY DEF Accept
<1>2. /\ pc \in {"accept_app", "accept_debug"} /\ pc' \in {"read_app", "read_debug"}
      /\ pc' \in Steps /\ Watching /\ AllDrained("debug")
  BY <1>1 DEF acceptAt, readAt, Servers, Steps, Drained
<1>3. \A t \in Servers : pc' \in Pending(t) => t # s /\ pc \in Pending(t)
  BY <1>1 DEF acceptAt, readAt, Servers, Pending
<1>4. CASE listenDesc[s] \notin ready
  <2>1. UNCHANGED <<clients, registered, backlog>>
    BY <1>4 DEF Accept
  <2>2. LoopTypes'
    BY <1>1, <1>2, <2>1 DEF LoopTypes, ClientTypes
  <2>3. OneClient' /\ Queued' /\ OwnDescriptor'
    BY <1>1, <2>1 DEF OneClient, Queued, OwnDescriptor
  <2>4. Watching'
    BY <1>1, <1>2, <2>1 DEF Watching, Open
  <2>5. Drained'
    BY <1>2, <2>1 DEF Drained, AllDrained
  <2>6. StillReady'
    BY <1>1, <1>3, <2>1 DEF StillReady
  <2> QED BY <2>2, <2>3, <2>4, <2>5, <2>6
<1>5. CASE listenDesc[s] \in ready
  <2>1. PICK f, d, c : f = FreeSlot(s) /\ d = FreeDesc /\ c = Head(backlog[s])
    OBVIOUS
  <2>2. /\ c \in Conns /\ backlog[s] # <<>>
        /\ d \in Nat /\ d # NoDesc /\ d \notin Open /\ d \notin Fixed
        /\ f \in Nat /\ f \notin DOMAIN clients[s]
        /\ DOMAIN clients' = Servers
        /\ DOMAIN clients'[s] = DOMAIN clients[s] \cup {f}
        /\ clients'[s][f] = NewClient(c, d)
        /\ \A i \in DOMAIN clients[s] : clients'[s][i] = clients[s][i]
        /\ \A t \in Servers \ {s} : clients'[t] = clients[t]
    BY <1>5, <2>1, Accepted
  <2>3. /\ registered' = registered \cup {d}
        /\ backlog' = [backlog EXCEPT ![s] = Tail(backlog[s])]
    BY <1>5, <2>1 DEF Accept
  \* The clients after the step are those before it and the new one.
  <2>4. \A t \in Servers : \A i \in DOMAIN clients'[t] :
          \/ i \in DOMAIN clients[t] /\ clients'[t][i] = clients[t][i]
          \/ t = s /\ i = f /\ clients'[t][i] = NewClient(c, d)
    BY <2>2
  <2>5. NewClient(c, d) \in ClientRec /\ NewClient(c, d).conn = c /\ NewClient(c, d).desc = d
          /\ NewClient(c, d).rx = <<>>
    BY <2>2 DEF NewClient, ClientRec
  <2>6. backlog \in [Servers -> Seq(Conns)] /\ backlog[s] \in Seq(Conns)
    BY DEF LoopTypes
  <2>7. /\ backlog' \in [Servers -> Seq(Conns)]
        /\ \A t \in Servers : \A k \in 1 .. Len(backlog'[t]) :
             IF t = s THEN k + 1 \in 1 .. Len(backlog[s]) /\ backlog'[t][k] = backlog[s][k + 1]
             ELSE k \in 1 .. Len(backlog[t]) /\ backlog'[t][k] = backlog[t][k]
    <3>1. /\ Tail(backlog[s]) \in Seq(Conns) /\ Len(Tail(backlog[s])) = Len(backlog[s]) - 1
          /\ \A k \in 1 .. Len(Tail(backlog[s])) : Tail(backlog[s])[k] = backlog[s][k + 1]
      BY <2>2, <2>6, HeadTailProperties
    <3>2. Len(backlog[s]) \in Nat
      BY <2>6
    <3>3. /\ backlog'[s] = Tail(backlog[s])
          /\ \A t \in Servers \ {s} : backlog'[t] = backlog[t]
      BY <2>3, <2>6
    <3>4. backlog' \in [Servers -> Seq(Conns)]
      BY <2>3, <2>6, <3>1
    <3>5. \A k \in 1 .. Len(backlog'[s]) : k + 1 \in 1 .. Len(backlog[s])
      BY <3>1, <3>2, <3>3
    <3> QED BY <3>1, <3>3, <3>4, <3>5
  <2>8. 1 \in 1 .. Len(backlog[s]) /\ backlog[s][1] = c
    BY <2>1, <2>2, <2>6
  <2>9. \A t \in Servers : \A i \in DOMAIN clients[t] : clients[t][i].conn # c
    BY <2>8 DEF Queued
  <2>10. \A t \in Servers : \A k \in 1 .. Len(backlog'[t]) : backlog'[t][k] # c
    <3> TAKE t \in Servers
    <3> TAKE k \in 1 .. Len(backlog'[t])
    <3>1. CASE t = s
      <4>1. k + 1 # 1 /\ k + 1 \in 1 .. Len(backlog[s]) /\ backlog'[t][k] = backlog[s][k + 1]
        BY <2>7, <3>1
      <4> QED BY <2>8, <4>1 DEF Queued
    <3>2. CASE t # s
      BY <2>7, <2>8, <3>2 DEF Queued
    <3> QED BY <3>1, <3>2
  <2>11. OneClient'
    BY <2>4, <2>5, <2>9 DEF OneClient
  <2>12. Queued'
    <3>1. ASSUME NEW t \in Servers, NEW u \in Servers, NEW k \in 1 .. Len(backlog'[t]),
                 NEW l \in 1 .. Len(backlog'[u]), backlog'[t][k] = backlog'[u][l]
          PROVE  t = u /\ k = l
      <4>1. k \in Nat /\ l \in Nat
        OBVIOUS
      <4>2. PICK kk \in 1 .. Len(backlog[t]) :
              backlog'[t][k] = backlog[t][kk] /\ kk = IF t = s THEN k + 1 ELSE k
        BY <2>7
      <4>3. PICK ll \in 1 .. Len(backlog[u]) :
              backlog'[u][l] = backlog[u][ll] /\ ll = IF u = s THEN l + 1 ELSE l
        BY <2>7
      <4>4. t = u /\ kk = ll
        <5>1. backlog[t][kk] = backlog[u][ll]
          BY <3>1, <4>2, <4>3
        <5> QED BY <5>1 DEF Queued
      <4> QED BY <4>1, <4>2, <4>3, <4>4
    <3>2. ASSUME NEW t \in Servers, NEW u \in Servers, NEW k \in 1 .. Len(backlog'[t]),
                 NEW j \in DOMAIN clients'[u]
          PROVE  backlog'[t][k] # clients'[u][j].conn
      <4>1. PICK kk \in 1 .. Len(backlog[t]) : backlog'[t][k] = backlog[t][kk]
        BY <2>7
      <4> QED BY <2>4, <2>5, <2>10, <4>1 DEF Queued
    <3> QED BY <3>1, <3>2 DEF Queued
  <2>13. \A t \in Servers : \A i \in DOMAIN clients[t] : clients[t][i].desc # d
    BY <2>2 DEF Open
  <2>14. OwnDescriptor'
    <3>1. tty # d
      BY <2>2 DEF Open
    <3> QED BY <1>1, <2>2, <2>4, <2>5, <2>13, <3>1 DEF OwnDescriptor
  <2>15. Watching'
    <3>1. Open' = Open \cup {d}
      <4>1. \A t \in Servers : \A i \in DOMAIN clients[t] :
              i \in DOMAIN clients'[t] /\ clients'[t][i].desc = clients[t][i].desc
        BY <2>2
      <4>2. Open' \subseteq Open \cup {d}
        BY <1>1, <2>4, <2>5 DEF Open
      <4>3. Open \cup {d} \subseteq Open'
        BY <1>1, <2>2, <2>5, <4>1 DEF Open
      <4> QED BY <4>2, <4>3
    <3>2. \A t \in Servers : \A i \in DOMAIN clients'[t] :
            clients'[t][i].desc \in registered' <=> clients'[t][i].rx = <<>>
      BY <1>2, <2>3, <2>4, <2>5, <2>13 DEF Watching
    <3> QED BY <1>1, <1>2, <2>2, <2>3, <3>1, <3>2 DEF Watching
  <2>16. Drained'
    <3>1. AllDrained("debug")'
      BY <1>2, <2>4, <2>5 DEF AllDrained, Servers
    <3> QED BY <1>2, <3>1 DEF Drained
  <2>17. StillReady'
    BY <1>1, <1>3, <2>3, <2>6 DEF StillReady
  <2>18. LoopTypes'
    <3>1. ClientTypes'
      BY <2>2, <2>4, <2>5 DEF LoopTypes, ClientTypes
    <3> QED BY <1>1, <1>2, <2>7, <3>1 DEF LoopTypes
  <2> QED BY <2>11, <2>12, <2>14, <2>15, <2>16, <2>17, <2>18
<1> QED BY <1>4, <1>5

\* What a client has sent and the server has not read.
LEMMA UnreadType ==
  ASSUME LoopTypes, NEW c \in Conns
  PROVE  Unread(c) \in Seq(Symbols)
<1>1. Script[c] \in Seq(Symbols) /\ taken[c] \in Nat /\ sent[c] \in Nat /\ sent[c] <= Len(Script[c])
  BY ServerAssumption DEF Symbols, LoopTypes
<1>2. \A i \in (taken[c] + 1) .. sent[c] : Script[c][i] \in Symbols
  <2>1. \A i \in (taken[c] + 1) .. sent[c] : i \in 1 .. Len(Script[c])
    BY <1>1
  <2> QED BY <1>1, <2>1, ElementOfSeq
<1> QED BY <1>1, <1>2, SubSeqProperties DEF Unread

\* Clients that have left are removed, the others' buffers are filled.
LEMMA Taken ==
  ASSUME LoopInv, NEW s \in Servers, NEW these \in ReadUpTo(s), ReadThese(s, these)
  PROVE  \E gone \in SUBSET these :
           /\ gone = {i \in these : Unread(clients[s][i].conn) = <<>>}
           /\ \A i \in gone : clients[s][i].conn \in left
           /\ DOMAIN clients' = Servers
           /\ DOMAIN clients'[s] = DOMAIN clients[s] \ gone
           /\ \A i \in DOMAIN clients'[s] :
                IF i \in these
                THEN clients'[s][i] = [clients[s][i] EXCEPT !.rx = Unread(clients[s][i].conn)]
                ELSE clients'[s][i] = clients[s][i]
           /\ \A t \in Servers \ {s} : clients'[t] = clients[t]
<1> DEFINE gone == {i \in these : Unread(clients[s][i].conn) = <<>>}
<1>1. \A i \in gone : clients[s][i].conn \in left
  BY DEF ReadThese, CanRead
<1>2. clients' = [clients EXCEPT ![s] = [i \in DOMAIN clients[s] \ gone |->
                    IF i \in these
                    THEN [clients[s][i] EXCEPT !.rx = Unread(clients[s][i].conn)]
                    ELSE clients[s][i]]]
  BY DEF ReadThese
<1>3. DOMAIN clients = Servers
  BY DEF LoopInv, LoopTypes, ClientTypes
<1> HIDE DEF gone
<1>4. /\ DOMAIN clients' = Servers
      /\ clients'[s] = [i \in DOMAIN clients[s] \ gone |->
                          IF i \in these
                          THEN [clients[s][i] EXCEPT !.rx = Unread(clients[s][i].conn)]
                          ELSE clients[s][i]]
      /\ \A t \in Servers \ {s} : clients'[t] = clients[t]
  BY <1>2, <1>3
<1>5. DOMAIN clients'[s] = DOMAIN clients[s] \ gone
  BY <1>4
<1>6. \A i \in DOMAIN clients'[s] :
        IF i \in these
        THEN clients'[s][i] = [clients[s][i] EXCEPT !.rx = Unread(clients[s][i].conn)]
        ELSE clients'[s][i] = clients[s][i]
  BY <1>4, <1>5
<1>7. gone \in SUBSET these
  BY DEF gone
<1> QED BY <1>1, <1>4, <1>5, <1>6, <1>7 DEF gone

\* The second half of tcpServer_update.
LEMMA ReadStep ==
  ASSUME LoopInv, NEW s \in Servers, NEW these \in ReadUpTo(s), ReadThese(s, these)
  PROVE  LoopInv'
<1> USE DEF LoopInv
<1>1. /\ pc = readAt[s] /\ pc' = IF s = "app" THEN "accept_debug" ELSE "handle"
      /\ UNCHANGED <<backlog, sent, ready, tty, terminated, pending>>
      /\ registered' = registered \ {clients[s][i].desc : i \in these}
      /\ taken' = [c \in Conns |-> IF \E i \in these : clients[s][i].conn = c
                                   THEN sent[c] ELSE taken[c]]
  BY DEF ReadThese, netVars
<1>2. pc # "done" /\ Watching /\ AllDrained("debug") /\ pc' \in Steps /\ pc' # "done"
  BY <1>1 DEF readAt, Servers, Steps, Drained
<1>3. PICK gone \in SUBSET these :
           /\ gone = {i \in these : Unread(clients[s][i].conn) = <<>>}
           /\ DOMAIN clients' = Servers
           /\ DOMAIN clients'[s] = DOMAIN clients[s] \ gone
           /\ \A i \in DOMAIN clients'[s] :
                IF i \in these
                THEN clients'[s][i] = [clients[s][i] EXCEPT !.rx = Unread(clients[s][i].conn)]
                ELSE clients'[s][i] = clients[s][i]
           /\ \A t \in Servers \ {s} : clients'[t] = clients[t]
  BY Taken
<1>4. ClientTypes
  BY DEF LoopTypes
<1>5. \A t \in Servers : \A i \in DOMAIN clients'[t] :
        /\ i \in DOMAIN clients[t]
        /\ clients'[t][i] \in ClientRec
        /\ clients'[t][i].conn = clients[t][i].conn
        /\ clients'[t][i].desc = clients[t][i].desc
        /\ IF t = s /\ i \in these THEN clients'[t][i].rx # <<>>
           ELSE clients'[t][i].rx = clients[t][i].rx
  <2> TAKE t \in Servers
  <2> TAKE i \in DOMAIN clients'[t]
  <2>1. i \in DOMAIN clients[t] /\ clients[t][i] \in ClientRec
    BY <1>3, <1>4 DEF ClientTypes
  <2>2. CASE t = s /\ i \in these
    <3>1. clients[s][i].conn \in Conns
      BY <2>1, <2>2 DEF ClientRec
    <3>2. PICK u \in Seq(Symbols) : u = Unread(clients[s][i].conn)
      BY <3>1, UnreadType
    <3>3. u # <<>>
      BY <1>3, <2>2, <3>2
    <3>4. clients'[t][i] = [clients[t][i] EXCEPT !.rx = u]
      BY <1>3, <2>2, <3>2
    <3> QED BY <2>1, <2>2, <3>3, <3>4 DEF ClientRec
  <2>3. CASE ~(t = s /\ i \in these)
    BY <1>3, <2>1, <2>3
  <2> QED BY <2>2, <2>3
<1>6. OneClient'
  BY <1>5 DEF OneClient
<1>7. Queued'
  BY <1>1, <1>5 DEF Queued
<1>8. OwnDescriptor'
  BY <1>1, <1>5 DEF OwnDescriptor
<1>9. Watching'
  <2>1. these \subseteq DOMAIN clients[s]
    BY DEF ReadUpTo, ReadFrom
  <2>2. \A t \in Servers : \A i \in DOMAIN clients[t] :
          /\ clients[t][i].desc \notin Fixed /\ clients[t][i].desc # tty
          /\ clients[t][i].desc \in {clients[s][j].desc : j \in these}
               <=> t = s /\ i \in these
    BY <2>1 DEF OwnDescriptor
  <2>3. Fixed \subseteq registered'
    BY <1>1, <1>2, <2>1, <2>2 DEF Watching
  <2>4. tty' # NoDesc => tty' \in registered'
    BY <1>1, <1>2, <2>1, <2>2 DEF Watching
  <2>5. \A t \in Servers : \A i \in DOMAIN clients'[t] :
          clients'[t][i].desc \in registered' <=> clients'[t][i].rx = <<>>
    <3> TAKE t \in Servers
    <3> TAKE i \in DOMAIN clients'[t]
    <3>1. clients[t][i].desc \in registered' <=>
            clients[t][i].desc \in registered /\ ~(t = s /\ i \in these)
      BY <1>1, <1>5, <2>2
    <3> QED BY <1>2, <1>5, <3>1 DEF Watching
  <2>6. registered' \ Fixed \subseteq Open' \ {NoDesc}
    <3> SUFFICES ASSUME NEW d \in registered', d \notin Fixed
                 PROVE  d \in Open' /\ d # NoDesc
      OBVIOUS
    <3>1. d \in registered /\ d \in Open /\ d # NoDesc /\ d \notin {clients[s][j].desc : j \in these}
      BY <1>1, <1>2 DEF Watching
    <3>2. CASE d = tty
      BY <1>1, <3>1, <3>2 DEF Open
    <3>3. CASE d # tty
      <4>1. PICK t \in Servers : \E i \in DOMAIN clients[t] : d = clients[t][i].desc
        BY <3>1, <3>3 DEF Open
      <4>2. PICK i \in DOMAIN clients[t] : d = clients[t][i].desc
        BY <4>1
      <4>3. ~(t = s /\ i \in these)
        BY <3>1, <4>2
      <4>4. i \in DOMAIN clients'[t]
        BY <1>3, <4>2, <4>3
      <4>5. clients'[t][i].desc = d
        BY <1>5, <4>2, <4>4
      <4> QED BY <3>1, <4>4, <4>5 DEF Open
    <3> QED BY <3>2, <3>3
  <2> QED BY <2>3, <2>4, <2>5, <2>6 DEF Watching
<1>10. Drained'
  <2>1. s = "app" => AllDrained("debug")'
    BY <1>2, <1>3 DEF AllDrained, Servers
  <2> QED BY <1>1, <2>1 DEF Drained, Steps, Servers
<1>11. StillReady'
  BY <1>1 DEF StillReady, Pending, readAt, Servers
<1>12. LoopTypes'
  <2>1. ClientTypes'
    BY <1>3, <1>4, <1>5 DEF ClientTypes
  <2>2. /\ taken' \in [Conns -> Nat]
        /\ \A c \in Conns : taken'[c] <= sent'[c] /\ sent'[c] <= Len(Script[c])
    <3>1. \A c \in Conns : taken[c] \in Nat /\ sent[c] \in Nat /\ taken[c] <= sent[c]
                            /\ sent[c] <= Len(Script[c])
      BY DEF LoopTypes
    <3>2. \A c \in Conns : taken'[c] \in {taken[c], sent[c]}
      BY <1>1
    <3>3. \A c \in Conns : taken'[c] \in Nat /\ taken'[c] <= sent[c]
      BY <3>1, <3>2
    <3>4. taken' \in [Conns -> Nat]
      BY <1>1, <3>3
    <3> QED BY <1>1, <3>1, <3>3, <3>4
  <2> QED BY <1>1, <1>2, <2>1, <2>2 DEF LoopTypes
<1> QED BY <1>2, <1>6, <1>7, <1>8, <1>9, <1>10, <1>11, <1>12

\* Updated client structures.
LEMMA RecordUpdates ==
  ASSUME NEW r \in ClientRec, NEW x \in Seq(Symbols), NEW y \in Seq(Symbols), NEW z \in Nat,
         NEW u \in Seq(Tags)
  PROVE  /\ [r EXCEPT !.rx = x, !.command = y] \in ClientRec
         /\ [r EXCEPT !.rx = x, !.command = y, !.n = z] \in ClientRec
         /\ [r EXCEPT !.tx = u] \in ClientRec
BY DEF ClientRec

\* One byte of one client is handled: it is part of a command, or the command
\* goes to the rvex interface, or it is answered at once.
LEMMA Handled ==
  ASSUME LoopInv, HandleByte
  PROVE  \E id \in DOMAIN clients["debug"] : \E new \in ClientRec :
           LET cl  == clients["debug"][id]
               tag == [conn |-> cl.conn, n |-> cl.n + 1]
           IN /\ cl \in ClientRec /\ cl.rx # <<>>
              /\ new.conn = cl.conn /\ new.desc = cl.desc /\ new.rx = Tail(cl.rx)
              /\ \/ new.n = cl.n /\ new.tx = cl.tx /\ UNCHANGED pending
                 \/ /\ new.n = cl.n + 1 /\ new.tx = cl.tx
                    /\ pending' = Append(pending, [id |-> id, tag |-> tag])
                 \/ new.n = cl.n + 1 /\ new.tx = Append(cl.tx, tag) /\ UNCHANGED pending
              /\ DOMAIN clients' = Servers /\ clients'["app"] = clients["app"]
              /\ DOMAIN clients'["debug"] = DOMAIN clients["debug"]
              /\ clients'["debug"][id] = new
              /\ \A i \in DOMAIN clients["debug"] \ {id} : clients'["debug"][i] = clients["debug"][i]
              /\ registered' = registered \cup Rewatch(cl)
<1> USE DEF LoopInv
<1> DEFINE D == clients["debug"]
           id == Min(Waiting)
           cl == D[id]
           tag == [conn |-> cl.conn, n |-> cl.n + 1]
<1>1. DOMAIN clients = Servers /\ "debug" \in Servers /\ "app" \in Servers /\ "app" # "debug"
  BY DEF LoopTypes, ClientTypes, Servers
<1>2. id \in Waiting
  <2>1. Waiting \in SUBSET Nat /\ Waiting # {}
    BY <1>1 DEF Waiting, LoopTypes, ClientTypes, HandleByte
  <2> QED BY <2>1, LeastNumber
<1>3. id \in DOMAIN D /\ cl \in ClientRec /\ cl.rx # <<>>
  BY <1>1, <1>2 DEF Waiting, LoopTypes, ClientTypes
<1>4. registered' = registered \cup Rewatch(cl)
  BY DEF HandleByte
<1>5. /\ IF Head(cl.rx) = ";" THEN handleCommand(id, cl)
         ELSE /\ clients' = [clients EXCEPT !["debug"][id] =
                     [cl EXCEPT !.rx = Tail(@),
                                !.command = IF BufferFull(cl) THEN @ ELSE Append(@, Head(cl.rx))]]
              /\ UNCHANGED <<pending, terminated, pc>>
  BY DEF HandleByte
<1>6. /\ cl.conn \in Conns /\ cl.desc \in Nat /\ cl.rx \in Seq(Symbols)
      /\ cl.command \in Seq(Symbols) /\ cl.tx \in Seq(Tags) /\ cl.n \in Nat
  BY <1>3 DEF ClientRec
<1>7. Tail(cl.rx) \in Seq(Symbols) /\ Head(cl.rx) \in Symbols /\ tag \in Tags
      /\ Append(cl.tx, tag) \in Seq(Tags)
  BY <1>3, <1>6 DEF Tags
\* The table after the step, whatever the new record is.
<1>8. ASSUME NEW new, clients' = [clients EXCEPT !["debug"] = [D EXCEPT ![id] = new]]
      PROVE  /\ DOMAIN clients' = Servers /\ clients'["app"] = clients["app"]
             /\ DOMAIN clients'["debug"] = DOMAIN D
             /\ clients'["debug"][id] = new
             /\ \A i \in DOMAIN D \ {id} : clients'["debug"][i] = D[i]
  BY <1>1, <1>3, <1>8
<1>9. CASE Head(cl.rx) # ";"
  <2> DEFINE new == [cl EXCEPT !.rx = Tail(@),
                               !.command = IF BufferFull(cl) THEN @ ELSE Append(@, Head(cl.rx))]
  <2>1. new \in ClientRec
    <3>1. (IF BufferFull(cl) THEN cl.command ELSE Append(cl.command, Head(cl.rx))) \in Seq(Symbols)
      BY <1>6, <1>7
    <3> HIDE DEF cl
    <3> QED BY <1>3, <1>7, <3>1, RecordUpdates
  <2>3. clients' = [clients EXCEPT !["debug"] = [D EXCEPT ![id] = new]] /\ UNCHANGED pending
    BY <1>5, <1>9
  <2>4. new.conn = cl.conn /\ new.desc = cl.desc /\ new.rx = Tail(cl.rx) /\ new.n = cl.n /\ new.tx = cl.tx
    <3> HIDE DEF cl
    <3> QED BY <1>3 DEF ClientRec
  <2> HIDE DEF new, cl, id, D
  <2> QED BY <1>3, <1>4, <1>8, <2>1, <2>3, <2>4 DEF D, cl
<1>10. CASE Head(cl.rx) = ";"
  <2> DEFINE told == [cl EXCEPT !.rx = Tail(@), !.command = <<>>, !.n = @ + 1]
             answered == [told EXCEPT !.tx = Append(@, tag)]
             debug == [D EXCEPT ![id] = told]
  <2>1. told \in ClientRec /\ answered \in ClientRec
    <3>1. <<>> \in Seq(Symbols) /\ cl.n + 1 \in Nat
      BY <1>6
    <3> HIDE DEF cl, tag
    <3>2. told \in ClientRec /\ told.tx = cl.tx
      BY <1>3, <1>7, <3>1, RecordUpdates DEF ClientRec
    <3> HIDE DEF told
    <3> QED BY <1>7, <3>2, RecordUpdates
  <2>3. \/ /\ clients' = [clients EXCEPT !["debug"] = debug]
           /\ pending' = Append(pending, [id |-> id, tag |-> tag])
        \/ /\ clients' = [clients EXCEPT !["debug"] = SendStr(debug, id, tag)]
           /\ UNCHANGED pending
    <3>1. handleCommand(id, cl)
      BY <1>5, <1>10
    <3> HIDE DEF id, cl
    <3> QED BY <3>1 DEF handleCommand
  <2>4. SendStr(debug, id, tag) = [D EXCEPT ![id] = answered]
    <3> HIDE DEF tag, told, cl, id, D
    <3>1. id \in DOMAIN debug /\ debug[id] = told
      BY <1>3
    <3>2. SendStr(debug, id, tag) = [debug EXCEPT ![id].tx = Append(@, tag)]
      BY <3>1 DEF SendStr
    <3>3. [debug EXCEPT ![id].tx = Append(@, tag)] = [debug EXCEPT ![id] = answered]
      BY <3>1
    <3>4. [debug EXCEPT ![id] = answered] = [D EXCEPT ![id] = answered]
      OBVIOUS
    <3> QED BY <3>2, <3>3, <3>4
  <2>5. /\ told.conn = cl.conn /\ told.desc = cl.desc /\ told.rx = Tail(cl.rx) /\ told.n = cl.n + 1
        /\ told.tx = cl.tx
        /\ answered.conn = cl.conn /\ answered.desc = cl.desc /\ answered.rx = Tail(cl.rx)
        /\ answered.n = cl.n + 1 /\ answered.tx = Append(cl.tx, tag)
    <3> HIDE DEF cl, tag
    <3>1. /\ told.conn = cl.conn /\ told.desc = cl.desc /\ told.rx = Tail(cl.rx)
          /\ told.n = cl.n + 1 /\ told.tx = cl.tx
      BY <1>3 DEF ClientRec
    <3> HIDE DEF told
    <3> QED BY <2>1, <3>1 DEF ClientRec
  <2> HIDE DEF told, answered, cl, id, D
  <2>6. CASE clients' = [clients EXCEPT !["debug"] = [D EXCEPT ![id] = told]]
             /\ pending' = Append(pending, [id |-> id, tag |-> tag])
    BY <1>3, <1>4, <1>8, <2>1, <2>5, <2>6 DEF D, cl
  <2>7. CASE clients' = [clients EXCEPT !["debug"] = [D EXCEPT ![id] = answered]]
             /\ UNCHANGED pending
    BY <1>3, <1>4, <1>8, <2>1, <2>5, <2>7 DEF D, cl
  <2> QED BY <2>3, <2>4, <2>6, <2>7
<1> QED BY <1>9, <1>10

\* The flow of control in handleDebugServer.
LEMMA HandleControl ==
  ASSUME LoopInv, HandleByte
  PROVE  /\ pc' \in {"handle", "update"} /\ terminated' \in BOOLEAN
         /\ pc' = "update" => terminated'
<1>1. pc = "handle" /\ terminated \in BOOLEAN
  BY DEF HandleByte, LoopInv, LoopTypes
<1>2. CASE UNCHANGED <<terminated, pc>>
  BY <1>1, <1>2
<1>3. ASSUME NEW id, NEW cl, handleCommand(id, cl)
      PROVE  /\ pc' \in {"handle", "update"} /\ terminated' \in BOOLEAN
             /\ pc' = "update" => terminated'
  <2>1. terminated' \in BOOLEAN
    BY <1>1, <1>3 DEF handleCommand
  <2>2. pc' = pc \/ (pc' = "update" /\ terminated')
    BY <1>3 DEF handleCommand
  <2> QED BY <1>1, <2>1, <2>2
<1> QED BY <1>2, <1>3 DEF HandleByte

\* A byte of a command.
LEMMA HandleStep ==
  ASSUME LoopInv, HandleByte
  PROVE  LoopInv'
<1> USE DEF LoopInv
<1>1. /\ pc = "handle" /\ Watching /\ ClientTypes
      /\ UNCHANGED <<backlog, sent, taken, ready, tty>>
  BY DEF HandleByte, netVars, LoopTypes
<1>2. PICK id \in DOMAIN clients["debug"], new \in ClientRec :
        /\ clients["debug"][id] \in ClientRec /\ clients["debug"][id].rx # <<>>
        /\ new.conn = clients["debug"][id].conn /\ new.desc = clients["debug"][id].desc
        /\ new.rx = Tail(clients["debug"][id].rx)
        /\ DOMAIN clients' = Servers /\ clients'["app"] = clients["app"]
        /\ DOMAIN clients'["debug"] = DOMAIN clients["debug"]
        /\ clients'["debug"][id] = new
        /\ \A i \in DOMAIN clients["debug"] \ {id} : clients'["debug"][i] = clients["debug"][i]
        /\ registered' = registered \cup Rewatch(clients["debug"][id])
  BY Handled
<1>3. Servers = {"app", "debug"}
  BY DEF Servers
<1>4. \A s \in Servers : /\ DOMAIN clients'[s] = DOMAIN clients[s]
                         /\ \A i \in DOMAIN clients[s] :
                              IF s = "debug" /\ i = id THEN clients'[s][i] = new
                              ELSE clients'[s][i] = clients[s][i]
  BY <1>2, <1>3
<1>5. SameClients
  BY <1>2, <1>4 DEF SameClients
<1>6. OneClient' /\ Queued' /\ OwnDescriptor' /\ Open' = Open
  BY <1>1, <1>5, KeptClients
<1>7. ClientTypes'
  BY <1>1, <1>2, <1>4 DEF ClientTypes
<1>8. Watching'
  <2> DEFINE d == clients["debug"][id].desc
             r == clients["debug"][id].rx
  <2>1. r \in Seq(Symbols) /\ r # <<>>
    BY <1>2 DEF ClientRec
  <2>2. new.rx = <<>> <=> Len(r) = 1
    <3>1. Tail(r) \in Seq(Symbols) /\ Len(Tail(r)) = Len(r) - 1 /\ Len(r) \in Nat
      BY <2>1, HeadTailProperties
    <3>2. Tail(r) = <<>> <=> Len(Tail(r)) = 0
      BY <3>1, EmptySeq
    <3> QED BY <1>2, <3>1, <3>2
  <2>3. registered' = registered \cup (IF Len(r) = 1 THEN {d} ELSE {})
    BY <1>2 DEF Rewatch
  <2>4. d \in Open /\ d # NoDesc /\ d \notin registered
    BY <1>1, <1>2, <1>3 DEF Open, OwnDescriptor, Watching
  <2>5. \A s \in Servers : \A i \in DOMAIN clients[s] :
          clients[s][i].desc = d => s = "debug" /\ i = id
    BY <1>2, <1>3 DEF OwnDescriptor
  <2>6. \A s \in Servers : \A i \in DOMAIN clients'[s] :
          clients'[s][i].desc \in registered' <=> clients'[s][i].rx = <<>>
    <3> TAKE s \in Servers
    <3> TAKE i \in DOMAIN clients'[s]
    <3>1. i \in DOMAIN clients[s]
      BY <1>4
    <3>2. CASE s = "debug" /\ i = id
      BY <1>2, <2>2, <2>3, <2>4, <3>2
    <3>3. CASE ~(s = "debug" /\ i = id)
      <4>1. clients'[s][i] = clients[s][i] /\ clients[s][i].desc # d
        BY <1>4, <2>5, <3>1, <3>3
      <4>2. clients[s][i].desc \in registered <=> clients[s][i].rx = <<>>
        BY <1>1, <3>1 DEF Watching
      <4> QED BY <2>3, <4>1, <4>2
    <3> QED BY <3>2, <3>3
  <2> HIDE DEF d, r
  <2> QED BY <1>1, <1>6, <2>3, <2>4, <2>6 DEF Watching
<1>9. pc' \in {"handle", "update"} /\ terminated' \in BOOLEAN /\ (pc' = "update" => terminated')
  BY HandleControl
<1>10. Drained'
  BY <1>9 DEF Drained, Steps
<1>11. StillReady'
  BY <1>9 DEF StillReady, Pending
<1>12. pending' \in Seq(Requests)
  <2>1. PICK i \in DOMAIN clients["debug"] :
          \/ UNCHANGED pending
          \/ pending' = Append(pending, [id |-> i, tag |-> [conn |-> clients["debug"][i].conn,
                                                          n |-> clients["debug"][i].n + 1]])
    BY Handled
  <2>2. i \in Nat /\ clients["debug"][i].conn \in Conns /\ clients["debug"][i].n \in Nat
    BY <1>1, <1>3 DEF ClientTypes, ClientRec
  <2>3. [id |-> i, tag |-> [conn |-> clients["debug"][i].conn,
                            n |-> clients["debug"][i].n + 1]] \in Requests
    BY <2>2 DEF Requests, Tags
  <2>4. pending \in Seq(Requests)
    BY DEF LoopTypes
  <2>5. \A q \in Requests : Append(pending, q) \in Seq(Requests)
    BY <2>4
  <2> QED BY <2>1, <2>3, <2>4, <2>5
<1>13. LoopTypes'
  BY <1>1, <1>7, <1>9, <1>12 DEF LoopTypes, Steps
<1> QED BY <1>6, <1>8, <1>10, <1>11, <1>13

\* An answer goes into the buffer of whoever has the number now.
LEMMA Completed ==
  ASSUME LoopInv, Complete
  PROVE  LET id == Head(pending).id
             tag == Head(pending).tag
         IN /\ tag \in Tags
            /\ DOMAIN clients' = Servers /\ clients'["app"] = clients["app"]
            /\ DOMAIN clients'["debug"] = DOMAIN clients["debug"]
            /\ \A i \in DOMAIN clients["debug"] :
                 IF i = id
                 THEN clients'["debug"][i] = [clients["debug"][i] EXCEPT !.tx = Append(@, tag)]
                 ELSE clients'["debug"][i] = clients["debug"][i]
<1> DEFINE id == Head(pending).id
           tag == Head(pending).tag
           D == clients["debug"]
<1>1. Head(pending) \in Requests
  BY HeadTailProperties DEF Complete, LoopInv, LoopTypes
<1>2. tag \in Tags
  BY <1>1 DEF Requests
<1>3. DOMAIN clients = Servers /\ "debug" \in Servers /\ "app" \in Servers
  BY DEF LoopInv, LoopTypes, ClientTypes, Servers
<1>4. clients' = [clients EXCEPT !["debug"] = SendStr(D, id, tag)]
  BY DEF Complete
<1> HIDE DEF id, tag
<1>5. /\ DOMAIN clients' = Servers /\ clients'["app"] = clients["app"]
      /\ clients'["debug"] = SendStr(D, id, tag)
  BY <1>3, <1>4
<1>6. /\ DOMAIN SendStr(D, id, tag) = DOMAIN D
      /\ \A i \in DOMAIN D : IF i = id THEN SendStr(D, id, tag)[i] = [D[i] EXCEPT !.tx = Append(@, tag)]
                             ELSE SendStr(D, id, tag)[i] = D[i]
  BY DEF SendStr
<1> QED BY <1>2, <1>5, <1>6 DEF id, tag

\* A step that changes no buffer the loop reads from.
LEMMA QuietStep ==
  ASSUME LoopInv, SameClients, ClientTypes',
         \A s \in Servers : \A i \in DOMAIN clients[s] : clients'[s][i].rx = clients[s][i].rx,
         UNCHANGED <<backlog, sent, taken, registered, tty, terminated>>,
         pc # "done", pc' \in Steps, Drained', StillReady', pending' \in Seq(Requests)
  PROVE  LoopInv'
<1> USE DEF LoopInv
<1>1. OneClient' /\ Queued' /\ OwnDescriptor' /\ Open' = Open
  BY KeptClients
<1>2. LoopTypes'
  BY DEF LoopTypes
<1>3. Watching'
  BY <1>1 DEF Watching, SameClients
<1> QED BY <1>1, <1>2, <1>3

\* An answer of the rvex interface.
LEMMA CompleteStep ==
  ASSUME LoopInv, Complete
  PROVE  LoopInv'
<1> USE DEF LoopInv
<1>1. /\ pc = "update" /\ pending # <<>> /\ pending' = Tail(pending)
      /\ UNCHANGED <<pc, backlog, sent, taken, registered, ready, tty, terminated>>
  BY DEF Complete, netVars
<1>a. PICK id, tag : id = Head(pending).id /\ tag = Head(pending).tag
  OBVIOUS
<1>2.   /\ tag \in Tags
        /\ DOMAIN clients' = Servers /\ clients'["app"] = clients["app"]
        /\ DOMAIN clients'["debug"] = DOMAIN clients["debug"]
        /\ \A i \in DOMAIN clients["debug"] :
             IF i = id
             THEN clients'["debug"][i] = [clients["debug"][i] EXCEPT !.tx = Append(@, tag)]
             ELSE clients'["debug"][i] = clients["debug"][i]
  BY <1>a, Completed
<1>3. Servers = {"app", "debug"} /\ ClientTypes
  BY DEF Servers, LoopTypes
<1>4. \A s \in Servers : \A i \in DOMAIN clients[s] :
        /\ clients'[s][i] \in ClientRec
        /\ clients'[s][i].conn = clients[s][i].conn /\ clients'[s][i].desc = clients[s][i].desc
        /\ clients'[s][i].rx = clients[s][i].rx
  <2> TAKE s \in Servers
  <2> TAKE i \in DOMAIN clients[s]
  <2>1. clients[s][i] \in ClientRec
    BY <1>3 DEF ClientTypes
  <2>2. CASE s = "debug" /\ i = id
    <3>1. clients'[s][i] = [clients[s][i] EXCEPT !.tx = Append(clients[s][i].tx, tag)]
      BY <1>2, <2>2
    <3>2. Append(clients[s][i].tx, tag) \in Seq(Tags)
      BY <1>2, <2>1 DEF ClientRec
    <3> QED BY <2>1, <3>1, <3>2 DEF ClientRec
  <2>3. CASE ~(s = "debug" /\ i = id)
    BY <1>2, <1>3, <2>1, <2>3
  <2> QED BY <2>2, <2>3
<1>5. \A s \in Servers : DOMAIN clients'[s] = DOMAIN clients[s]
  BY <1>2, <1>3
<1>6. SameClients
  BY <1>2, <1>4, <1>5 DEF SameClients
<1>7. ClientTypes'
  BY <1>2, <1>3, <1>4, <1>5 DEF ClientTypes
<1>8. Drained'
  <2>1. \A s \in Servers : AllDrained(s)' <=> AllDrained(s)
    BY <1>4, <1>5 DEF AllDrained
  <2> QED BY <1>1, <1>3, <2>1 DEF Drained
<1>9. StillReady'
  BY <1>1 DEF StillReady, Pending
<1>10. pending' \in Seq(Requests)
  BY <1>1 DEF LoopTypes
<1> QED BY <1>1, <1>4, <1>6, <1>7, <1>8, <1>9, <1>10, QuietStep DEF LoopTypes

\* The end of handleDebugServer and of rvexIface.update.
LEMMA EndSteps ==
  ASSUME LoopInv, EndHandle \/ EndUpdate
  PROVE  LoopInv'
<1> USE DEF LoopInv
<1>1. /\ UNCHANGED <<backlog, sent, taken, clients, registered, ready, tty, pending, terminated>>
      /\ pc \in {"handle", "update"} /\ pc' \in {"update", "appdata"}
      /\ pc = "handle" => Waiting = {}
      /\ pc = "update" => pc' = "appdata"
  BY DEF EndHandle, EndUpdate, netVars
<1>2. ClientTypes' /\ SameClients
  BY <1>1 DEF LoopTypes, ClientTypes, SameClients
<1>3. Drained'
  <2>1. pc = "handle" => AllDrained("debug")
    BY <1>1 DEF Waiting, AllDrained
  <2> QED BY <1>1, <2>1 DEF Drained, AllDrained, Steps
<1>4. StillReady'
  BY <1>1 DEF StillReady, Pending
<1>5. pending' \in Seq(Requests) /\ pc' \in Steps
  BY <1>1 DEF LoopTypes, Steps
<1> QED BY <1>1, <1>2, <1>3, <1>4, <1>5, QuietStep

\* With a port the application's clients are drained and watched again.
LEMMA AppDataStep ==
  ASSUME LoopInv, handleApplicationData
  PROVE  LoopInv'
<1> USE DEF LoopInv
<1>1. /\ pc = "appdata" /\ pc' = "flush"
      /\ UNCHANGED <<backlog, sent, taken, ready, tty, pending, terminated>>
  BY DEF handleApplicationData, netVars
<1>2. Watching /\ ClientTypes /\ Servers = {"app", "debug"}
  BY <1>1 DEF LoopTypes, Servers
<1>3. StillReady'
  BY <1>1 DEF StillReady, Pending
<1>4. CASE tty = NoDesc
  <2>1. UNCHANGED <<clients, registered>>
    BY <1>4 DEF handleApplicationData
  <2>2. ClientTypes' /\ SameClients
    BY <1>2, <2>1 DEF ClientTypes, SameClients
  <2>3. Drained'
    BY <1>1, <1>4, <2>1 DEF Drained, AllDrained, Steps
  <2>4. pending' \in Seq(Requests) /\ pc' \in Steps
    BY <1>1 DEF LoopTypes, Steps
  <2> QED BY <1>1, <1>3, <2>1, <2>2, <2>3, <2>4, QuietStep
<1>5. CASE tty # NoDesc
  <2>1. /\ clients' = [clients EXCEPT !["app"] =
                         [i \in DOMAIN clients["app"] |-> [clients["app"][i] EXCEPT !.rx = <<>>]]]
        /\ registered' = registered \cup {clients["app"][i].desc : i \in DOMAIN clients["app"]}
    BY <1>5 DEF handleApplicationData
  <2>2. /\ DOMAIN clients' = Servers /\ clients'["debug"] = clients["debug"]
        /\ DOMAIN clients'["app"] = DOMAIN clients["app"]
        /\ \A i \in DOMAIN clients["app"] :
             clients'["app"][i] = [clients["app"][i] EXCEPT !.rx = <<>>]
    BY <1>2, <2>1 DEF ClientTypes
  <2>3. \A i \in DOMAIN clients["app"] :
          /\ clients'["app"][i] \in ClientRec
          /\ clients'["app"][i].conn = clients["app"][i].conn
          /\ clients'["app"][i].desc = clients["app"][i].desc
          /\ clients'["app"][i].rx = <<>>
    <3>1. \A i \in DOMAIN clients["app"] : clients["app"][i] \in ClientRec
      BY <1>2 DEF ClientTypes
    <3>2. <<>> \in Seq(Symbols)
      BY EmptySeq
    <3> QED BY <2>2, <3>1, <3>2 DEF ClientRec
  <2>4. SameClients
    BY <1>2, <2>2, <2>3 DEF SameClients
  <2>5. OneClient' /\ Queued' /\ OwnDescriptor' /\ Open' = Open
    BY <1>1, <2>4, KeptClients
  <2>6. ClientTypes'
    BY <1>2, <2>2, <2>3 DEF ClientTypes
  <2>7. Watching'
    <3>1. {clients["app"][i].desc : i \in DOMAIN clients["app"]} \subseteq Open \ {NoDesc}
      BY <1>2 DEF Open, OwnDescriptor
    <3>2. \A i \in DOMAIN clients'["app"] :
            clients'["app"][i].desc \in registered' /\ clients'["app"][i].rx = <<>>
      <4>1. \A i \in DOMAIN clients["app"] : clients["app"][i].desc \in registered'
        BY <2>1
      <4> QED BY <2>2, <2>3, <4>1
    <3>3. \A i \in DOMAIN clients'["debug"] :
            clients'["debug"][i].desc \in registered' <=> clients'["debug"][i].rx = <<>>
      <4>1. \A i \in DOMAIN clients["debug"], j \in DOMAIN clients["app"] :
              clients["debug"][i].desc # clients["app"][j].desc
        BY <1>2 DEF OwnDescriptor
      <4>2. \A i \in DOMAIN clients["debug"] :
              clients["debug"][i].desc \in registered' <=> clients["debug"][i].desc \in registered
        BY <2>1, <4>1
      <4>3. \A i \in DOMAIN clients["debug"] :
              clients["debug"][i].desc \in registered <=> clients["debug"][i].rx = <<>>
        BY <1>2 DEF Watching
      <4> QED BY <2>2, <4>2, <4>3
    <3> QED BY <1>1, <1>2, <2>1, <2>5, <3>1, <3>2, <3>3 DEF Watching
  <2>8. Drained'
    <3>1. AllDrained("app")' /\ (AllDrained("debug")' <=> AllDrained("debug"))
      BY <2>2, <2>3 DEF AllDrained
    <3> QED BY <1>1, <3>1 DEF Drained, Steps
  <2>9. LoopTypes'
    BY <1>1, <2>6 DEF LoopTypes, Steps
  <2> QED BY <1>3, <2>5, <2>7, <2>8, <2>9
<1> QED BY <1>4, <1>5

\* The server ends.
LEMMA CleanupStep ==
  ASSUME LoopInv, cleanup, UNCHANGED <<backlog, sent, taken>>, terminated' \in BOOLEAN
  PROVE  LoopInv'
<1> USE DEF LoopInv
<1>1. /\ clients' = [s \in Servers |-> <<>>] /\ pending' = <<>> /\ tty' = NoDesc /\ pc' = "done"
      /\ Servers = {"app", "debug"}
  BY DEF cleanup, Servers
<1>2. DOMAIN clients' = Servers /\ \A s \in Servers : DOMAIN clients'[s] = {}
  BY <1>1
<1>3. OneClient'
  BY <1>2 DEF OneClient
<1>4. Queued'
  BY <1>1, <1>2 DEF Queued
<1>5. OwnDescriptor'
  BY <1>1, <1>2 DEF OwnDescriptor, NoDesc, Fixed
<1>6. LoopTypes'
  <2>1. ClientTypes'
    BY <1>2 DEF ClientTypes
  <2> QED BY <1>1, <2>1, EmptySeq DEF LoopTypes, Steps, NoDesc
<1>7. Drained' /\ StillReady'
  BY <1>1 DEF Drained, StillReady, Pending, Steps
<1> QED BY <1>1, <1>3, <1>4, <1>5, <1>6, <1>7

\* The round ends, or the server does.
LEMMA FlushStep ==
  ASSUME LoopInv, Flush \/ Sigpipe
  PROVE  LoopInv'
<1> USE DEF LoopInv
<1>1. PICK these \in FlushUpTo :
        /\ WriteOut(these)
        /\ \/ cleanup /\ terminated' \in {Terminating, terminated}
           \/ /\ terminated' = Terminating /\ ~terminated'
              /\ clients' = [clients EXCEPT !["debug"] = [i \in DOMAIN clients["debug"] |->
                     IF i \in these THEN [clients["debug"][i] EXCEPT !.tx = <<>>]
                     ELSE clients["debug"][i]]]
              /\ pc' = "select"
              /\ UNCHANGED <<pending, registered, tty>>
  BY DEF Flush, Sigpipe
<1>2. /\ pc = "flush" /\ UNCHANGED <<backlog, sent, taken>>
      /\ ClientTypes /\ Servers = {"app", "debug"} /\ terminated \in BOOLEAN
  BY <1>1 DEF WriteOut, netVars, LoopTypes, Servers
<1>3. Terminating \in BOOLEAN /\ (terminated => Terminating)
  BY <1>2 DEF Terminating
<1>4. CASE cleanup /\ terminated' \in {Terminating, terminated}
  <2>1. terminated' \in BOOLEAN
    BY <1>2, <1>3, <1>4
  <2> HIDE DEF LoopInv
  <2> QED BY <1>2, <1>4, <2>1, CleanupStep
<1>5. CASE ~cleanup
  <2>1. /\ clients' = [clients EXCEPT !["debug"] = [i \in DOMAIN clients["debug"] |->
               IF i \in these THEN [clients["debug"][i] EXCEPT !.tx = <<>>]
               ELSE clients["debug"][i]]]
        /\ pc' = "select" /\ UNCHANGED <<pending, registered, tty>>
        /\ terminated' = Terminating /\ ~terminated'
    BY <1>1, <1>5
  <2>2. /\ DOMAIN clients' = Servers
        /\ \A s \in Servers : /\ DOMAIN clients'[s] = DOMAIN clients[s]
                              /\ \A i \in DOMAIN clients[s] :
                                   \/ clients'[s][i] = [clients[s][i] EXCEPT !.tx = <<>>]
                                   \/ clients'[s][i] = clients[s][i]
    <3>1. DOMAIN clients = Servers
      BY <1>2 DEF ClientTypes
    <3> QED BY <1>2, <2>1, <3>1
  <2>3. \A s \in Servers : \A i \in DOMAIN clients[s] :
          /\ clients'[s][i] \in ClientRec
          /\ clients'[s][i].conn = clients[s][i].conn /\ clients'[s][i].desc = clients[s][i].desc
          /\ clients'[s][i].rx = clients[s][i].rx
    <3> TAKE s \in Servers
    <3> TAKE i \in DOMAIN clients[s]
    <3>1. clients[s][i] \in ClientRec
      BY <1>2 DEF ClientTypes
    <3>2. <<>> \in Seq(Tags)
      BY EmptySeq
    <3>3. \/ clients'[s][i] = [clients[s][i] EXCEPT !.tx = <<>>]
          \/ clients'[s][i] = clients[s][i]
      BY <2>2
    <3> QED BY <3>1, <3>2, <3>3 DEF ClientRec
  <2>4. SameClients /\ ClientTypes'
    BY <1>2, <2>2, <2>3 DEF SameClients, ClientTypes
  <2>5. OneClient' /\ Queued' /\ OwnDescriptor' /\ Open' = Open
    BY <1>2, <2>1, <2>4, KeptClients
  <2>6. Watching'
    BY <1>2, <2>1, <2>2, <2>3, <2>5 DEF Watching
  <2>7. Drained'
    <3>1. \A s \in Servers : AllDrained(s)' <=> AllDrained(s)
      BY <2>2, <2>3 DEF AllDrained
    <3> QED BY <1>2, <1>3, <2>1, <3>1 DEF Drained, Steps
  <2>8. StillReady'
    BY <2>1 DEF StillReady, Pending
  <2>9. LoopTypes'
    BY <1>2, <1>3, <2>1, <2>4 DEF LoopTypes, Steps
  <2> QED BY <2>5, <2>6, <2>7, <2>8, <2>9
<1> QED BY <1>1, <1>4, <1>5

\* Every step of clients and loop keeps the invariant.
LEMMA LoopStep ==
  ASSUME LoopInv, [Next]_vars
  PROVE  LoopInv'
<1>1. CASE UNCHANGED vars
  <2>1. UNCHANGED <<pc, backlog, sent, taken, clients, registered, ready, tty, terminated, pending>>
    BY <1>1 DEF vars, netVars
  <2>2. LoopTypes'
    BY <2>1 DEF LoopInv, LoopTypes, ClientTypes
  <2>3. OneClient' /\ Queued' /\ OwnDescriptor'
    BY <2>1 DEF LoopInv, OneClient, Queued, OwnDescriptor
  <2>4. (pc' # "done" => Watching') /\ Drained' /\ StillReady'
    BY <2>1 DEF LoopInv, Watching, Open, Drained, AllDrained, StillReady
  <2> QED BY <2>2, <2>3, <2>4 DEF LoopInv
<1>2. CASE World
  BY <1>2, WorldStep
<1>3. CASE Loop
  BY <1>3, SelectStep, SerialStep, AcceptStep, ReadStep, HandleStep, EndSteps, CompleteStep,
     AppDataStep, FlushStep DEF Loop, Read
<1> QED BY <1>1, <1>2, <1>3 DEF Next

\* The loop starts with nothing but the serial port open.
LEMMA LoopStart ==
  ASSUME Init
  PROVE  LoopInv
<1>1. /\ pc = "select" /\ tty = 1 /\ registered = Fixed \cup {1} /\ ~terminated /\ pending = <<>>
      /\ clients = [s \in Servers |-> <<>>] /\ backlog = [s \in Servers |-> <<>>]
      /\ sent = [c \in Conns |-> 0] /\ taken = [c \in Conns |-> 0] /\ terminated = FALSE
  BY DEF Init
<1>2. DOMAIN clients = Servers /\ \A s \in Servers : DOMAIN clients[s] = {}
  BY <1>1
<1>3. \A s \in Servers : backlog[s] = <<>> /\ Len(backlog[s]) = 0
  BY <1>1
<1>4. OneClient /\ Queued /\ OwnDescriptor
  BY <1>1, <1>2, <1>3 DEF OneClient, Queued, OwnDescriptor, Fixed
<1>5. Watching
  BY <1>1, <1>2 DEF Watching, Open, NoDesc
<1>6. Drained /\ StillReady
  BY <1>1, <1>2 DEF Drained, AllDrained, StillReady, Pending, Servers
<1>7. LoopTypes
  <2>1. \A c \in Conns : Script[c] \in Seq(Symbols)
    BY ServerAssumption DEF Symbols
  <2>2. \A c \in Conns : Len(Script[c]) \in Nat
    BY <2>1
  <2>3. ClientTypes
    BY <1>2 DEF ClientTypes
  <2>4. backlog \in [Servers -> Seq(Conns)] /\ pending \in Seq(Requests)
    BY <1>1, EmptySeq
  <2>5. /\ sent \in [Conns -> Nat] /\ taken \in [Conns -> Nat]
        /\ \A c \in Conns : taken[c] = 0 /\ sent[c] = 0
    BY <1>1
  <2>6. \A c \in Conns : taken[c] <= sent[c] /\ sent[c] <= Len(Script[c])
    BY <2>2, <2>5
  <2> QED BY <1>1, <2>3, <2>4, <2>5, <2>6 DEF LoopTypes, Steps
<1> QED BY <1>4, <1>5, <1>6, <1>7 DEF LoopInv

\* At every call of the main loop, connections and descriptors have one place,
\* and a client is watched exactly while its buffer is drained (tcpServer_update,
\* tcpServer_receive, select_register).
THEOREM LoopInvariant == Spec => []LoopInv
<1>1. Init => LoopInv
  BY LoopStart
<1>2. LoopInv /\ [Next]_vars => LoopInv'
  BY LoopStep
<1> QED BY <1>1, <1>2, PTL DEF Spec

\* When rvsrv sleeps in select_wait it watches all it has to, and nothing that
\* is closed (main.c, select.c).
THEOREM SleepIsWatched == Spec => []Watched
<1>1. LoopInv => Watched
  <2> SUFFICES ASSUME LoopInv, pc = "select"
               PROVE  /\ registered \ Fixed \subseteq Open
                      /\ Fixed \subseteq registered
                      /\ tty # NoDesc => tty \in registered
                      /\ \A s \in Servers : \A i \in DOMAIN clients[s] :
                           \/ clients[s][i].desc \in registered /\ clients[s][i].rx = <<>>
                           \/ s = "app" /\ tty = NoDesc /\ clients[s][i].rx # <<>>
    BY DEF Watched
  <2>1. Watching /\ AllDrained("debug") /\ (tty # NoDesc => AllDrained("app"))
    BY DEF LoopInv, Drained, Steps
  <2>2. \A s \in Servers : \A i \in DOMAIN clients[s] :
          clients[s][i].rx # <<>> => s = "app" /\ tty = NoDesc
    BY <2>1 DEF AllDrained, Servers
  <2> QED BY <2>1, <2>2 DEF Watching
<1> QED BY <1>1, LoopInvariant, PTL
-----------------------------------------------------------------------------
(* Who gets which answer.                                                   *)

Told(i) == Replies(clients["debug"][i])

\* The tags in the interface's queue and in the answers of the clients.
Underway(tag) ==
  \/ \E p \in 1 .. Len(pending) : pending[p].tag = tag
  \/ \E i \in DOMAIN clients["debug"] : \E k \in 1 .. Len(Told(i)) : Told(i)[k] = tag

\* Connections the debug server has not served yet, and still may.
Unheard(c) ==
  /\ \A i \in DOMAIN clients["debug"] : clients["debug"][i].conn # c
  /\ c \notin left \/ \E s \in Servers : \E k \in 1 .. Len(backlog[s]) : backlog[s][k] = c

\* No answer is there twice, and none is still asked for.
Once ==
  /\ \A p, q \in 1 .. Len(pending) : pending[p].tag = pending[q].tag => p = q
  /\ \A i \in DOMAIN clients["debug"] : \A k, l \in 1 .. Len(Told(i)) :
       Told(i)[k] = Told(i)[l] => k = l
  /\ \A i \in DOMAIN clients["debug"] : \A p \in 1 .. Len(pending), k \in 1 .. Len(Told(i)) :
       pending[p].tag # Told(i)[k]

\* Tags are of commands that were given: a client counts its own, and one that
\* was not served yet has given none.
Counted ==
  \A tag \in Tags : Underway(tag) =>
    /\ \A i \in DOMAIN clients["debug"] :
         clients["debug"][i].conn = tag.conn => tag.n <= clients["debug"][i].n
    /\ ~Unheard(tag.conn)

NothingSaid == \A c \in Conns : Unheard(c) => received[c] = <<>>

\* Only heirs have requests and answers of others.
Heritage ==
  /\ \A p \in 1 .. Len(pending) : pending[p].id \in DOMAIN clients["debug"] =>
       \/ clients["debug"][pending[p].id].conn \in heirs
       \/ clients["debug"][pending[p].id].conn = pending[p].tag.conn
  /\ \A i \in DOMAIN clients["debug"] : clients["debug"][i].conn \notin heirs =>
       \A k \in 1 .. Len(Told(i)) : Told(i)[k].conn = clients["debug"][i].conn

Answered(i, k) ==
  LET tag == [conn |-> clients["debug"][i].conn, n |-> k]
  IN \/ \E l \in 1 .. Len(Told(i)) : Told(i)[l] = tag
     \/ \E p \in 1 .. Len(pending) : pending[p] = [id |-> i, tag |-> tag]

Remembered == \A i \in DOMAIN clients["debug"] : \A k \in 1 .. clients["debug"][i].n : Answered(i, k)

\* A server that has stopped has no clients.
AnswerInv ==
  /\ received \in [Conns -> Seq(Tags)]
  /\ pc = "done" => DOMAIN clients["debug"] = {}
  /\ pc # "done" => Once /\ Counted /\ NothingSaid /\ Heritage /\ Remembered

\* A step that neither asks nor answers; it may end clients, or write their
\* answers out.
LEMMA NothingNew ==
  ASSUME AnswerInv, LoopInv, pc # "done", pc' # "done",
         received' \in [Conns -> Seq(Tags)],
         DOMAIN clients'["debug"] \subseteq DOMAIN clients["debug"],
         \A i \in DOMAIN clients'["debug"] :
           /\ clients'["debug"][i].conn = clients["debug"][i].conn
           /\ clients'["debug"][i].n = clients["debug"][i].n
           /\ Told(i)' = Told(i),
         \A c \in Conns : Unheard(c)' => Unheard(c) /\ received'[c] = received[c],
         UNCHANGED <<pending, heirs>>
  PROVE  AnswerInv'
<1> USE DEF AnswerInv
<1> HIDE DEF Told, Unheard
<1>1. Once'
  <2>1. /\ \A p, q \in 1 .. Len(pending') : pending'[p].tag = pending'[q].tag => p = q
        /\ \A i \in DOMAIN clients["debug"] : \A k, l \in 1 .. Len(Told(i)) :
             Told(i)[k] = Told(i)[l] => k = l
        /\ \A i \in DOMAIN clients["debug"] :
             \A p \in 1 .. Len(pending'), k \in 1 .. Len(Told(i)) : pending'[p].tag # Told(i)[k]
    BY DEF Once
  <2>2. \A i \in DOMAIN clients'["debug"] : i \in DOMAIN clients["debug"] /\ Told(i)' = Told(i)
    OBVIOUS
  <2> QED BY ONLY <2>1, <2>2 DEF Once
<1>2. Counted'
  <2> SUFFICES ASSUME NEW tag \in Tags, Underway(tag)'
               PROVE  /\ \A i \in DOMAIN clients'["debug"] :
                           clients'["debug"][i].conn = tag.conn => tag.n <= clients'["debug"][i].n
                      /\ ~Unheard(tag.conn)'
    BY DEF Counted
  <2>1. Underway(tag) /\ tag.conn \in Conns
    BY DEF Underway, Tags
  <2>2. /\ \A i \in DOMAIN clients["debug"] :
             clients["debug"][i].conn = tag.conn => tag.n <= clients["debug"][i].n
        /\ ~Unheard(tag.conn)
    BY <2>1 DEF Counted
  <2> QED BY <2>1, <2>2
<1>3. NothingSaid'
  BY DEF NothingSaid
<1>4. Heritage'
  BY DEF Heritage
<1>5. Remembered'
  <2> SUFFICES ASSUME NEW i \in DOMAIN clients'["debug"], NEW k \in 1 .. clients'["debug"][i].n
               PROVE  Answered(i, k)'
    BY DEF Remembered
  <2>1. /\ i \in DOMAIN clients["debug"] /\ Told(i)' = Told(i)
        /\ clients'["debug"][i].conn = clients["debug"][i].conn
        /\ clients'["debug"][i].n = clients["debug"][i].n
    OBVIOUS
  <2>2. Answered(i, k)
    BY <2>1 DEF Remembered
  <2> QED BY <2>1, <2>2 DEF Answered
<1> QED BY <1>1, <1>2, <1>3, <1>4, <1>5

\* An answer is added to those of a client.
LEMMA OneMore ==
  ASSUME NEW r \in Seq(Tags), NEW x \in Seq(Tags), NEW tag \in Tags
  PROVE  /\ r \o Append(x, tag) = Append(r \o x, tag)
         /\ r \o x \in Seq(Tags)
         /\ Len(Append(r \o x, tag)) = Len(r \o x) + 1
         /\ Append(r \o x, tag)[Len(r \o x) + 1] = tag
         /\ \A k \in 1 .. Len(r \o x) : Append(r \o x, tag)[k] = (r \o x)[k]
<1>1. r \o x \in Seq(Tags) /\ Append(x, tag) \in Seq(Tags)
  OBVIOUS
<1>2. r \o Append(x, tag) = Append(r \o x, tag)
  OBVIOUS
<1> QED BY <1>1, <1>2

\* What clients have been told are sequences of tags.
LEMMA ToldTypes ==
  ASSUME AnswerInv, LoopInv
  PROVE  \A i \in DOMAIN clients["debug"] :
           /\ Told(i) \in Seq(Tags) /\ Len(Told(i)) \in Nat
           /\ Told(i) = received[clients["debug"][i].conn] \o clients["debug"][i].tx
           /\ \A k \in 1 .. Len(Told(i)) : Told(i)[k] \in Tags
           /\ clients["debug"][i].conn \in Conns /\ clients["debug"][i].n \in Nat
           /\ clients["debug"][i].tx \in Seq(Tags)
           /\ received[clients["debug"][i].conn] \in Seq(Tags)
<1> TAKE i \in DOMAIN clients["debug"]
<1>1. clients["debug"][i] \in ClientRec
  BY DEF LoopInv, LoopTypes, ClientTypes, Servers
<1>2. /\ clients["debug"][i].conn \in Conns /\ clients["debug"][i].tx \in Seq(Tags)
      /\ clients["debug"][i].n \in Nat
  BY <1>1 DEF ClientRec
<1>3. received[clients["debug"][i].conn] \in Seq(Tags)
  BY <1>2 DEF AnswerInv
<1>4. Told(i) = received[clients["debug"][i].conn] \o clients["debug"][i].tx
  BY DEF Told, Replies
<1>5. Told(i) \in Seq(Tags)
  BY <1>2, <1>3, <1>4
<1>6. Len(Told(i)) \in Nat /\ \A k \in 1 .. Len(Told(i)) : Told(i)[k] \in Tags
  BY <1>5, ElementOfSeq, LenProperties
<1> QED BY <1>2, <1>3, <1>4, <1>5, <1>6

\* A connection that comes has no answers and no requests.
LEMMA AcceptAnswers ==
  ASSUME AnswerInv, LoopInv, LoopInv', Accept("debug"), listenDesc["debug"] \in ready
  PROVE  AnswerInv'
<1> USE DEF AnswerInv
<1>1. PICK f, d, c : f = FreeSlot("debug") /\ d = FreeDesc /\ c = Head(backlog["debug"])
  OBVIOUS
<1>2. /\ UNCHANGED <<left, pending, received>> /\ pc # "done" /\ pc' # "done"
      /\ backlog' = [backlog EXCEPT !["debug"] = Tail(@)]
      /\ heirs' = IF \E p \in DOMAIN pending : pending[p].id = f THEN heirs \cup {c} ELSE heirs
  BY <1>1 DEF Accept, acceptAt, readAt
<1>3. /\ backlog["debug"] # <<>> /\ c \in Conns /\ f \notin DOMAIN clients["debug"]
      /\ DOMAIN clients'["debug"] = DOMAIN clients["debug"] \cup {f}
      /\ clients'["debug"][f] = NewClient(c, d)
      /\ \A i \in DOMAIN clients["debug"] : clients'["debug"][i] = clients["debug"][i]
  BY <1>1, Accepted DEF Servers
<1>4. /\ backlog \in [Servers -> Seq(Conns)] /\ pending \in Seq(Requests) /\ "debug" \in Servers
      /\ DOMAIN pending = 1 .. Len(pending)
  BY DEF LoopInv, LoopTypes, Servers
<1>5. backlog["debug"][1] = c /\ 1 \in 1 .. Len(backlog["debug"])
  BY <1>1, <1>3, <1>4
<1>6. Unheard(c)
  <2>1. \A i \in DOMAIN clients["debug"] : clients["debug"][i].conn # c
    BY <1>4, <1>5 DEF LoopInv, Queued
  <2> QED BY <1>4, <1>5, <2>1 DEF Unheard
<1>7. received[c] = <<>> /\ Told(f)' = <<>>
  <2>1. received[c] = <<>>
    BY <1>2, <1>3, <1>6 DEF NothingSaid
  <2>2. Told(f)' = received'[c] \o <<>>
    BY <1>3 DEF Told, Replies, NewClient
  <2> QED BY <1>2, <2>1, <2>2
<1>8. clients'["debug"][f].conn = c /\ clients'["debug"][f].n = 0
  BY <1>3 DEF NewClient
<1>9. \A i \in DOMAIN clients["debug"] : Told(i)' = Told(i)
  BY <1>2, <1>3 DEF Told, Replies
<1>10. \A e \in Conns : Unheard(e)' => Unheard(e)
  <2> SUFFICES ASSUME NEW e \in Conns, Unheard(e)'
               PROVE  Unheard(e)
    OBVIOUS
  <2>1. \A i \in DOMAIN clients["debug"] : clients["debug"][i].conn # e
    BY <1>3 DEF Unheard
  <2>2. ASSUME NEW s \in Servers, NEW k \in 1 .. Len(backlog'[s]), backlog'[s][k] = e
        PROVE  \E l \in 1 .. Len(backlog[s]) : backlog[s][l] = e
    <3>1. CASE s = "debug"
      <4>1. backlog'[s] = Tail(backlog[s]) /\ backlog[s] \in Seq(Conns) /\ backlog[s] # <<>>
        BY <1>2, <1>3, <1>4, <3>1
      <4>2. k + 1 \in 1 .. Len(backlog[s]) /\ backlog'[s][k] = backlog[s][k + 1]
        BY <4>1
      <4> QED BY <2>2, <4>2
    <3>2. CASE s # "debug"
      BY <1>2, <1>4, <2>2, <3>2
    <3> QED BY <3>1, <3>2
  <2>3. e \notin left \/ \E s \in Servers : \E k \in 1 .. Len(backlog'[s]) : backlog'[s][k] = e
    BY <1>2 DEF Unheard
  <2> QED BY <2>1, <2>2, <2>3 DEF Unheard
<1> HIDE DEF Told, Unheard
<1>11. Len(Told(f)') = 0
  BY <1>7
<1>12. Once'
  BY <1>2, <1>3, <1>9, <1>11 DEF Once
<1>13. Counted'
  <2> SUFFICES ASSUME NEW tag \in Tags, Underway(tag)'
               PROVE  /\ \A i \in DOMAIN clients'["debug"] :
                           clients'["debug"][i].conn = tag.conn => tag.n <= clients'["debug"][i].n
                      /\ ~Unheard(tag.conn)'
    BY DEF Counted
  <2>1. Underway(tag) /\ tag.conn \in Conns
    BY <1>2, <1>3, <1>9, <1>11 DEF Underway, Tags
  <2>2. /\ \A i \in DOMAIN clients["debug"] :
             clients["debug"][i].conn = tag.conn => tag.n <= clients["debug"][i].n
        /\ ~Unheard(tag.conn)
    BY <1>2, <2>1 DEF Counted
  <2>3. tag.conn # c
    BY <1>6, <2>2
  <2> QED BY <1>3, <1>8, <1>10, <2>1, <2>2, <2>3
<1>14. NothingSaid'
  BY <1>2, <1>10 DEF NothingSaid
<1>15. Heritage'
  <2>1. \A p \in 1 .. Len(pending) : pending[p].id \in DOMAIN clients'["debug"] =>
          \/ clients'["debug"][pending[p].id].conn \in heirs'
          \/ clients'["debug"][pending[p].id].conn = pending[p].tag.conn
    <3> TAKE p \in 1 .. Len(pending)
    <3>1. CASE pending[p].id = f
      BY <1>2, <1>4, <1>8, <3>1
    <3>2. CASE pending[p].id # f
      <4>1. pending[p].id \in DOMAIN clients["debug"] =>
              \/ clients["debug"][pending[p].id].conn \in heirs
              \/ clients["debug"][pending[p].id].conn = pending[p].tag.conn
        BY <1>2 DEF Heritage
      <4> QED BY <1>2, <1>3, <3>2, <4>1
    <3> QED BY <3>1, <3>2
  <2>2. \A i \in DOMAIN clients'["debug"] : clients'["debug"][i].conn \notin heirs' =>
          \A k \in 1 .. Len(Told(i)') : Told(i)'[k].conn = clients'["debug"][i].conn
    <3> TAKE i \in DOMAIN clients'["debug"]
    <3>1. CASE i = f
      BY <1>11, <3>1
    <3>2. CASE i # f
      <4>1. i \in DOMAIN clients["debug"] /\ clients'["debug"][i] = clients["debug"][i]
        BY <1>3, <3>2
      <4>2. clients["debug"][i].conn \notin heirs =>
              \A k \in 1 .. Len(Told(i)) : Told(i)[k].conn = clients["debug"][i].conn
        BY <1>2, <4>1 DEF Heritage
      <4> QED BY <1>2, <1>9, <4>1, <4>2
    <3> QED BY <3>1, <3>2
  <2> QED BY <1>2, <2>1, <2>2 DEF Heritage
<1>16. Remembered'
  <2> SUFFICES ASSUME NEW i \in DOMAIN clients'["debug"], NEW k \in 1 .. clients'["debug"][i].n
               PROVE  Answered(i, k)'
    BY DEF Remembered
  <2>1. i # f
    BY <1>8
  <2>2. i \in DOMAIN clients["debug"] /\ clients'["debug"][i] = clients["debug"][i]
    BY <1>3, <2>1
  <2>3. Answered(i, k)
    BY <1>2, <2>2 DEF Remembered
  <2> QED BY <1>2, <1>9, <2>2, <2>3 DEF Answered
<1> QED BY <1>2, <1>12, <1>13, <1>14, <1>15, <1>16

\* A command is counted, and it is answered or goes to the rvex interface.
LEMMA HandleAnswers ==
  ASSUME AnswerInv, LoopInv, LoopInv', HandleByte
  PROVE  AnswerInv'
<1> USE DEF AnswerInv
<1>1. /\ UNCHANGED <<received, heirs, left, backlog>> /\ pc = "handle" /\ pc' # "done"
  BY HandleControl DEF HandleByte, netVars
<1>2. PICK id \in DOMAIN clients["debug"], new \in ClientRec :
        LET cl  == clients["debug"][id]
            tag == [conn |-> cl.conn, n |-> cl.n + 1]
        IN /\ new.conn = cl.conn
           /\ \/ new.n = cl.n /\ new.tx = cl.tx /\ UNCHANGED pending
              \/ /\ new.n = cl.n + 1 /\ new.tx = cl.tx
                 /\ pending' = Append(pending, [id |-> id, tag |-> tag])
              \/ new.n = cl.n + 1 /\ new.tx = Append(cl.tx, tag) /\ UNCHANGED pending
           /\ DOMAIN clients'["debug"] = DOMAIN clients["debug"]
           /\ clients'["debug"][id] = new
           /\ \A i \in DOMAIN clients["debug"] \ {id} : clients'["debug"][i] = clients["debug"][i]
  BY Handled
<1>3. PICK conn, n, tag : /\ conn = clients["debug"][id].conn /\ n = clients["debug"][id].n
                          /\ tag = [conn |-> conn, n |-> n + 1]
  OBVIOUS
<1>4. /\ conn \in Conns /\ n \in Nat /\ tag \in Tags /\ tag.conn = conn /\ tag.n = n + 1
  <2>1. conn \in Conns /\ n \in Nat
    BY <1>2, <1>3, ToldTypes
  <2> QED BY <1>3, <2>1 DEF Tags
<1>5. /\ DOMAIN clients'["debug"] = DOMAIN clients["debug"]
      /\ \A i \in DOMAIN clients["debug"] : clients'["debug"][i].conn = clients["debug"][i].conn
      /\ \A i \in DOMAIN clients["debug"] \ {id} :
           Told(i)' = Told(i) /\ clients'["debug"][i].n = clients["debug"][i].n
  BY <1>1, <1>2 DEF Told, Replies
<1>6. \A c \in Conns : Unheard(c)' => Unheard(c)
  BY <1>1, <1>5 DEF Unheard
\* The tag is new.
<1>7. ~Underway(tag) /\ ~Unheard(conn)
  <2>1. ~Underway(tag)
    BY <1>1, <1>3, <1>4 DEF Counted
  <2>2. ~Unheard(conn)
    BY <1>3 DEF Unheard
  <2> QED BY <2>1, <2>2
<1>8. \A i \in DOMAIN clients["debug"] : clients["debug"][i].conn = conn => i = id
  BY <1>2, <1>3 DEF LoopInv, OneClient, Servers
<1>9. pending \in Seq(Requests) /\ Len(pending) \in Nat
  BY DEF LoopInv, LoopTypes
<1> HIDE DEF Told, Unheard
<1>a. ASSUME clients'["debug"][id].n = n + 1, \A t \in Tags : Underway(t)' => Underway(t) \/ t = tag
      PROVE  Counted'
  <2> SUFFICES ASSUME NEW t \in Tags, Underway(t)'
               PROVE  /\ \A i \in DOMAIN clients'["debug"] :
                           clients'["debug"][i].conn = t.conn => t.n <= clients'["debug"][i].n
                      /\ ~Unheard(t.conn)'
    BY DEF Counted
  <2>1. t.n \in Nat /\ t.conn \in Conns
    BY DEF Tags
  <2>2. ~Unheard(t.conn)'
    <3>1. Underway(t) => ~Unheard(t.conn)
      BY <1>1 DEF Counted
    <3> QED BY <1>a, <1>4, <1>6, <1>7, <2>1, <3>1
  <2>3. ASSUME NEW i \in DOMAIN clients'["debug"], clients'["debug"][i].conn = t.conn
        PROVE  t.n <= clients'["debug"][i].n
    <3>1. /\ i \in DOMAIN clients["debug"] /\ clients["debug"][i].conn = t.conn
          /\ clients["debug"][i].n \in Nat
      BY <1>5, <2>3, ToldTypes
    <3>2. Underway(t) => t.n <= clients["debug"][i].n
      BY <1>1, <3>1 DEF Counted
    <3>3. CASE i = id
      BY <1>a, <1>3, <1>4, <2>1, <3>1, <3>2, <3>3
    <3>4. CASE i # id
      <4>1. t # tag
        BY <1>4, <1>8, <3>1, <3>4
      <4> QED BY <1>a, <1>5, <3>1, <3>2, <3>4, <4>1
    <3> QED BY <3>3, <3>4
  <2> QED BY <2>2, <2>3
<1>10. CASE clients'["debug"][id].n = n /\ Told(id)' = Told(id) /\ UNCHANGED pending
  BY <1>1, <1>3, <1>5, <1>6, <1>10, NothingNew
\* A request.
<1>11. CASE /\ clients'["debug"][id].n = n + 1 /\ Told(id)' = Told(id)
            /\ pending' = Append(pending, [id |-> id, tag |-> tag])
  <2>1. PICK rq : rq = [id |-> id, tag |-> tag]
    OBVIOUS
  <2>2. rq.id = id /\ rq.tag = tag
    BY <2>1
  <2>3. rq \in Requests
    <3>1. id \in Nat
      BY DEF LoopInv, LoopTypes, ClientTypes, Servers
    <3> QED BY <1>4, <2>1, <3>1 DEF Requests
  <2>4. /\ Len(pending') = Len(pending) + 1 /\ pending'[Len(pending) + 1] = rq
        /\ \A p \in 1 .. Len(pending) : pending'[p] = pending[p]
    BY <1>9, <1>11, <2>1, <2>3
  <2>5. \A p \in 1 .. Len(pending') : p \in 1 .. Len(pending) \/ p = Len(pending) + 1
    BY <1>9, <2>4
  <2>6. \A i \in DOMAIN clients["debug"] : Told(i)' = Told(i)
    BY <1>5, <1>11
  <2>7. Once'
    <3>1. \A p, q \in 1 .. Len(pending') : pending'[p].tag = pending'[q].tag => p = q
      <4> TAKE p, q \in 1 .. Len(pending')
      <4>1. \A o \in 1 .. Len(pending) : pending[o].tag # tag
        BY <1>7 DEF Underway
      <4>2. p \in 1 .. Len(pending) /\ q \in 1 .. Len(pending) /\ pending[p].tag = pending[q].tag
              => p = q
        BY <1>1 DEF Once
      <4> QED BY <2>2, <2>4, <2>5, <4>1, <4>2
    <3>2. \A i \in DOMAIN clients'["debug"] :
            \A p \in 1 .. Len(pending'), k \in 1 .. Len(Told(i)') : pending'[p].tag # Told(i)'[k]
      <4> TAKE i \in DOMAIN clients'["debug"]
      <4> TAKE p \in 1 .. Len(pending'), k \in 1 .. Len(Told(i)')
      <4>1. i \in DOMAIN clients["debug"] /\ Told(i)' = Told(i)
        BY <1>5, <2>6
      <4>2. Told(i)[k] # tag
        BY <1>7, <4>1 DEF Underway
      <4>3. p \in 1 .. Len(pending) => pending[p].tag # Told(i)[k]
        BY <1>1, <4>1 DEF Once
      <4> QED BY <2>2, <2>4, <2>5, <4>1, <4>2, <4>3
    <3>3. \A i \in DOMAIN clients'["debug"] : \A k, l \in 1 .. Len(Told(i)') :
            Told(i)'[k] = Told(i)'[l] => k = l
      BY <1>1, <1>5, <2>6 DEF Once
    <3> QED BY <3>1, <3>2, <3>3 DEF Once
  <2>8. \A t \in Tags : Underway(t)' => Underway(t) \/ t = tag
    BY <1>5, <2>2, <2>4, <2>5, <2>6 DEF Underway
  <2>9. Heritage'
    <3>1. ASSUME NEW p \in 1 .. Len(pending'), pending'[p].id \in DOMAIN clients'["debug"]
          PROVE  \/ clients'["debug"][pending'[p].id].conn \in heirs'
                 \/ clients'["debug"][pending'[p].id].conn = pending'[p].tag.conn
      <4>1. CASE p = Len(pending) + 1
        BY <1>2, <1>3, <1>4, <1>5, <2>2, <2>4, <4>1
      <4>2. CASE p \in 1 .. Len(pending)
        <5>1. pending'[p] = pending[p] /\ pending[p].id \in DOMAIN clients["debug"]
          BY <1>5, <2>4, <3>1, <4>2
        <5>2. \/ clients["debug"][pending[p].id].conn \in heirs
              \/ clients["debug"][pending[p].id].conn = pending[p].tag.conn
          BY <1>1, <4>2, <5>1 DEF Heritage
        <5> QED BY <1>1, <1>5, <5>1, <5>2
      <4> QED BY <2>5, <4>1, <4>2
    <3>2. \A i \in DOMAIN clients'["debug"] : clients'["debug"][i].conn \notin heirs' =>
            \A k \in 1 .. Len(Told(i)') : Told(i)'[k].conn = clients'["debug"][i].conn
      BY <1>1, <1>5, <2>6 DEF Heritage
    <3> QED BY <3>1, <3>2 DEF Heritage
  <2>10. Remembered'
    <3> SUFFICES ASSUME NEW i \in DOMAIN clients'["debug"], NEW k \in 1 .. clients'["debug"][i].n
                 PROVE  Answered(i, k)'
      BY DEF Remembered
    <3>1. CASE i = id /\ k = n + 1
      <4>1. [conn |-> clients'["debug"][i].conn, n |-> k] = tag
        BY <1>2, <1>3, <1>5, <3>1
      <4>2. pending'[Len(pending) + 1] = [id |-> i, tag |-> [conn |-> clients'["debug"][i].conn, n |-> k]]
        BY <2>1, <2>4, <3>1, <4>1
      <4>3. Len(pending) + 1 \in 1 .. Len(pending')
        BY <1>9, <2>4
      <4> QED BY <4>2, <4>3 DEF Answered
    <3>2. CASE ~(i = id /\ k = n + 1)
      <4>1. i \in DOMAIN clients["debug"] /\ k \in 1 .. clients["debug"][i].n
        BY <1>3, <1>4, <1>5, <1>11, <3>2, ToldTypes
      <4>2. Answered(i, k)
        BY <1>1, <4>1 DEF Remembered
      <4>3. Told(i)' = Told(i) /\ clients'["debug"][i].conn = clients["debug"][i].conn
        BY <1>5, <2>6, <4>1
      <4>4. \A p \in 1 .. Len(pending) : p \in 1 .. Len(pending') /\ pending'[p] = pending[p]
        BY <1>9, <2>4
      <4> QED BY <4>2, <4>3, <4>4 DEF Answered
    <3> QED BY <3>1, <3>2
  <2>11. Counted'
    BY <1>a, <1>11, <2>8
  <2>12. NothingSaid'
    BY <1>1, <1>6 DEF NothingSaid
  <2> QED BY <1>1, <2>7, <2>9, <2>10, <2>11, <2>12
\* An answer on the spot.
<1>12. CASE /\ clients'["debug"][id].n = n + 1 /\ Told(id)' = Append(Told(id), tag)
            /\ UNCHANGED pending
  <2>1. /\ Len(Told(id)') = Len(Told(id)) + 1 /\ Told(id)'[Len(Told(id)) + 1] = tag
        /\ \A k \in 1 .. Len(Told(id)) : Told(id)'[k] = Told(id)[k]
        /\ Len(Told(id)) \in Nat
    <3>1. PICK t, u : t = Told(id) /\ u = Told(id)'
      OBVIOUS
    <3>2. t \in Seq(Tags) /\ Len(t) \in Nat /\ u = Append(t, tag) /\ tag \in Tags
      BY <1>2, <1>4, <1>12, <3>1, ToldTypes, Zenon
    <3>3. /\ Len(u) = Len(t) + 1 /\ u[Len(t) + 1] = tag
          /\ \A k \in 1 .. Len(t) : u[k] = t[k]
      BY ONLY <3>2, AppendProperties
    <3> QED BY ONLY <3>1, <3>2, <3>3, Zenon
  <2>2. \A k \in 1 .. Len(Told(id)') : k \in 1 .. Len(Told(id)) \/ k = Len(Told(id)) + 1
    BY <2>1
  <2>3. \A k \in 1 .. Len(Told(id)) : Told(id)[k] # tag
    BY <1>2, <1>7 DEF Underway
  <2>4. Once'
    <3>1. ASSUME NEW k \in 1 .. Len(Told(id)'), NEW l \in 1 .. Len(Told(id)'), Told(id)'[k] = Told(id)'[l]
          PROVE  k = l
      <4>1. k \in 1 .. Len(Told(id)) /\ l \in 1 .. Len(Told(id)) /\ Told(id)[k] = Told(id)[l] => k = l
        BY <1>1, <1>2 DEF Once
      <4> QED BY <2>1, <2>2, <2>3, <3>1, <4>1
    <3>2. \A p \in 1 .. Len(pending), k \in 1 .. Len(Told(id)') : pending[p].tag # Told(id)'[k]
      <4> TAKE p \in 1 .. Len(pending), k \in 1 .. Len(Told(id)')
      <4>1. pending[p].tag # tag
        BY <1>7 DEF Underway
      <4>2. k \in 1 .. Len(Told(id)) => pending[p].tag # Told(id)[k]
        BY <1>1, <1>2 DEF Once
      <4> QED BY <2>1, <2>2, <4>1, <4>2
    <3>3. \A i \in DOMAIN clients["debug"] \ {id} :
            /\ \A k, l \in 1 .. Len(Told(i)') : Told(i)'[k] = Told(i)'[l] => k = l
            /\ \A p \in 1 .. Len(pending), k \in 1 .. Len(Told(i)') : pending[p].tag # Told(i)'[k]
      BY <1>1, <1>5 DEF Once
    <3>4. \A p, q \in 1 .. Len(pending) : pending[p].tag = pending[q].tag => p = q
      BY <1>1 DEF Once
    <3>5. pending' = pending /\ DOMAIN clients'["debug"] = DOMAIN clients["debug"]
      BY <1>5, <1>12
    <3>6. \A i \in DOMAIN clients["debug"] :
            /\ \A k, l \in 1 .. Len(Told(i)') : Told(i)'[k] = Told(i)'[l] => k = l
            /\ \A p \in 1 .. Len(pending), k \in 1 .. Len(Told(i)') : pending[p].tag # Told(i)'[k]
      BY <3>1, <3>2, <3>3
    <3> QED BY ONLY <3>4, <3>5, <3>6 DEF Once
  <2>5. \A t \in Tags : Underway(t)' => Underway(t) \/ t = tag
    BY <1>5, <1>12, <2>1, <2>2 DEF Underway
  <2>6. Counted'
    BY <1>a, <1>12, <2>5
  <2>7. Heritage'
    <3>1. \A p \in 1 .. Len(pending') : pending'[p].id \in DOMAIN clients'["debug"] =>
            \/ clients'["debug"][pending'[p].id].conn \in heirs'
            \/ clients'["debug"][pending'[p].id].conn = pending'[p].tag.conn
      BY <1>1, <1>5, <1>12 DEF Heritage
    <3>2. ASSUME NEW i \in DOMAIN clients'["debug"], clients'["debug"][i].conn \notin heirs',
                 NEW k \in 1 .. Len(Told(i)')
          PROVE  Told(i)'[k].conn = clients'["debug"][i].conn
      <4>1. i \in DOMAIN clients["debug"] /\ clients'["debug"][i].conn = clients["debug"][i].conn
        BY <1>5
      <4>2. \A l \in 1 .. Len(Told(i)) : Told(i)[l].conn = clients["debug"][i].conn
        BY <1>1, <3>2, <4>1 DEF Heritage
      <4>3. CASE i = id
        BY <1>3, <1>4, <2>1, <2>2, <4>1, <4>2, <4>3
      <4>4. CASE i # id
        BY <1>5, <4>1, <4>2, <4>4
      <4> QED BY <4>3, <4>4
    <3> QED BY <3>1, <3>2 DEF Heritage
  <2>8. Remembered'
    <3> SUFFICES ASSUME NEW i \in DOMAIN clients'["debug"], NEW k \in 1 .. clients'["debug"][i].n
                 PROVE  Answered(i, k)'
      BY DEF Remembered
    <3>1. CASE i = id /\ k = n + 1
      <4>1. [conn |-> clients'["debug"][i].conn, n |-> k] = tag
        BY <1>2, <1>3, <1>5, <3>1
      <4>2. Len(Told(i)) + 1 \in 1 .. Len(Told(i)')
        BY <2>1, <3>1
      <4> QED BY <2>1, <3>1, <4>1, <4>2 DEF Answered
    <3>2. CASE ~(i = id /\ k = n + 1)
      <4>1. i \in DOMAIN clients["debug"] /\ k \in 1 .. clients["debug"][i].n
        BY <1>3, <1>4, <1>5, <1>12, <3>2, ToldTypes
      <4>2. Answered(i, k)
        BY <1>1, <4>1 DEF Remembered
      <4>3. \A l \in 1 .. Len(Told(i)) : l \in 1 .. Len(Told(i)') /\ Told(i)'[l] = Told(i)[l]
        BY <1>5, <2>1, <4>1
      <4> QED BY <1>5, <1>12, <4>1, <4>2, <4>3 DEF Answered
    <3> QED BY <3>1, <3>2
  <2>9. NothingSaid'
    BY <1>1, <1>6 DEF NothingSaid
  <2> QED BY <1>1, <2>4, <2>6, <2>7, <2>8, <2>9
<1>13. \/ clients'["debug"][id].n = n /\ Told(id)' = Told(id) /\ UNCHANGED pending
       \/ /\ clients'["debug"][id].n = n + 1 /\ Told(id)' = Told(id)
          /\ pending' = Append(pending, [id |-> id, tag |-> tag])
       \/ /\ clients'["debug"][id].n = n + 1 /\ Told(id)' = Append(Told(id), tag)
          /\ UNCHANGED pending
  <2>1. /\ Told(id)' = received[conn] \o new.tx
        /\ Told(id) = received[conn] \o clients["debug"][id].tx
    BY <1>1, <1>2, <1>3 DEF Told, Replies
  <2>2. received[conn] \o Append(clients["debug"][id].tx, tag) = Append(Told(id), tag)
    <3>1. received[conn] \in Seq(Tags) /\ clients["debug"][id].tx \in Seq(Tags)
      BY <1>3, ToldTypes
    <3>2. tag \in Tags
      BY <1>4
    <3>3. received[conn] \o Append(clients["debug"][id].tx, tag)
            = Append(received[conn] \o clients["debug"][id].tx, tag)
      BY ONLY <3>1, <3>2, OneMore, Zenon
    <3> QED BY <2>1, <3>3
  <2> QED BY <1>2, <1>3, <2>1, <2>2
<1> QED BY <1>10, <1>11, <1>12, <1>13

\* An answer of the rvex interface goes to who asked, or to the heir.
LEMMA CompleteAnswers ==
  ASSUME AnswerInv, LoopInv, LoopInv', Complete
  PROVE  AnswerInv'
<1> USE DEF AnswerInv
<1>1. /\ UNCHANGED <<received, heirs, left, backlog>> /\ pc = "update" /\ pc' # "done"
      /\ pending # <<>> /\ pending' = Tail(pending) /\ pending \in Seq(Requests)
  BY DEF Complete, netVars, LoopInv, LoopTypes
<1>2. PICK id, tag : id = Head(pending).id /\ tag = Head(pending).tag
  OBVIOUS
<1>3. /\ tag \in Tags
      /\ DOMAIN clients'["debug"] = DOMAIN clients["debug"]
      /\ \A i \in DOMAIN clients["debug"] :
           IF i = id
           THEN clients'["debug"][i] = [clients["debug"][i] EXCEPT !.tx = Append(@, tag)]
           ELSE clients'["debug"][i] = clients["debug"][i]
  BY <1>2, Completed
<1>4. /\ Len(pending) \in Nat /\ Len(pending) >= 1 /\ Len(pending') = Len(pending) - 1
      /\ \A p \in 1 .. Len(pending') : p + 1 \in 1 .. Len(pending) /\ pending'[p] = pending[p + 1]
      /\ pending[1].id = id /\ pending[1].tag = tag /\ 1 \in 1 .. Len(pending)
  BY <1>1, <1>2
<1>5. \A i \in DOMAIN clients["debug"] :
        /\ clients'["debug"][i].conn = clients["debug"][i].conn
        /\ clients'["debug"][i].n = clients["debug"][i].n
        /\ Told(i)' = IF i = id THEN Append(Told(i), tag) ELSE Told(i)
  <2> TAKE i \in DOMAIN clients["debug"]
  <2>1. clients["debug"][i] \in ClientRec
    BY DEF LoopInv, LoopTypes, ClientTypes, Servers
  <2>2. CASE i # id
    BY <1>1, <1>3, <2>2 DEF Told, Replies
  <2>3. CASE i = id
    <3>1. PICK r, x, c : /\ r = received[c] /\ x = clients["debug"][i].tx
                         /\ c = clients["debug"][i].conn
      OBVIOUS
    <3>2. r \in Seq(Tags) /\ x \in Seq(Tags) /\ Told(i) = r \o x
      BY <3>1, ToldTypes
    <3>3. /\ clients'["debug"][i].conn = c /\ clients'["debug"][i].n = clients["debug"][i].n
          /\ clients'["debug"][i].tx = Append(x, tag)
      BY <1>3, <2>1, <2>3, <3>1 DEF ClientRec
    <3>4. Told(i)' = r \o Append(x, tag)
      BY <1>1, <3>1, <3>3 DEF Told, Replies
    <3>5. r \o Append(x, tag) = Append(r \o x, tag)
      BY <1>3, <3>2, OneMore
    <3> QED BY <2>3, <3>1, <3>2, <3>3, <3>4, <3>5
  <2> QED BY <2>2, <2>3
<1>6. \A c \in Conns : Unheard(c)' => Unheard(c)
  BY <1>1, <1>3, <1>5 DEF Unheard
\* What a client was told before it has still been told.
<1>7. \A i \in DOMAIN clients["debug"] :
        /\ Len(Told(i)) \in Nat
        /\ \A k \in 1 .. Len(Told(i)) : k \in 1 .. Len(Told(i)') /\ Told(i)'[k] = Told(i)[k]
        /\ \A k \in 1 .. Len(Told(i)') :
             k \in 1 .. Len(Told(i)) \/ (i = id /\ k = Len(Told(i)) + 1 /\ Told(i)'[k] = tag)
        /\ i = id => Len(Told(i)) + 1 \in 1 .. Len(Told(i)') /\ Told(i)'[Len(Told(i)) + 1] = tag
  <2> TAKE i \in DOMAIN clients["debug"]
  <2>1. PICK q \in Seq(Tags) : q = Told(i)
    BY ToldTypes
  <2>2. Told(i)' = IF i = id THEN Append(q, tag) ELSE q
    BY <1>5, <2>1
  <2> HIDE DEF Told
  <2>3. /\ Len(Append(q, tag)) = Len(q) + 1 /\ Len(q) \in Nat
        /\ \A k \in 1 .. Len(q) : Append(q, tag)[k] = q[k]
        /\ Append(q, tag)[Len(q) + 1] = tag
    BY <1>3
  <2>4. CASE i = id
    BY <2>1, <2>2, <2>3, <2>4
  <2>5. CASE i # id
    BY <2>1, <2>2, <2>3, <2>5
  <2> QED BY <2>4, <2>5
<1> HIDE DEF Told, Unheard
<1>8. Once'
  <2>1. \A p \in 1 .. Len(pending') : pending'[p].tag # tag
    <3> TAKE p \in 1 .. Len(pending')
    <3>1. p + 1 \in 1 .. Len(pending) /\ p + 1 # 1 /\ pending'[p] = pending[p + 1]
      BY <1>4
    <3> QED BY <1>1, <1>4, <3>1 DEF Once
  <2>2. ASSUME NEW p \in 1 .. Len(pending'), NEW q \in 1 .. Len(pending'),
               pending'[p].tag = pending'[q].tag
        PROVE  p = q
    <3>1. p + 1 = q + 1
      BY <1>1, <1>4, <2>2 DEF Once
    <3> QED BY <1>4, <3>1
  <2>3. \A i \in DOMAIN clients["debug"] : \A k \in 1 .. Len(Told(i)) : Told(i)[k] # tag
    BY <1>1, <1>4 DEF Once
  <2>4. ASSUME NEW i \in DOMAIN clients["debug"], NEW k \in 1 .. Len(Told(i)'),
               NEW l \in 1 .. Len(Told(i)'), Told(i)'[k] = Told(i)'[l]
        PROVE  k = l
    <3>1. k \in 1 .. Len(Told(i)) /\ l \in 1 .. Len(Told(i)) /\ Told(i)[k] = Told(i)[l] => k = l
      BY <1>1 DEF Once
    <3> QED BY <1>7, <2>3, <2>4, <3>1
  <2>5. ASSUME NEW i \in DOMAIN clients["debug"], NEW p \in 1 .. Len(pending'),
               NEW k \in 1 .. Len(Told(i)')
        PROVE  pending'[p].tag # Told(i)'[k]
    <3>1. k \in 1 .. Len(Told(i)) => pending[p + 1].tag # Told(i)[k]
      BY <1>1, <1>4 DEF Once
    <3> QED BY <1>4, <1>7, <2>1, <3>1
  <2> QED BY <1>3, <2>2, <2>4, <2>5 DEF Once
<1>9. Counted'
  <2> SUFFICES ASSUME NEW t \in Tags, Underway(t)'
               PROVE  /\ \A i \in DOMAIN clients'["debug"] :
                           clients'["debug"][i].conn = t.conn => t.n <= clients'["debug"][i].n
                      /\ ~Unheard(t.conn)'
    BY DEF Counted
  <2>1. Underway(t) /\ t.conn \in Conns
    <3>1. t.conn \in Conns
      BY DEF Tags
    <3>2. ASSUME NEW p \in 1 .. Len(pending'), pending'[p].tag = t
          PROVE  Underway(t)
      BY <1>4, <3>2 DEF Underway
    <3>3. ASSUME NEW i \in DOMAIN clients["debug"], NEW k \in 1 .. Len(Told(i)'), Told(i)'[k] = t
          PROVE  Underway(t)
      BY <1>4, <1>7, <3>3 DEF Underway
    <3> QED BY <1>3, <3>1, <3>2, <3>3 DEF Underway
  <2>2. /\ \A i \in DOMAIN clients["debug"] :
             clients["debug"][i].conn = t.conn => t.n <= clients["debug"][i].n
        /\ ~Unheard(t.conn)
    BY <1>1, <2>1 DEF Counted
  <2> QED BY <1>3, <1>5, <1>6, <2>1, <2>2
<1>10. NothingSaid'
  BY <1>1, <1>6 DEF NothingSaid
<1>11. Heritage'
  <2>1. ASSUME NEW p \in 1 .. Len(pending'), pending'[p].id \in DOMAIN clients'["debug"]
        PROVE  \/ clients'["debug"][pending'[p].id].conn \in heirs'
               \/ clients'["debug"][pending'[p].id].conn = pending'[p].tag.conn
    <3>1. /\ p + 1 \in 1 .. Len(pending) /\ pending'[p] = pending[p + 1]
          /\ pending[p + 1].id \in DOMAIN clients["debug"]
      BY <1>3, <1>4, <2>1
    <3>2. \/ clients["debug"][pending[p + 1].id].conn \in heirs
          \/ clients["debug"][pending[p + 1].id].conn = pending[p + 1].tag.conn
      BY <1>1, <3>1 DEF Heritage
    <3> QED BY <1>1, <1>5, <3>1, <3>2
  <2>2. ASSUME NEW i \in DOMAIN clients'["debug"], clients'["debug"][i].conn \notin heirs',
               NEW k \in 1 .. Len(Told(i)')
        PROVE  Told(i)'[k].conn = clients'["debug"][i].conn
    <3>1. /\ i \in DOMAIN clients["debug"] /\ clients'["debug"][i].conn = clients["debug"][i].conn
          /\ clients["debug"][i].conn \notin heirs
      BY <1>1, <1>3, <1>5, <2>2
    <3>2. \A l \in 1 .. Len(Told(i)) : Told(i)[l].conn = clients["debug"][i].conn
      BY <1>1, <3>1 DEF Heritage
    <3>3. i = id => tag.conn = clients["debug"][i].conn
      BY <1>1, <1>4, <3>1 DEF Heritage
    <3> QED BY <1>7, <3>1, <3>2, <3>3
  <2> QED BY <2>1, <2>2 DEF Heritage
<1>12. Remembered'
  <2> SUFFICES ASSUME NEW i \in DOMAIN clients'["debug"], NEW k \in 1 .. clients'["debug"][i].n
               PROVE  Answered(i, k)'
    BY DEF Remembered
  <2>1. /\ i \in DOMAIN clients["debug"] /\ k \in 1 .. clients["debug"][i].n
        /\ clients'["debug"][i].conn = clients["debug"][i].conn
    BY <1>3, <1>5
  <2>2. PICK t : t = [conn |-> clients["debug"][i].conn, n |-> k]
    OBVIOUS
  <2>3. \/ \E l \in 1 .. Len(Told(i)) : Told(i)[l] = t
        \/ \E p \in 1 .. Len(pending) : pending[p] = [id |-> i, tag |-> t]
    BY <1>1, <2>1, <2>2 DEF Remembered, Answered
  <2>4. CASE \E l \in 1 .. Len(Told(i)) : Told(i)[l] = t
    <3>1. \E l \in 1 .. Len(Told(i)') : Told(i)'[l] = t
      BY <1>7, <2>1, <2>4
    <3> QED BY <2>1, <2>2, <3>1 DEF Answered
  <2>5. ASSUME NEW p \in 1 .. Len(pending), pending[p] = [id |-> i, tag |-> t]
        PROVE  Answered(i, k)'
    <3>1. CASE p = 1
      <4>1. i = id /\ t = tag
        BY <1>4, <2>5, <3>1
      <4>2. \E l \in 1 .. Len(Told(i)') : Told(i)'[l] = t
        BY <1>7, <2>1, <4>1
      <4> QED BY <2>1, <2>2, <4>2 DEF Answered
    <3>2. CASE p # 1
      <4>1. p - 1 \in 1 .. Len(pending') /\ (p - 1) + 1 = p
        BY <1>4, <3>2
      <4>2. pending'[p - 1] = [id |-> i, tag |-> t]
        BY <1>4, <2>5, <4>1
      <4> QED BY <2>1, <2>2, <4>1, <4>2 DEF Answered
    <3> QED BY <3>1, <3>2
  <2> QED BY <2>3, <2>4, <2>5
<1> QED BY <1>1, <1>8, <1>9, <1>10, <1>11, <1>12

\* Writing the answers out changes nothing of what a client is told.
LEMMA FlushAnswers ==
  ASSUME AnswerInv, LoopInv, LoopInv', Flush \/ Sigpipe
  PROVE  AnswerInv'
<1> USE DEF AnswerInv
<1>1. PICK these \in FlushUpTo :
        /\ WriteOut(these)
        /\ \/ cleanup
           \/ /\ clients' = [clients EXCEPT !["debug"] = [i \in DOMAIN clients["debug"] |->
                     IF i \in these THEN [clients["debug"][i] EXCEPT !.tx = <<>>]
                     ELSE clients["debug"][i]]]
              /\ pc' = "select" /\ UNCHANGED pending
  BY DEF Flush, Sigpipe
<1>2. /\ pc = "flush" /\ UNCHANGED <<heirs, left, backlog>>
      /\ received' = [c \in Conns |-> received[c] \o Written(c, these)]
      /\ these \subseteq DOMAIN clients["debug"]
  BY <1>1 DEF WriteOut, netVars, FlushUpTo
<1>3. \A i \in these : Written(clients["debug"][i].conn, these) = clients["debug"][i].tx
  <2> TAKE i \in these
  <2> DEFINE ids == {j \in these : clients["debug"][j].conn = clients["debug"][i].conn}
  <2>1. ids = {i}
    BY <1>2 DEF LoopInv, OneClient, Servers
  <2>2. (CHOOSE j \in ids : TRUE) = i
    BY <2>1
  <2> QED BY <2>1, <2>2 DEF Written
<1>4. \A c \in Conns : (\A i \in these : clients["debug"][i].conn # c) => Written(c, these) = <<>>
  BY DEF Written
<1>5. received' \in [Conns -> Seq(Tags)]
  <2>1. \A c \in Conns : Written(c, these) \in Seq(Tags)
    <3> TAKE c \in Conns
    <3>1. CASE \E i \in these : clients["debug"][i].conn = c
      <4>1. PICK i \in these : clients["debug"][i].conn = c
        BY <3>1
      <4>2. Written(c, these) = clients["debug"][i].tx
        BY <1>3, <4>1
      <4>3. clients["debug"][i].tx \in Seq(Tags)
        BY <1>2, ToldTypes
      <4> QED BY <4>2, <4>3
    <3>2. CASE \A i \in these : clients["debug"][i].conn # c
      <4>1. Written(c, these) = <<>>
        BY <1>4, <3>2
      <4> QED BY <4>1, EmptySeq
    <3> QED BY <3>1, <3>2
  <2>2. \A c \in Conns : received[c] \o Written(c, these) \in Seq(Tags)
    BY <2>1
  <2> QED BY <1>2, <2>2
<1>6. CASE cleanup
  <2>1. clients' = [s \in Servers |-> <<>>] /\ pc' = "done"
    BY <1>6 DEF cleanup
  <2>2. DOMAIN clients'["debug"] = {}
    BY <2>1 DEF Servers
  <2> QED BY <1>5, <2>1, <2>2
<1>7. CASE ~cleanup
  <2>1. /\ clients' = [clients EXCEPT !["debug"] = [i \in DOMAIN clients["debug"] |->
               IF i \in these THEN [clients["debug"][i] EXCEPT !.tx = <<>>]
               ELSE clients["debug"][i]]]
        /\ pc' = "select" /\ UNCHANGED pending
    BY <1>1, <1>7
  <2>2. /\ DOMAIN clients'["debug"] = DOMAIN clients["debug"]
        /\ \A i \in DOMAIN clients["debug"] :
             clients'["debug"][i] = IF i \in these THEN [clients["debug"][i] EXCEPT !.tx = <<>>]
                                    ELSE clients["debug"][i]
    <3>1. DOMAIN clients = Servers /\ "debug" \in Servers
      BY DEF LoopInv, LoopTypes, ClientTypes, Servers
    <3> QED BY <2>1, <3>1
  <2>3. \A i \in DOMAIN clients["debug"] :
          /\ clients'["debug"][i].conn = clients["debug"][i].conn
          /\ clients'["debug"][i].n = clients["debug"][i].n
          /\ Told(i)' = Told(i)
    <3> TAKE i \in DOMAIN clients["debug"]
    <3>1. PICK c \in Conns : c = clients["debug"][i].conn
      BY ToldTypes
    <3>2. /\ clients["debug"][i] \in ClientRec
          /\ received'[c] = received[c] \o Written(c, these)
          /\ received[c] \in Seq(Tags) /\ received'[c] \in Seq(Tags)
          /\ Told(i) = received[c] \o clients["debug"][i].tx
      BY <1>2, <1>5, <3>1 DEF LoopInv, LoopTypes, ClientTypes, Servers, Told, Replies
    <3>3. CASE i \in these
      <4>1. /\ clients'["debug"][i].conn = clients["debug"][i].conn
            /\ clients'["debug"][i].n = clients["debug"][i].n
            /\ clients'["debug"][i].tx = <<>>
        BY <2>2, <3>2, <3>3 DEF ClientRec
      <4>2. Told(i)' = received'[c] \o <<>>
        BY <3>1, <4>1 DEF Told, Replies
      <4>3. received'[c] = received[c] \o clients["debug"][i].tx
        BY <1>3, <3>1, <3>2, <3>3
      <4>4. Told(i)' = received'[c]
        BY <3>2, <4>2
      <4> QED BY <3>2, <4>1, <4>3, <4>4
    <3>4. CASE i \notin these
      <4>1. clients'["debug"][i] = clients["debug"][i]
        BY <2>2, <3>4
      <4>2. \A j \in these : clients["debug"][j].conn # c
        BY <1>2, <3>1, <3>4 DEF LoopInv, OneClient, Servers
      <4>3. Written(c, these) = <<>>
        BY <1>4, <4>2
      <4>4. received'[c] = received[c]
        BY <3>2, <4>3
      <4> QED BY <3>1, <4>1, <4>4 DEF Told, Replies
    <3> QED BY <3>3, <3>4
  <2>4. \A c \in Conns : Unheard(c)' => Unheard(c) /\ received'[c] = received[c]
    <3> SUFFICES ASSUME NEW c \in Conns, Unheard(c)'
                 PROVE  Unheard(c) /\ received'[c] = received[c]
      OBVIOUS
    <3>1. Unheard(c)
      BY <1>2, <2>2, <2>3 DEF Unheard
    <3>2. Written(c, these) = <<>>
      BY <1>2, <1>4, <3>1 DEF Unheard
    <3>3. received[c] \in Seq(Tags) /\ received'[c] = received[c] \o <<>>
      BY <1>2, <3>2
    <3> QED BY <3>1, <3>3
  <2>5. pc # "done" /\ pc' # "done"
    BY <1>2, <2>1
  <2> HIDE DEF AnswerInv
  <2> QED BY <1>2, <1>5, <2>1, <2>2, <2>3, <2>4, <2>5, NothingNew
<1> QED BY <1>6, <1>7

\* Steps that leave the debug server's clients alone: the world outside, and
\* the parts of the loop that serve others.
LEMMA ElsewhereAnswers ==
  ASSUME AnswerInv, LoopInv, pc # "done", pc' # "done",
         clients'["debug"] = clients["debug"],
         UNCHANGED <<pending, heirs, received>>,
         \A c \in Conns : Unheard(c)' => Unheard(c)
  PROVE  AnswerInv'
<1>1. \A i \in DOMAIN clients'["debug"] : Told(i)' = Told(i)
  BY DEF Told, Replies
<1>2. received' \in [Conns -> Seq(Tags)]
  BY DEF AnswerInv
<1> QED BY <1>1, <1>2, NothingNew

\* A connection that comes, sends or leaves.
LEMMA WorldAnswers ==
  ASSUME AnswerInv, LoopInv, World
  PROVE  AnswerInv'
<1>1. /\ UNCHANGED <<pc, clients, pending, heirs, received>> /\ pc # "done"
  BY DEF World
<1>2. \/ UNCHANGED <<left, backlog>>
      \/ \E c \in Conns : left' = left \cup {c} /\ UNCHANGED backlog
      \/ \E c \in Conns : Connect(c) /\ UNCHANGED left
  BY DEF World, Connect, ClientSend, Disconnect, Unplug, PlugIn, terminate
<1>3. CASE UNCHANGED <<left, backlog>>
  <2>1. \A c \in Conns : Unheard(c)' => Unheard(c)
    BY <1>1, <1>3 DEF Unheard
  <2> QED BY <1>1, <2>1, ElsewhereAnswers
<1>4. CASE \E c \in Conns : left' = left \cup {c} /\ UNCHANGED backlog
  <2>1. \A c \in Conns : Unheard(c)' => Unheard(c)
    BY <1>1, <1>4 DEF Unheard
  <2> QED BY <1>1, <2>1, ElsewhereAnswers
<1>5. ASSUME NEW e \in Conns, Connect(e), UNCHANGED left
      PROVE  \A c \in Conns : Unheard(c)' => Unheard(c)
  <2> SUFFICES ASSUME NEW c \in Conns, Unheard(c)'
               PROVE  Unheard(c)
    OBVIOUS
  <2>1. CASE c = e
    <3>1. ~Known(e) /\ e \notin left
      BY <1>5 DEF Connect
    <3>2. \A i \in DOMAIN clients["debug"] : clients["debug"][i].conn # e
      BY <3>1 DEF Known, Servers
    <3> QED BY <2>1, <3>1, <3>2 DEF Unheard
  <2>2. CASE c # e
    <3>1. ASSUME NEW s \in Servers, NEW k \in 1 .. Len(backlog'[s]), backlog'[s][k] = c
          PROVE  \E l \in 1 .. Len(backlog[s]) : backlog[s][l] = c
      <4>1. backlog \in [Servers -> Seq(Conns)]
        BY DEF LoopInv, LoopTypes
      <4>2. PICK t : t = Server[e]
        OBVIOUS
      <4>3. backlog' = [backlog EXCEPT ![t] = Append(backlog[t], e)]
        BY <1>5, <4>2 DEF Connect
      <4>4. CASE s = t
        <5>1. backlog'[s] = Append(backlog[s], e) /\ backlog[s] \in Seq(Conns)
          BY <4>1, <4>3, <4>4
        <5>2. k \in 1 .. Len(backlog[s]) /\ backlog'[s][k] = backlog[s][k]
          BY <2>2, <3>1, <5>1
        <5> QED BY <3>1, <5>2
      <4>5. CASE s # t
        BY <3>1, <4>1, <4>3, <4>5
      <4> QED BY <4>4, <4>5
    <3> QED BY <1>1, <1>5, <3>1 DEF Unheard
  <2> QED BY <2>1, <2>2
<1>6. CASE \E c \in Conns : Connect(c) /\ UNCHANGED left
  <2>1. \A c \in Conns : Unheard(c)' => Unheard(c)
    BY <1>5, <1>6
  <2> QED BY <1>1, <2>1, ElsewhereAnswers
<1> QED BY <1>2, <1>3, <1>4, <1>6

\* The first half of tcpServer_update, for either server.
LEMMA AcceptedAnswers ==
  ASSUME AnswerInv, LoopInv, LoopInv', NEW s \in Servers, Accept(s)
  PROVE  AnswerInv'
<1>1. /\ UNCHANGED <<left, pending, received>> /\ pc # "done" /\ pc' # "done"
      /\ s = "app" \/ s = "debug"
  BY DEF Accept, acceptAt, readAt, Servers
<1>2. CASE listenDesc[s] \notin ready
  <2>1. UNCHANGED <<clients, backlog, heirs>>
    BY <1>2 DEF Accept
  <2>2. \A c \in Conns : Unheard(c)' => Unheard(c)
    BY <1>1, <2>1 DEF Unheard
  <2> QED BY <1>1, <2>1, <2>2, ElsewhereAnswers
<1>3. CASE listenDesc[s] \in ready /\ s = "debug"
  BY <1>3, AcceptAnswers
<1>4. CASE listenDesc[s] \in ready /\ s = "app"
  <2>1. /\ heirs' = heirs /\ backlog' = [backlog EXCEPT !["app"] = Tail(@)]
        /\ backlog \in [Servers -> Seq(Conns)]
    BY <1>4 DEF Accept, LoopInv, LoopTypes
  <2>2. clients'["debug"] = clients["debug"] /\ backlog["app"] # <<>>
    BY <1>4, Accepted DEF Servers
  <2>3. ASSUME NEW c, NEW t \in Servers, NEW k \in 1 .. Len(backlog'[t]), backlog'[t][k] = c
        PROVE  \E l \in 1 .. Len(backlog[t]) : backlog[t][l] = c
    <3>1. CASE t = "app"
      <4>1. backlog'[t] = Tail(backlog[t]) /\ backlog[t] \in Seq(Conns) /\ backlog[t] # <<>>
        BY <2>1, <2>2, <3>1
      <4>2. k + 1 \in 1 .. Len(backlog[t]) /\ backlog'[t][k] = backlog[t][k + 1]
        BY <4>1
      <4> QED BY <2>3, <4>2
    <3>2. CASE t # "app"
      BY <2>1, <2>3, <3>2
    <3> QED BY <3>1, <3>2
  <2>4. \A c \in Conns : Unheard(c)' => Unheard(c)
    BY <1>1, <2>2, <2>3 DEF Unheard
  <2> QED BY <1>1, <2>1, <2>2, <2>4, ElsewhereAnswers
<1> QED BY <1>1, <1>2, <1>3, <1>4

\* The second half: a client that is removed has left.
LEMMA ReadAnswers ==
  ASSUME AnswerInv, LoopInv, LoopInv', NEW s \in Servers, NEW these \in ReadUpTo(s), ReadThese(s, these)
  PROVE  AnswerInv'
<1>1. /\ UNCHANGED <<left, backlog, pending, received, heirs>> /\ pc # "done" /\ pc' # "done"
      /\ s = "app" \/ s = "debug"
  BY DEF ReadThese, readAt, netVars, Servers
<1>2. PICK gone \in SUBSET these :
           /\ \A i \in gone : clients[s][i].conn \in left
           /\ DOMAIN clients'[s] = DOMAIN clients[s] \ gone
           /\ \A i \in DOMAIN clients'[s] :
                IF i \in these
                THEN clients'[s][i] = [clients[s][i] EXCEPT !.rx = Unread(clients[s][i].conn)]
                ELSE clients'[s][i] = clients[s][i]
           /\ \A t \in Servers \ {s} : clients'[t] = clients[t]
  BY Taken
<1>3. CASE s = "app"
  <2>1. clients'["debug"] = clients["debug"]
    BY <1>2, <1>3 DEF Servers
  <2>2. \A c \in Conns : Unheard(c)' => Unheard(c)
    BY <1>1, <2>1 DEF Unheard
  <2> QED BY <1>1, <2>1, <2>2, ElsewhereAnswers
<1>4. CASE s = "debug"
  <2>1. DOMAIN clients'["debug"] = DOMAIN clients["debug"] \ gone
    BY <1>2, <1>4
  <2>2. \A i \in DOMAIN clients'["debug"] :
          /\ clients'["debug"][i].conn = clients["debug"][i].conn
          /\ clients'["debug"][i].n = clients["debug"][i].n
          /\ Told(i)' = Told(i)
    <3> TAKE i \in DOMAIN clients'["debug"]
    <3>1. clients["debug"][i] \in ClientRec
      BY <2>1 DEF LoopInv, LoopTypes, ClientTypes, Servers
    <3>2. /\ clients'["debug"][i].conn = clients["debug"][i].conn
          /\ clients'["debug"][i].n = clients["debug"][i].n
          /\ clients'["debug"][i].tx = clients["debug"][i].tx
      BY <1>2, <1>4, <3>1 DEF ClientRec
    <3> QED BY <1>1, <3>2 DEF Told, Replies
  <2>3. \A c \in Conns : Unheard(c)' => Unheard(c)
    <3> SUFFICES ASSUME NEW c \in Conns, Unheard(c)'
                 PROVE  Unheard(c)
      OBVIOUS
    <3>1. c \notin left \/ \E t \in Servers : \E k \in 1 .. Len(backlog[t]) : backlog[t][k] = c
      BY <1>1 DEF Unheard
    <3>2. ASSUME NEW i \in DOMAIN clients["debug"], clients["debug"][i].conn = c
          PROVE  FALSE
      <4>1. i \in gone
        BY <2>1, <2>2, <3>2 DEF Unheard
      <4>2. c \in left
        BY <1>2, <1>4, <3>2, <4>1
      <4>3. \A t \in Servers : \A k \in 1 .. Len(backlog[t]) : backlog[t][k] # c
        BY <3>2 DEF LoopInv, Queued, Servers
      <4> QED BY <3>1, <4>2, <4>3
    <3> QED BY <3>1, <3>2 DEF Unheard
  <2>4. received' \in [Conns -> Seq(Tags)]
    BY <1>1 DEF AnswerInv
  <2> QED BY <1>1, <2>1, <2>2, <2>3, <2>4, NothingNew
<1> QED BY <1>1, <1>3, <1>4

\* The calls of the loop that serve no debug client.
LEMMA OtherAnswers ==
  ASSUME AnswerInv, LoopInv,
         select_wait \/ UpdateSerial \/ EndHandle \/ EndUpdate \/ handleApplicationData
  PROVE  AnswerInv'
<1>1. UNCHANGED <<left, backlog, pending, received, heirs>> /\ pc # "done" /\ pc' # "done"
  BY DEF select_wait, UpdateSerial, EndHandle, EndUpdate, handleApplicationData, netVars
<1>2. clients'["debug"] = clients["debug"]
  <2>1. CASE handleApplicationData /\ tty # NoDesc
    <3>1. DOMAIN clients = Servers
      BY DEF LoopInv, LoopTypes, ClientTypes
    <3>2. clients' = [clients EXCEPT !["app"] =
                        [i \in DOMAIN clients["app"] |-> [clients["app"][i] EXCEPT !.rx = <<>>]]]
      BY <2>1 DEF handleApplicationData
    <3> QED BY <3>1, <3>2 DEF Servers
  <2>2. CASE ~(handleApplicationData /\ tty # NoDesc)
    BY <2>2 DEF select_wait, UpdateSerial, EndHandle, EndUpdate, handleApplicationData
  <2> QED BY <2>1, <2>2
<1>3. \A c \in Conns : Unheard(c)' => Unheard(c)
  BY <1>1, <1>2 DEF Unheard
<1> QED BY <1>1, <1>2, <1>3, ElsewhereAnswers

\* Every step of clients and loop keeps it.
LEMMA AnswerStep ==
  ASSUME AnswerInv, LoopInv, LoopInv', [Next]_vars
  PROVE  AnswerInv'
<1>1. CASE UNCHANGED vars
  <2>1. UNCHANGED <<pc, backlog, left, clients, pending, received, heirs>>
    BY <1>1 DEF vars, netVars
  <2>2. CASE pc = "done"
    BY <2>1, <2>2 DEF AnswerInv
  <2>3. CASE pc # "done"
    <3>1. \A c \in Conns : Unheard(c)' => Unheard(c)
      BY <2>1 DEF Unheard
    <3> QED BY <2>1, <2>3, <3>1, ElsewhereAnswers
  <2> QED BY <2>2, <2>3
<1>2. CASE World
  BY <1>2, WorldAnswers
<1>3. CASE Loop
  BY <1>3, OtherAnswers, AcceptedAnswers, ReadAnswers, HandleAnswers, CompleteAnswers, FlushAnswers
     DEF Loop, Read
<1> QED BY <1>1, <1>2, <1>3 DEF Next

\* Before the first command nobody is told anything.
LEMMA AnswerStart ==
  ASSUME Init
  PROVE  AnswerInv
<1>1. /\ pc = "select" /\ pending = <<>> /\ received = [c \in Conns |-> <<>>]
      /\ clients = [s \in Servers |-> <<>>]
  BY DEF Init
<1>2. DOMAIN clients["debug"] = {} /\ Len(pending) = 0
  BY <1>1 DEF Servers
<1>3. received \in [Conns -> Seq(Tags)] /\ NothingSaid
  BY <1>1, EmptySeq DEF NothingSaid
<1>4. Once /\ Heritage /\ Remembered
  BY <1>2 DEF Once, Heritage, Remembered
<1>5. Counted
  BY <1>2 DEF Counted, Underway
<1> QED BY <1>1, <1>3, <1>4, <1>5 DEF AnswerInv

\* Commands are counted, asked for once, and answered once, whatever client
\* has whose number (handleCommand, onReadWriteComplete, tcpServer_sendStr).
THEOREM AnswerInvariant == Spec => []AnswerInv
<1>1. Init => AnswerInv
  BY AnswerStart
<1>2. AnswerInv /\ LoopInv /\ LoopInv' /\ [Next]_vars => AnswerInv'
  BY AnswerStep
<1> QED BY <1>1, <1>2, LoopInvariant, PTL DEF Spec

\* A connection gets the answers to its own commands only, each once, unless it
\* was given the number of a client that left with requests pending; and no
\* command of a connected client is forgotten (main.c, tcpserv.c).
THEOREM AnswersAreOwn == Spec => []OwnReplies
<1>1. AnswerInv /\ LoopInv => OwnReplies
  <2> SUFFICES ASSUME AnswerInv, LoopInv, NEW i \in DOMAIN clients["debug"]
               PROVE  /\ IsInjective(Told(i))
                      /\ clients["debug"][i].conn \notin heirs =>
                           \A k \in DOMAIN Told(i) : Told(i)[k].conn = clients["debug"][i].conn
                      /\ \A k \in 1 .. clients["debug"][i].n :
                           LET tag == [conn |-> clients["debug"][i].conn, n |-> k]
                           IN \/ tag \in ToSet(Told(i))
                              \/ \E p \in DOMAIN pending : pending[p] = [id |-> i, tag |-> tag]
    BY DEF OwnReplies, Told
  <2>1. Once /\ Heritage /\ Remembered
    BY DEF AnswerInv
  <2>a. Told(i) \in Seq(Tags)
    BY ToldTypes
  <2>2. DOMAIN Told(i) = 1 .. Len(Told(i))
    BY <2>a, LenProperties
  <2>3. DOMAIN pending = 1 .. Len(pending)
    BY DEF LoopInv, LoopTypes
  <2> HIDE DEF Told
  <2>4. IsInjective(Told(i))
    BY <2>1, <2>2 DEF Once, IsInjective
  <2>5. clients["debug"][i].conn \notin heirs =>
          \A k \in DOMAIN Told(i) : Told(i)[k].conn = clients["debug"][i].conn
    BY <2>1, <2>2 DEF Heritage
  <2>6. ASSUME NEW k \in 1 .. clients["debug"][i].n
        PROVE  LET tag == [conn |-> clients["debug"][i].conn, n |-> k]
               IN \/ tag \in ToSet(Told(i))
                  \/ \E p \in DOMAIN pending : pending[p] = [id |-> i, tag |-> tag]
    <3>1. Answered(i, k)
      BY <2>1 DEF Remembered
    <3> QED BY <2>2, <2>3, <3>1 DEF Answered, ToSet
  <2> QED BY <2>4, <2>5, <2>6
<1> QED BY <1>1, LoopInvariant, AnswerInvariant, PTL
=============================================================================
