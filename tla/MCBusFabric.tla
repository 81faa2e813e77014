---------------------------- MODULE MCBusFabric -----------------------------
(* Instance of the bus fabric for model checking: one master that may lock  *)
(* the bus, one that also misses every slave, one with a single slave.      *)
EXTENDS BusFabric

MCRequests ==
  [m \in Masters |->
     CASE m = 0 -> {[mst |-> 0, slave |-> 0, lock |-> TRUE], [mst |-> 0, slave |-> 1, lock |-> FALSE]}
       [] m = 1 -> {[mst |-> 1, slave |-> 0, lock |-> FALSE], [mst |-> 1, slave |-> 2, lock |-> FALSE]}
       [] OTHER -> {[mst |-> m, slave |-> 1, lock |-> FALSE]}]
=============================================================================
