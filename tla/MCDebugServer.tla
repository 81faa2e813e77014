--------------------------- MODULE MCDebugServer ----------------------------
(* Instances of the debug server for model checking.                       *)
EXTENDS DebugServer

MCConns  == 1..4
MCServer == <<"debug", "app", "debug", "debug">>
MCScript == <<<<"R", ";">>, <<"x">>, <<"R", ";">>, <<"x", "x", "x", ";", "R", ";", "S", ";">>>>

\* Debug clients that come and go; an application client that leaves while a
\* debug client comes; a serial port that comes and goes, with a new client in
\* its descriptor; and a client that sends too long a command, a request, and a
\* Stop.
MCScenarios ==
  {[attempts |-> {1, 2, 3}, leavers |-> {1, 2}, unplugs |-> 0, sigterm |-> FALSE],
   [attempts |-> {1, 3}, leavers |-> {1, 3}, unplugs |-> 0, sigterm |-> TRUE],
   [attempts |-> {2, 3}, leavers |-> {}, unplugs |-> 1, sigterm |-> TRUE],
   [attempts |-> {4}, leavers |-> {}, unplugs |-> 0, sigterm |-> TRUE]}
=============================================================================
