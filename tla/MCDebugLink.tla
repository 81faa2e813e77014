---------------------------- MODULE MCDebugLink -----------------------------
(* Instances of the debug link for model checking.                         *)
EXTENDS DebugLink

\* A write of enough bulk packets to fill the pipeline, one to another page
\* after it, and a read.
MCMixed == <<[bulk |-> 4, write |-> TRUE], [bulk |-> 1, write |-> TRUE],
             [bulk |-> 1, write |-> FALSE]>>

\* One read of five bulk packets (and a last word).
MCBulkRead == <<[bulk |-> 5, write |-> FALSE]>>

MCClients == Reqs
=============================================================================
