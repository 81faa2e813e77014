---------------------------- MODULE AtomicReconf ----------------------------
(***************************************************************************)
(* What the reconfiguration controller promises to those who ask it for a  *)
(* configuration, without decoder, registers or pipelines: one request is  *)
(* in progress at a time, and it ends by being applied as a whole when it  *)
(* is legal and by raising the error flag when it is not.                  *)
(***************************************************************************)
EXTENDS ConfigWord

CONSTANTS
  IDs,           \* who may ask
  Requestable    \* for which words

VARIABLES
  config,    \* the word software reads back from CC
  pending,   \* the word in progress: a set of at most one word
  failed,    \* GSR.E
  owner      \* GSR.RID

avars == <<config, pending, failed, owner>>

AInit ==
  /\ config = ZeroWord
  /\ pending = {}
  /\ failed = FALSE
  /\ owner \in IDs

\* A request for bits that do not exist fails at once.
ARefuse ==
  /\ pending = {}
  /\ failed' = TRUE
  /\ owner' \in IDs
  /\ UNCHANGED <<config, pending>>

\* A request for the current configuration has nothing to do.  Whether it
\* clears the flag is left open here: what the documentation says of it and what
\* the controller does differ (ErrorFlag).
ARepeat ==
  /\ pending = {}
  /\ owner' \in IDs
  /\ failed' \in {failed, FALSE}
  /\ UNCHANGED <<config, pending>>

ARequest ==
  /\ pending = {}
  /\ \E w \in Requestable : WithinMask(w) /\ w # config /\ pending' = {w}
  /\ failed' = FALSE
  /\ owner' \in IDs
  /\ UNCHANGED config

AApply ==
  /\ \E w \in pending : LegalWord(w) /\ config' = w
  /\ pending' = {}
  /\ failed' = FALSE
  /\ UNCHANGED owner

AFail ==
  /\ \E w \in pending : ~LegalWord(w)
  /\ pending' = {}
  /\ failed' = TRUE
  /\ UNCHANGED <<config, owner>>

ANext == ARefuse \/ ARepeat \/ ARequest \/ AApply \/ AFail

ASpec == AInit /\ [][ANext]_avars /\ WF_avars(AApply \/ AFail)
=============================================================================
