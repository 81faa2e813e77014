------------------------------ MODULE CfgCtrl -------------------------------
(***************************************************************************)
(* The reconfiguration controller, core_cfgCtrl.vhd, together with what it *)
(* talks to: the contexts' pipelines, the memories, the context 0 wake-up  *)
(* registers and the interrupt input.                                      *)
(*                                                                         *)
(* One step is one enabled clock edge.  Variables are registers or, for    *)
(* the pipelines and the memories, the signals they drive during a cycle;  *)
(* the combinatorial signals of the source are operators.                  *)
(***************************************************************************)
EXTENDS CfgDecode

WakeupID == 8    \* requester ID of the wake-up system
BusID    == 15   \* requester ID of the debug bus
RequesterIDs == Contexts \cup {WakeupID, BusID}

CONSTANTS
  Requesters,    \* contexts whose programs write CRR; BusID for BCRR writes
  WcfgWords,     \* the words the context 0 program writes to WCFG
  UseWakeup      \* whether the wake-up registers and the interrupt are used

ASSUME EnvironmentAssumption ==
  /\ Requesters \subseteq Contexts \cup {BusID}
  /\ WcfgWords \subseteq Word
  /\ UseWakeup \in BOOLEAN

VARIABLES
  curCfg,        \* the current configuration registers
  busy,          \* busy_r
  error,         \* error_r
  requesterID,   \* requesterID_r
  blockCtxt,     \* blockReconfig_ctxt, the contexts whose bit is high
  blockMem,      \* blockReconfig_mem, the groups whose bit is high
  blockDecode,   \* blockReconfig_decode
  pipe,          \* contexts with instructions (or a trap) in their pipelanes
  mem,           \* groups whose memories assert mem2cfg_blockReconfig
  wcfg,          \* WCFG of context 0
  sawcS,         \* the S flag of SAWC of context 0
  irq            \* rctrl2cfg_irq_ct0

statusVars == <<busy, error, requesterID>>
blockVars  == <<blockCtxt, blockMem, blockDecode>>
envVars    == <<pipe, mem, wcfg, sawcS, irq>>
vars       == <<decVars, curCfg, statusVars, blockVars, envVars>>

Init ==
  /\ DecInit
  /\ curCfg = ResetCfg
  /\ busy = FALSE
  /\ error = FALSE
  /\ requesterID = BusID
  /\ blockCtxt = {}
  /\ blockMem = {}
  /\ blockDecode = TRUE
  /\ pipe = {}
  /\ mem = {}
  /\ wcfg = ZeroWord
  /\ sawcS = FALSE
  /\ irq = FALSE

-----------------------------------------------------------------------------
(* Requests *)

\* Context 0 must not be running, or the wake-up system could disarm itself
\* while the program is still preparing to sleep.
WakeupActive ==
  /\ sawcS
  /\ irq
  /\ ~busy
  /\ \A g \in Groups : curCfg.word[g] # 0

\* The request pulses of one cycle: a word for every requester that raises
\* its requestEnable.  A CRR pulse is raised the cycle after the store of a
\* running program left the memory stage, so its context is not idle yet.
RequestPulses ==
  UNION {[S -> RequestWords] : S \in SUBSET (Requesters \cap (pipe \cup {BusID}))}

\* Seeded fault: the wake-up system gets the lowest priority.
WakeupLast(r) ==
  IF WakeupActive /\ DOMAIN r = {} THEN WakeupID
  ELSE IF BusID \in DOMAIN r \/ DOMAIN r = {} THEN BusID
  ELSE CHOOSE c \in DOMAIN r : \A d \in DOMAIN r : c <= d

\* Wake-up before the bus, the bus before the contexts, contexts in
\* increasing order.
Winner(r) ==
  IF WakeupActive THEN WakeupID
  ELSE IF BusID \in DOMAIN r \/ DOMAIN r = {} THEN BusID
  ELSE CHOOSE c \in DOMAIN r : \A d \in DOMAIN r : c <= d

ReconfigRequest(r) == ~busy /\ (WakeupActive \/ DOMAIN r # {})

NewConfiguration(r) == IF Winner(r) = WakeupID THEN wcfg ELSE r[Winner(r)]

-----------------------------------------------------------------------------
(* Control of the contexts *)

\* Seeded fault: a context that grows or shrinks in place is not updated.
IgnoresSize ==
  {c \in newCfg.enable \cup curCfg.enable :
     \/ (c \in newCfg.enable) # (c \in curCfg.enable)
     \/ newCfg.last[c] # curCfg.last[c]}

ContextsToUpdate ==
  {c \in newCfg.enable \cup curCfg.enable :
     \/ (c \in newCfg.enable) # (c \in curCfg.enable)
     \/ newCfg.last[c] # curCfg.last[c]
     \/ newCfg.num[c] # curCfg.num[c]}

\* Seeded fault: halting is requested one cycle late.
HaltsLate == IF busy /\ ~decBusy /\ ~blockDecode THEN ContextsToUpdate ELSE {}

RequestReconfig == IF busy /\ ~decBusy THEN ContextsToUpdate ELSE {}

\* The bit of blockReconfig_mem that gen_commit looks at: the last group of
\* the context, truncated to as many bits as a context index has.
MemBlockIndex(c) == curCfg.last[c] % NumContexts

CommitBlocked(c) ==
  \/ c \in blockCtxt
  \/ c \in curCfg.enable /\ MemBlockIndex(c) \in blockMem

\* Seeded fault: the cycle in which the block registers are stale is not
\* waited for.
CommitsEarly ==
  /\ busy
  /\ ~decBusy
  /\ \A c \in ContextsToUpdate : ~CommitBlocked(c)

CommitSignal ==
  /\ busy
  /\ ~decBusy
  /\ ~blockDecode
  /\ \A c \in ContextsToUpdate : ~CommitBlocked(c)

\* run_ctxt: the contexts that may fetch.  The run input and the break flag
\* may keep a context from fetching as well.
Running == curCfg.enable \ RequestReconfig

-----------------------------------------------------------------------------
(* What happens next to the controller at every clock edge *)

\* Seeded fault: blockReconfig_decode is not registered.
NoDecodeBlock ==
  /\ blockCtxt' = pipe \cap curCfg.enable
  /\ blockMem' = mem
  /\ blockDecode' = FALSE

BlockRegisters ==
  /\ blockCtxt' = pipe \cap curCfg.enable
  /\ blockMem' = mem
  /\ blockDecode' = decBusy

\* Instructions leave a pipeline when they complete or are cancelled; they
\* enter it in the cycle in which their context may fetch.
Pipelines ==
  pipe' \in SUBSET ((pipe \cup Running') \cap curCfg'.enable)

GroupsRunning(C) == {g \in Groups : curCfg.word[g] \in C}

\* A memory starts to block reconfiguration only when the group's context
\* fetched or had instructions in flight in the previous cycle.  Coupled
\* groups see the same signal.
Memories ==
  mem' \in {S \in SUBSET (mem \cup GroupsRunning(pipe \cup Running)) :
              \A p \in curCfg'.couple : p[1] \in S <=> p[2] \in S}

\* The request line of an interrupt controller stays high until context 0
\* can acknowledge it.
Interrupts ==
  irq' \in IF ~UseWakeup THEN {FALSE}
          ELSE IF irq /\ 0 \notin curCfg.enable THEN {TRUE}
          ELSE BOOLEAN

\* WCFG and SAWC.S: stores of the context 0 program, overridden by
\* wakeupAck.  The code that sets S when WCFG is written is overridden by
\* the unconditional assignment to S that follows it in the same process.
WakeupRegisters ==
  IF WakeupActive
  THEN wcfg' = curCfg.word /\ sawcS' = FALSE
  ELSE \/ UNCHANGED <<wcfg, sawcS>>
       \/ /\ UseWakeup /\ 0 \in pipe
          /\ wcfg' \in WcfgWords
          /\ UNCHANGED sawcS
       \/ /\ UseWakeup /\ 0 \in pipe
          /\ sawcS' = ~sawcS
          /\ UNCHANGED wcfg

Surroundings ==
  /\ BlockRegisters
  /\ Pipelines
  /\ Memories
  /\ Interrupts
  /\ WakeupRegisters

-----------------------------------------------------------------------------
(* The clock edges of the controller *)

\* Nobody asks for anything.
NoRequest ==
  /\ ~busy /\ ~WakeupActive
  /\ UNCHANGED <<curCfg, statusVars>>
  /\ DecodeIdle
  /\ Surroundings

\* reconfigRequestError: bits outside the mask are set.
RejectRequest ==
  \E r \in RequestPulses :
    /\ ReconfigRequest(r)
    /\ ~WithinMask(NewConfiguration(r))
    /\ requesterID' = Winner(r)
    /\ error' = TRUE
    /\ UNCHANGED <<curCfg, busy>>
    /\ DecodeIdle
    /\ Surroundings

\* The current configuration is requested again: only the requester ID is
\* registered.
RepeatRequest ==
  \E r \in RequestPulses :
    /\ ReconfigRequest(r)
    /\ NewConfiguration(r) = curCfg.word
    /\ requesterID' = Winner(r)
    /\ UNCHANGED <<curCfg, busy, error>>
    /\ DecodeIdle
    /\ Surroundings

\* Seeded fault: an accepted request leaves the error flag as it was.
KeepsError ==
  \E r \in RequestPulses :
    /\ ReconfigRequest(r)
    /\ WithinMask(NewConfiguration(r))
    /\ NewConfiguration(r) # curCfg.word
    /\ requesterID' = Winner(r)
    /\ busy' = TRUE
    /\ UNCHANGED <<curCfg, error>>
    /\ DecodeStart(NewConfiguration(r))
    /\ Surroundings

\* reconfigRequestOK
AcceptRequest ==
  \E r \in RequestPulses :
    /\ ReconfigRequest(r)
    /\ WithinMask(NewConfiguration(r))
    /\ NewConfiguration(r) # curCfg.word
    /\ requesterID' = Winner(r)
    /\ busy' = TRUE
    /\ error' = FALSE
    /\ UNCHANGED curCfg
    /\ DecodeStart(NewConfiguration(r))
    /\ Surroundings

\* While busy, request pulses are not looked at.
Decode ==
  /\ busy
  /\ DecodeGroup
  /\ UNCHANGED <<curCfg, statusVars>>
  /\ Surroundings

FailDecode ==
  /\ busy
  /\ DecodeAbort
  /\ busy' = FALSE
  /\ error' = TRUE
  /\ UNCHANGED <<curCfg, requesterID>>
  /\ Surroundings

AwaitIdle ==
  /\ busy /\ ~CommitSignal
  /\ DecodeIdle
  /\ UNCHANGED <<curCfg, statusVars>>
  /\ Surroundings

Commit ==
  /\ CommitSignal
  /\ curCfg' = newCfg
  /\ busy' = FALSE
  /\ error' = FALSE
  /\ UNCHANGED requesterID
  /\ DecodeIdle
  /\ Surroundings

Next ==
  \/ NoRequest \/ RejectRequest \/ RepeatRequest \/ AcceptRequest
  \/ Decode \/ FailDecode \/ AwaitIdle \/ Commit

Spec == Init /\ [][Next]_vars

\* The clock runs: a request is worked on, a wake-up is taken.  A halted
\* context's pipeline drains, and a memory that gets no requests from the
\* lanes of a halted context stops blocking (core.vhd: "The processor
\* assumes that this signal will go low eventually").
DrainPipe(c) ==
  /\ c \in RequestReconfig \cap pipe
  /\ AwaitIdle
  /\ c \notin pipe'

DrainMem(c) ==
  /\ c \in RequestReconfig \ pipe
  /\ GroupsRunning({c}) \cap mem # {}
  /\ AwaitIdle
  /\ GroupsRunning({c}) \cap mem' = {}

Fairness ==
  /\ WF_vars(busy /\ Next)
  /\ WF_vars(WakeupActive /\ Next)
  /\ \A c \in Contexts : WF_vars(DrainPipe(c)) /\ WF_vars(DrainMem(c))

FairSpec == Spec /\ Fairness

-----------------------------------------------------------------------------
\* Every register of the controller stays within its width, and no context
\* or group that does not exist is ever named.
TypeOK ==
  /\ DecTypeOK
  /\ curCfg \in CfgRegs
  /\ busy \in BOOLEAN
  /\ error \in BOOLEAN
  /\ requesterID \in RequesterIDs
  /\ blockCtxt \in SUBSET Contexts
  /\ blockMem \in SUBSET Groups
  /\ blockDecode \in BOOLEAN
  /\ pipe \in SUBSET Contexts
  /\ mem \in SUBSET Groups
  /\ wcfg \in Word
  /\ sawcS \in BOOLEAN
  /\ irq \in BOOLEAN

\* The core never runs an illegal configuration, and the predecoded
\* registers all blocks of the core steer by agree with the word software
\* reads back.
CurrentConfigSound ==
  /\ LegalWord(curCfg.word)
  /\ curCfg = DecodedWord(curCfg.word)

\* A reconfiguration halts exactly the contexts whose lane groups change:
\* nobody is halted who keeps its groups, and everybody else is halted.
HaltsAffectedOnly ==
  busy /\ ~decBusy =>
    RequestReconfig =
      {c \in Contexts : GroupsOf(curCfg.word, c) # GroupsOf(newCfg.word, c)}

\* When the commit signal is high, no context about to be updated has
\* anything in its pipelanes and none of the memories of its lane group
\* blocks, in that very cycle, although gen_commit looks at registered, one
\* cycle old copies of these signals.
CommitQuiet ==
  CommitSignal =>
    \A c \in ContextsToUpdate :
      /\ c \notin pipe
      /\ c \in curCfg.enable => curCfg.last[c] \notin mem

\* The last group the registers give for an enabled context runs it.
LastGroupRuns(cfg) == \A c \in cfg.enable : cfg.word[cfg.last[c]] = c

\* Once halting was requested for a full cycle, what the block registers do
\* not show cannot have started since.
Settled ==
  busy /\ ~decBusy /\ ~blockDecode =>
    \A c \in ContextsToUpdate :
      c \notin blockCtxt =>
        /\ c \notin pipe
        /\ c \in curCfg.enable /\ curCfg.last[c] \notin blockMem
             => curCfg.last[c] \notin mem

\* The inductive invariant behind CommitQuiet.
CommitInv ==
  /\ WithinMask(newCfg.word)
  /\ LastGroupRuns(newCfg)
  /\ LastGroupRuns(curCfg)
  /\ Settled

\* core.vhd promises the memories: "The decouple outputs will not split or
\* merge two groups when either group is asserting the blockReconfig
\* signal."
DecoupleContract ==
  [][\A i, j \in Groups :
       (<<i, j>> \in curCfg.couple) # (<<i, j>> \in curCfg'.couple)
         => i \notin mem /\ j \notin mem]_vars

Wakes(w) == WithinMask(w) /\ LegalWord(w) /\ GroupsOf(w, 0) # {}

\* A sleeping core whose wake-up system is armed with a usable word does
\* run context 0 after an interrupt, whatever other requests are made.
WakeupServed ==
  (sawcS /\ irq /\ 0 \notin curCfg.enable /\ Wakes(wcfg))
     ~> 0 \in curCfg.enable

Abstract == INSTANCE AtomicReconf WITH
  IDs         <- RequesterIDs,
  Requestable <- RequestWords \cup WcfgWords \cup {ZeroWord},
  config      <- curCfg.word,
  pending     <- IF busy THEN {newCfg.word} ELSE {},
  failed      <- error,
  owner       <- requesterID

\* Seen from software the controller is atomic: what the decoder accepts and
\* what it refuses, when the status flags change and that they change
\* together with the configuration, is as AtomicReconf says.
AtomicToSoftware == Abstract!ASpec
=============================================================================
