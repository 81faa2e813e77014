----------------------------- MODULE CfgDecode ------------------------------
(***************************************************************************)
(* The configuration decoder, core_cfgCtrl_decode.vhd: a state machine     *)
(* that walks down the lane groups of the requested word, one context or   *)
(* disabled group per clock cycle, and fills the registers the core needs. *)
(***************************************************************************)
EXTENDS ConfigWord

CONSTANT RequestWords   \* the words the environment may ask for
ASSUME RequestWordsAssumption == RequestWords \subseteq Word

VARIABLES
  newCfg,    \* newConfiguration_r and the decoded registers
  decBusy,   \* busy_r
  decGroup   \* currentPipelaneGroup_r

decVars == <<newCfg, decBusy, decGroup>>

CfgRegs ==
  [word   : Word,
   enable : SUBSET Contexts,
   last   : [Contexts -> Groups],
   num    : [Contexts -> 0..NumLaneGroupsLog2],
   couple : SUBSET (Groups \X Groups)]

ResetCfg ==
  [word   |-> ZeroWord,
   enable |-> {0},
   last   |-> [c \in Contexts |-> LastGroup],
   num    |-> [c \in Contexts |-> NumLaneGroupsLog2],
   couple |-> Groups \X Groups]

\* Seeded fault: starting a decoding forgets to clear contextEnable.
KeepsEnable(w) == [ResetCfg EXCEPT !.word = w, !.couple = {}]

ClearedCfg(w) == [ResetCfg EXCEPT !.word = w, !.enable = {}, !.couple = {}]

DecInit ==
  /\ newCfg = ResetCfg
  /\ decBusy = FALSE
  /\ decGroup = 0

-----------------------------------------------------------------------------
CurrentMatch == GroupIDMatch(newCfg.word, decGroup)

\* Seeded fault: the error output of the match tree is left open.
NoMatchError == FALSE

\* error_s and the error output, which is gated by busy_r.
MatchError == TreeError(CurrentMatch)

DecoderError == MatchError /\ decBusy

\* Seeded fault: the group counter is not truncated to its width.
UnwrappedGroup == decGroup + 8 - Pow2(NumGroupsLog2(CurrentMatch))

NextGroup ==
  (decGroup + 8 - Pow2(NumGroupsLog2(CurrentMatch))) % NumLaneGroups

\* The registers after evaluating the current group: the context registers
\* when the group is enabled, the rows of the matching groups always.
Evaluated ==
  LET ctx  == ContextOf(newCfg.word, decGroup)
      rows == {p \in newCfg.couple : p[1] \notin CurrentMatch}
                 \cup (CurrentMatch \X CurrentMatch)
  IN IF Disabled(newCfg.word, decGroup)
     THEN [newCfg EXCEPT !.couple = rows]
     ELSE [newCfg EXCEPT !.couple = rows,
                         !.enable = @ \cup {ctx},
                         !.last[ctx] = decGroup,
                         !.num[ctx] = NumGroupsLog2(CurrentMatch)]

DecodeStart(w) ==
  /\ newCfg' = ClearedCfg(w)
  /\ decBusy' = TRUE
  /\ decGroup' = LastGroup

DecodeAbort ==
  /\ DecoderError
  /\ decBusy' = FALSE
  /\ decGroup' = 0
  /\ UNCHANGED newCfg

DecodeGroup ==
  /\ decBusy
  /\ ~MatchError
  /\ newCfg' = Evaluated
  /\ decGroup' = NextGroup
  /\ decBusy' = (NextGroup # LastGroup)

DecodeIdle ==
  /\ ~decBusy
  /\ decGroup' = IF MatchError THEN 0 ELSE decGroup
  /\ UNCHANGED <<newCfg, decBusy>>

-----------------------------------------------------------------------------
(* The decoder by itself: core_cfgCtrl starts it only between decodings,   *)
(* with a word that lies within the mask.                                  *)
DecStartAny ==
  /\ ~decBusy
  /\ \E w \in RequestWords : WithinMask(w) /\ DecodeStart(w)

DecNext == DecStartAny \/ DecodeAbort \/ DecodeGroup

DecSpec == DecInit /\ [][DecNext]_decVars

-----------------------------------------------------------------------------
\* The decoder's registers stay within their widths.
DecTypeOK ==
  /\ newCfg \in CfgRegs
  /\ decBusy \in BOOLEAN
  /\ decGroup \in Groups

\* When decoding ends, it ends with an error exactly for the words the user
\* manual calls illegal, and otherwise every register holds what the word
\* means: the walk neither skips a context nor visits one twice, and rows of
\* the couple matrix left over from an earlier word never survive.
DecodeSound ==
  [][decBusy /\ ~decBusy' =>
       IF DecoderError
       THEN ~LegalWord(newCfg.word)
       ELSE LegalWord(newCfg.word) /\ newCfg' = DecodedWord(newCfg.word)]_decVars
=============================================================================
