----------------------------- MODULE LaneDecode -----------------------------
(***************************************************************************)
(* The part of the configuration registers that core_cfgCtrl.vhd derives   *)
(* per lane (pc_add_val_decoder): the index of a lane among the lanes that *)
(* work together, and what the branch unit adds to the PC when the stop    *)
(* bit is found in that lane.                                              *)
(***************************************************************************)
EXTENDS CfgDecode, FiniteSetsExt

CONSTANTS
  NumLanesLog2,      \* CFG.numLanesLog2
  BundleAlignLog2    \* CFG.bundleAlignLog2

ASSUME LanesAssumption ==
  /\ NumLanesLog2 \in NumLaneGroupsLog2..4
  /\ BundleAlignLog2 \in 0..NumLanesLog2

Lanes == 0..(2 ^ NumLanesLog2 - 1)

\* log2 of the number of lanes in a group, and of the bytes in a syllable.
GroupSizeLog2     == NumLanesLog2 - NumLaneGroupsLog2
SyllableSizeLog2B == 2

lane2group(lane) == lane \div (2 ^ GroupSizeLog2)

\* A number with the bits at some positions cleared.
Cleared(n, bits) == n - MapThenSumSet(LAMBDA k : ((n \div 2 ^ k) % 2) * 2 ^ k, bits)

\* Seeded fault: coupling is only looked at with the group next door.
NeighbourOnly(cfg, lane) ==
  {i \in 0..(NumLaneGroupsLog2 - 1) :
     LET g == lane2group(lane)
     IN g - 1 >= 0 /\ <<g - 1, g>> \notin cfg.couple}

\* The bits of a lane's group number that do not count, because the group
\* that differs from it in that bit only does not work together with it.
UncoupledBits(cfg, lane) ==
  {i \in 0..(NumLaneGroupsLog2 - 1) :
     LET g == lane2group(lane)
     IN g - 2 ^ i >= 0 /\ <<g - 2 ^ i, g>> \notin cfg.couple}

AddValMinusOne(cfg, lane) ==
  Cleared(lane * 2 ^ SyllableSizeLog2B,
          {GroupSizeLog2 + SyllableSizeLog2B + i : i \in UncoupledBits(cfg, lane)})

LaneIndex(cfg, lane) == (AddValMinusOne(cfg, lane) \div 2 ^ SyllableSizeLog2B) % 16

\* How many low bits of the PC are zero for the context a lane belongs to.
Align(cfg, lane) ==
  LET n == GroupSizeLog2 + cfg.num[ContextOf(cfg.word, lane2group(lane))]
  IN (IF n < BundleAlignLog2 THEN n ELSE BundleAlignLog2) + SyllableSizeLog2B

\* The loop that clears the low bits visits as many bits as there are lanes.
PcAddVal(cfg, lane) ==
  Cleared(AddValMinusOne(cfg, lane), {i \in Lanes : i < Align(cfg, lane)})
    + 2 ^ Align(cfg, lane)

\* core_pipelane.vhd: the sum is aligned again.
alignPC(pc, cfg, lane) == pc - (pc % 2 ^ Align(cfg, lane))

\* The PC is incremented within twice the lanes of the core; the bits above
\* are those of the PC or of the PC with twice the lanes added.  Before
\* anything was fetched nothing is added.
Window == 2 ^ (NumLanesLog2 + SyllableSizeLog2B + 1)

PC_plusSbitInd(pc, cfg, lane, limmValid) ==
  alignPC((pc % Window) + IF limmValid THEN PcAddVal(cfg, lane) ELSE 0, cfg, lane)

\* The lanes that work together, in bytes.
BundleBytes(cfg, lane) ==
  2 ^ (GroupSizeLog2 + cfg.num[ContextOf(cfg.word, lane2group(lane))] + SyllableSizeLog2B)

PC_plusSbitFetchInd(pc, cfg, lane, limmValid) ==
  alignPC(PC_plusSbitInd(pc, cfg, lane, limmValid)
            + BundleBytes(cfg, lane) - 2 ^ SyllableSizeLog2B, cfg, lane)

combinePC(pc, PC_ind) ==
  LET upper == IF (PC_ind \div Window) % 2 = 1 THEN pc + Window ELSE pc
  IN upper - (upper % Window) + (PC_ind % Window)

PC_plusSbit(pc, cfg, lane, limmValid) ==
  combinePC(pc, PC_plusSbitInd(pc, cfg, lane, limmValid))
PC_plusSbitFetch(pc, cfg, lane, limmValid) ==
  combinePC(pc, PC_plusSbitFetchInd(pc, cfg, lane, limmValid))

-----------------------------------------------------------------------------
FirstLane(w, c) == Min(GroupsOf(w, c)) * 2 ^ GroupSizeLog2

\* A configuration in which every lane of a running context knows its place
\* in the bundle, and in which a bundle that ends in a lane where it may end
\* is followed by the syllable after that lane's, and the fetch after it goes
\* to the first whole bundle in memory that does not lie before it.
LanesRight(cfg) ==
  \A c \in cfg.enable : \A lane \in Lanes :
    cfg.word[lane2group(lane)] = c =>
      LET place == lane - FirstLane(cfg.word, c)
          step  == 2 ^ Align(cfg, lane)
          size  == BundleBytes(cfg, lane)
      IN /\ LaneIndex(cfg, lane) = place
         /\ (4 * (place + 1)) % step = 0 =>
              \A pc \in {0, step, 7 * step, Window - step} : \A limmValid \in BOOLEAN :
                LET next  == PC_plusSbit(pc, cfg, lane, limmValid)
                    fetch == PC_plusSbitFetch(pc, cfg, lane, limmValid)
                IN /\ next = IF limmValid THEN pc + 4 * (place + 1) ELSE pc
                   /\ next <= fetch - (fetch % size) /\ fetch - (fetch % size) < next + size

\* The lane registers that pc_add_val_decoder computes from a decoded word
\* are right for every legal word, although they are derived from single
\* bits of the couple matrix and the context registers only.
LanesSound == [][decBusy /\ ~decBusy' /\ ~DecoderError => LanesRight(newCfg')]_decVars
=============================================================================
