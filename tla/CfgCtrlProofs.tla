--------------------------- MODULE CfgCtrlProofs ----------------------------
(***************************************************************************)
(* Proofs about the configuration decoder and the reconfiguration          *)
(* controller for every number of lane groups and contexts and every set   *)
(* of requested words.                                                     *)
(***************************************************************************)
EXTENDS CfgCtrl, TLAPS

-----------------------------------------------------------------------------
(* The decoder.                                                             *)

\* The sizes are powers of two that fit the eight nibbles of a word.
LEMMA Sizes ==
  /\ NumLaneGroups \in {1, 2, 4, 8}
  /\ NumContexts \in {1, 2, 4, 8}
  /\ Groups \subseteq 0..7
  /\ Contexts \subseteq 0..7
  /\ LastGroup \in Groups
  /\ 0 \in Groups
  /\ 0 \in Contexts
<1>1. NumLaneGroups \in {1, 2, 4, 8} /\ NumContexts \in {1, 2, 4, 8}
  BY GenericsAssumption DEF NumLaneGroups, NumContexts, Pow2
<1>2. QED
  BY <1>1 DEF Groups, Contexts, LastGroup

\* Remainders by the sizes of the core.
LEMMA Remainders ==
  /\ \A x \in Nat : x % NumLaneGroups \in Groups
  /\ \A x \in Nat : x % NumContexts \in Contexts
  /\ \A x \in 0..(NumContexts - 1) : x % NumContexts = x
  /\ \A x \in 0..7 : x % 8 = x
<1>1. NumLaneGroups \in {1, 2, 4, 8} /\ NumContexts \in {1, 2, 4, 8}
  BY Sizes
<1>2. \A x \in Nat : x % NumLaneGroups \in Groups
  BY <1>1 DEF Groups
<1>3. \A x \in Nat : x % NumContexts \in Contexts
  BY <1>1 DEF Contexts
<1>4. \A x \in 0..(NumContexts - 1) : x % NumContexts = x
  BY <1>1
<1>5. QED
  BY <1>2, <1>3, <1>4

\* The level that the decoder finds is one of its tree.
LEMMA NumGroupsLog2Type ==
  ASSUME NEW S
  PROVE  NumGroupsLog2(S) \in 0..NumLaneGroupsLog2
<1>1. FullLevels(S) \subseteq 1..NumLaneGroupsLog2
  BY DEF FullLevels
<1>2. QED
  BY <1>1, GenericsAssumption DEF NumGroupsLog2

\* The registers the decoder writes keep their type.
LEMMA ResetCfgType == ResetCfg \in CfgRegs
  BY Sizes, GenericsAssumption DEF ResetCfg, CfgRegs, ZeroWord, Word

\* The cleared registers have their widths.
LEMMA ClearedCfgType ==
  ASSUME NEW w \in Word
  PROVE  ClearedCfg(w) \in CfgRegs
  BY ResetCfgType DEF ClearedCfg, ResetCfg, CfgRegs

\* The registers after one group of the walk have their widths.
LEMMA EvaluatedType ==
  ASSUME newCfg \in CfgRegs, decGroup \in Groups
  PROVE  Evaluated \in CfgRegs
<1> DEFINE ctx == ContextOf(newCfg.word, decGroup)
           rows == {p \in newCfg.couple : p[1] \notin CurrentMatch}
                      \cup (CurrentMatch \X CurrentMatch)
           n == NumGroupsLog2(CurrentMatch)
<1>1. newCfg.word[decGroup] \in 0..15
  BY Sizes DEF CfgRegs, Word
<1>2. ctx \in Contexts
  BY <1>1, Remainders DEF ContextOf
<1>3. rows \subseteq Groups \X Groups
  BY DEF CurrentMatch, GroupIDMatch, CfgRegs
<1>4. n \in 0..NumLaneGroupsLog2
  BY NumGroupsLog2Type
<1> HIDE DEF ctx, rows, n
<1>5. [newCfg EXCEPT !.couple = rows] \in CfgRegs
  BY <1>3 DEF CfgRegs
<1>6. [newCfg EXCEPT !.couple = rows, !.enable = @ \cup {ctx},
                     !.last[ctx] = decGroup, !.num[ctx] = n] \in CfgRegs
  BY <1>2, <1>3, <1>4 DEF CfgRegs
<1>7. QED
  BY <1>5, <1>6 DEF Evaluated, ctx, rows, n

\* The walk does not leave the groups: its subtraction wraps.
LEMMA NextGroupType ==
  ASSUME decGroup \in Groups
  PROVE  NextGroup \in Groups
<1>1. NumGroupsLog2(CurrentMatch) \in 0..3
  BY NumGroupsLog2Type, GenericsAssumption
<1>2. Pow2(NumGroupsLog2(CurrentMatch)) \in {1, 2, 4, 8}
  BY <1>1 DEF Pow2
<1>3. decGroup + 8 - Pow2(NumGroupsLog2(CurrentMatch)) \in Nat
  BY <1>2, Sizes
<1>4. QED
  BY <1>3, Remainders DEF NextGroup

\* The decoder's registers keep their type in each of its clock edges.
LEMMA DecoderType ==
  ASSUME DecTypeOK
  PROVE  /\ DecodeIdle => DecTypeOK'
         /\ DecodeGroup => DecTypeOK'
         /\ DecodeAbort => DecTypeOK'
         /\ \A w \in Word : DecodeStart(w) => DecTypeOK'
<1>1. DecodeIdle => DecTypeOK'
  BY Sizes DEF DecodeIdle, DecTypeOK
<1>2. DecodeGroup => DecTypeOK'
  BY EvaluatedType, NextGroupType DEF DecodeGroup, DecTypeOK
<1>3. DecodeAbort => DecTypeOK'
  BY Sizes DEF DecodeAbort, DecTypeOK
<1>4. \A w \in Word : DecodeStart(w) => DecTypeOK'
  BY Sizes, ClearedCfgType DEF DecodeStart, DecTypeOK
<1>5. QED
  BY <1>1, <1>2, <1>3, <1>4

-----------------------------------------------------------------------------
(* The match tree *)

\* One node of the tree reports an error: its halves both hold a match and are
\* not both full.
Split(S, in1, in2) ==
  AnyMatch(S, in1) /\ AnyMatch(S, in2) /\ ~(AllMatch(S, in1) /\ AllMatch(S, in2))

\* The nodes of the tree for eight groups; those of a smaller tree are among them.
AnySplit(S) ==
  \/ Split(S, {0}, {1}) \/ Split(S, {2}, {3}) \/ Split(S, {4}, {5}) \/ Split(S, {6}, {7})
  \/ Split(S, {0, 1}, {2, 3}) \/ Split(S, {4, 5}, {6, 7})
  \/ Split(S, {0, 1, 2, 3}, {4, 5, 6, 7})

\* The aligned blocks of eight groups.
Blocks ==
  {{0}, {1}, {2}, {3}, {4}, {5}, {6}, {7}, {0, 1}, {2, 3}, {4, 5}, {6, 7},
   {0, 1, 2, 3}, {4, 5, 6, 7}, {0, 1, 2, 3, 4, 5, 6, 7}}

\* The block sizes of a tree of at most eight groups.
LEMMA Powers == Pow2(0) = 1 /\ Pow2(1) = 2 /\ Pow2(2) = 4 /\ Pow2(3) = 8
  BY DEF Pow2

LEMMA TreeErrorValue ==
  ASSUME NEW S \in SUBSET Groups
  PROVE  TreeError(S) <=> AnySplit(S)
<1>1. CASE NumLaneGroupsLog2 = 0
  <2>1. S \subseteq {0}
    BY <1>1, Powers DEF Groups, NumLaneGroups
  <2>2. ~TreeError(S)
    BY <1>1 DEF TreeError
  <2>3. QED
    BY <2>1, <2>2 DEF AnySplit, Split, AnyMatch
<1>2. CASE NumLaneGroupsLog2 = 1
  <2>1. S \subseteq {0, 1}
    BY <1>2, Powers DEF Groups, NumLaneGroups
  <2>2. Node(0, 0) = {0} /\ Node(0, 1) = {1}
    BY <1>2, Powers DEF Node, Groups, NumLaneGroups
  <2>3. TreeError(S) <=> \E i \in 0..(Pow2(0) - 1) : Split(S, Node(0, 2 * i), Node(0, 2 * i + 1))
    BY <1>2 DEF TreeError, Split
  <2>4. TreeError(S) <=> Split(S, {0}, {1})
    BY <2>2, <2>3, Powers
  <2>5. QED
    BY <2>1, <2>4 DEF AnySplit, Split, AnyMatch
<1>3. CASE NumLaneGroupsLog2 = 2
  <2>1. S \subseteq {0, 1, 2, 3}
    BY <1>3, Powers DEF Groups, NumLaneGroups
  <2>2. /\ Node(0, 0) = {0} /\ Node(0, 1) = {1} /\ Node(0, 2) = {2} /\ Node(0, 3) = {3}
        /\ Node(1, 0) = {0, 1} /\ Node(1, 1) = {2, 3}
    BY <1>3, Powers DEF Node, Groups, NumLaneGroups
  <2>3. TreeError(S) <=> \E lvl \in 0..1 : \E i \in 0..(Pow2(1 - lvl) - 1) :
                           Split(S, Node(lvl, 2 * i), Node(lvl, 2 * i + 1))
    BY <1>3 DEF TreeError, Split
  <2>4. TreeError(S) <=> \/ Split(S, Node(0, 0), Node(0, 1)) \/ Split(S, Node(0, 2), Node(0, 3))
                         \/ Split(S, Node(1, 0), Node(1, 1))
    BY <2>3, Powers
  <2>5. TreeError(S) <=> \/ Split(S, {0}, {1}) \/ Split(S, {2}, {3}) \/ Split(S, {0, 1}, {2, 3})
    BY <2>2, <2>4
  <2>6. QED
    BY <2>1, <2>5 DEF AnySplit, Split, AnyMatch
<1>4. CASE NumLaneGroupsLog2 = 3
  <2>1. /\ Node(0, 0) = {0} /\ Node(0, 1) = {1} /\ Node(0, 2) = {2} /\ Node(0, 3) = {3}
        /\ Node(0, 4) = {4} /\ Node(0, 5) = {5} /\ Node(0, 6) = {6} /\ Node(0, 7) = {7}
        /\ Node(1, 0) = {0, 1} /\ Node(1, 1) = {2, 3} /\ Node(1, 2) = {4, 5} /\ Node(1, 3) = {6, 7}
        /\ Node(2, 0) = {0, 1, 2, 3} /\ Node(2, 1) = {4, 5, 6, 7}
    BY <1>4, Powers DEF Node, Groups, NumLaneGroups
  <2>2. TreeError(S) <=> \E lvl \in 0..2 : \E i \in 0..(Pow2(2 - lvl) - 1) :
                           Split(S, Node(lvl, 2 * i), Node(lvl, 2 * i + 1))
    BY <1>4 DEF TreeError, Split
  <2>3. TreeError(S) <=> \/ Split(S, Node(0, 0), Node(0, 1)) \/ Split(S, Node(0, 2), Node(0, 3))
                         \/ Split(S, Node(0, 4), Node(0, 5)) \/ Split(S, Node(0, 6), Node(0, 7))
                         \/ Split(S, Node(1, 0), Node(1, 1)) \/ Split(S, Node(1, 2), Node(1, 3))
                         \/ Split(S, Node(2, 0), Node(2, 1))
    BY <2>2, Powers
  <2>4. QED
    BY <2>1, <2>3 DEF AnySplit
<1>5. QED
  BY <1>1, <1>2, <1>3, <1>4, GenericsAssumption

\* A set of groups that no node of the tree splits is an aligned block.
LEMMA UnsplitIsBlock ==
  ASSUME NEW S \in SUBSET (0..7), S # {}, ~AnySplit(S)
  PROVE  S \in Blocks
<1>1. /\ S \cap {0, 1, 2, 3} # {} /\ S \cap {4, 5, 6, 7} # {}
           => {0, 1, 2, 3, 4, 5, 6, 7} \subseteq S
      /\ S \cap {0, 1} # {} /\ S \cap {2, 3} # {} => {0, 1, 2, 3} \subseteq S
      /\ S \cap {4, 5} # {} /\ S \cap {6, 7} # {} => {4, 5, 6, 7} \subseteq S
  BY DEF AnySplit, Split, AnyMatch, AllMatch
<1>2. S \subseteq {0, 1, 2, 3, 4, 5, 6, 7}
  OBVIOUS
<1>3. \/ S = {0, 1, 2, 3, 4, 5, 6, 7} \/ S = {0, 1, 2, 3} \/ S = {4, 5, 6, 7}
      \/ S \subseteq {0, 1} \/ S \subseteq {2, 3} \/ S \subseteq {4, 5} \/ S \subseteq {6, 7}
  <2>1. CASE S \cap {0, 1, 2, 3} # {} /\ S \cap {4, 5, 6, 7} # {}
    BY <1>1, <1>2, <2>1, Zenon
  <2>2. CASE S \cap {4, 5, 6, 7} = {}
    <3>1. S \subseteq {0, 1, 2, 3}
      BY <1>2, <2>2
    <3>2. {0, 1, 2, 3} \subseteq S => S = {0, 1, 2, 3}
      BY <3>1, Zenon
    <3>3. QED
      BY <1>1, <3>1, <3>2
  <2>3. CASE S \cap {0, 1, 2, 3} = {}
    <3>1. S \subseteq {4, 5, 6, 7}
      BY <1>2, <2>3
    <3>2. {4, 5, 6, 7} \subseteq S => S = {4, 5, 6, 7}
      BY <3>1, Zenon
    <3>3. QED
      BY <1>1, <3>1, <3>2
  <2>4. QED
    BY <2>1, <2>2, <2>3
<1>4. S \subseteq {0, 1} => S = {0} \/ S = {1} \/ S = {0, 1}
  OBVIOUS
<1>5. S \subseteq {2, 3} => S = {2} \/ S = {3} \/ S = {2, 3}
  OBVIOUS
<1>6. S \subseteq {4, 5} => S = {4} \/ S = {5} \/ S = {4, 5}
  OBVIOUS
<1>7. S \subseteq {6, 7} => S = {6} \/ S = {7} \/ S = {6, 7}
  OBVIOUS
<1>8. QED
  BY <1>3, <1>4, <1>5, <1>6, <1>7, Zenon DEF Blocks

\* An aligned block is split by no node of the tree.
LEMMA BlockIsUnsplit ==
  ASSUME NEW S \in Blocks
  PROVE  ~AnySplit(S)
  BY DEF AnySplit, Split, AnyMatch, AllMatch, Blocks

\* The levels with a full node, without the tree.
LEMMA FullLevelsValue ==
  ASSUME NEW S \in SUBSET Groups
  PROVE  /\ 1 \in FullLevels(S) <=> \/ {0, 1} \subseteq S \/ {2, 3} \subseteq S
                                    \/ {4, 5} \subseteq S \/ {6, 7} \subseteq S
         /\ 2 \in FullLevels(S) <=> {0, 1, 2, 3} \subseteq S \/ {4, 5, 6, 7} \subseteq S
         /\ 3 \in FullLevels(S) <=> {0, 1, 2, 3, 4, 5, 6, 7} \subseteq S
<1>1. CASE NumLaneGroupsLog2 = 0
  <2>1. FullLevels(S) = {}
    BY <1>1 DEF FullLevels
  <2>2. S \subseteq {0}
    BY <1>1, Powers DEF Groups, NumLaneGroups
  <2>3. QED
    BY <2>1, <2>2
<1>2. CASE NumLaneGroupsLog2 = 1
  <2>1. S \subseteq {0, 1}
    BY <1>2, Powers DEF Groups, NumLaneGroups
  <2>2. Node(1, 0) = {0, 1}
    BY <1>2, Powers DEF Node, Groups, NumLaneGroups
  <2>3. /\ 1 \in FullLevels(S) <=> \E i \in 0..(Pow2(0) - 1) : Node(1, i) \subseteq S
        /\ 2 \notin FullLevels(S) /\ 3 \notin FullLevels(S)
    BY <1>2 DEF FullLevels, AllMatch
  <2>4. 1 \in FullLevels(S) <=> {0, 1} \subseteq S
    BY <2>2, <2>3, Powers
  <2>5. QED
    BY <2>1, <2>3, <2>4
<1>3. CASE NumLaneGroupsLog2 = 2
  <2>1. S \subseteq {0, 1, 2, 3}
    BY <1>3, Powers DEF Groups, NumLaneGroups
  <2>2. Node(1, 0) = {0, 1} /\ Node(1, 1) = {2, 3} /\ Node(2, 0) = {0, 1, 2, 3}
    BY <1>3, Powers DEF Node, Groups, NumLaneGroups
  <2>3. /\ 1 \in FullLevels(S) <=> \E i \in 0..(Pow2(1) - 1) : Node(1, i) \subseteq S
        /\ 2 \in FullLevels(S) <=> \E i \in 0..(Pow2(0) - 1) : Node(2, i) \subseteq S
        /\ 3 \notin FullLevels(S)
    BY <1>3 DEF FullLevels, AllMatch
  <2>4. /\ 1 \in FullLevels(S) <=> Node(1, 0) \subseteq S \/ Node(1, 1) \subseteq S
        /\ 2 \in FullLevels(S) <=> Node(2, 0) \subseteq S
    BY <2>3, Powers
  <2>5. QED
    BY <2>1, <2>2, <2>3, <2>4
<1>4. CASE NumLaneGroupsLog2 = 3
  <2>1. /\ Node(1, 0) = {0, 1} /\ Node(1, 1) = {2, 3} /\ Node(1, 2) = {4, 5} /\ Node(1, 3) = {6, 7}
        /\ Node(2, 0) = {0, 1, 2, 3} /\ Node(2, 1) = {4, 5, 6, 7}
        /\ Node(3, 0) = {0, 1, 2, 3, 4, 5, 6, 7}
    BY <1>4, Powers DEF Node, Groups, NumLaneGroups
  <2>2. /\ 1 \in FullLevels(S) <=> \E i \in 0..(Pow2(2) - 1) : Node(1, i) \subseteq S
        /\ 2 \in FullLevels(S) <=> \E i \in 0..(Pow2(1) - 1) : Node(2, i) \subseteq S
        /\ 3 \in FullLevels(S) <=> \E i \in 0..(Pow2(0) - 1) : Node(3, i) \subseteq S
    BY <1>4 DEF FullLevels, AllMatch
  <2>3. /\ 1 \in FullLevels(S) <=> \/ Node(1, 0) \subseteq S \/ Node(1, 1) \subseteq S
                                   \/ Node(1, 2) \subseteq S \/ Node(1, 3) \subseteq S
        /\ 2 \in FullLevels(S) <=> Node(2, 0) \subseteq S \/ Node(2, 1) \subseteq S
        /\ 3 \in FullLevels(S) <=> Node(3, 0) \subseteq S
    BY <2>2, Powers
  <2>4. QED
    BY <2>1, <2>3
<1>5. QED
  BY <1>1, <1>2, <1>3, <1>4, GenericsAssumption

\* A block written as an interval that ends with its last group, and its size.
LEMMA BlockSpan ==
  ASSUME NEW S \in SUBSET Groups, S \in Blocks, NEW g \in S, \A h \in S : h <= g
  PROVE  /\ NumGroupsLog2(S) \in 0..NumLaneGroupsLog2
         /\ g + 1 >= Pow2(NumGroupsLog2(S))
         /\ S = (g + 1 - Pow2(NumGroupsLog2(S)))..g
         /\ (g + 1 - Pow2(NumGroupsLog2(S))) % Pow2(NumGroupsLog2(S)) = 0
<1>1. CASE S \in {{0}, {1}, {2}, {3}, {4}, {5}, {6}, {7}}
  <2>1. NumGroupsLog2(S) = 0
    BY <1>1, FullLevelsValue DEF NumGroupsLog2
  <2>2. S = {g} /\ g \in 0..7
    BY <1>1
  <2>3. QED
    BY <2>1, <2>2, NumGroupsLog2Type, Powers
<1>2. CASE S \in {{0, 1}, {2, 3}, {4, 5}, {6, 7}}
  <2>1. NumGroupsLog2(S) = 1
    BY <1>2, FullLevelsValue DEF NumGroupsLog2
  <2>2. S = {g - 1, g} /\ g \in {1, 3, 5, 7}
    BY <1>2
  <2>3. QED
    BY <2>1, <2>2, NumGroupsLog2Type, Powers
<1>3. CASE S \in {{0, 1, 2, 3}, {4, 5, 6, 7}}
  <2>1. NumGroupsLog2(S) = 2
    BY <1>3, FullLevelsValue DEF NumGroupsLog2
  <2>2. S = {g - 3, g - 2, g - 1, g} /\ g \in {3, 7}
    BY <1>3
  <2>3. QED
    BY <2>1, <2>2, NumGroupsLog2Type, Powers
<1>4. CASE S = {0, 1, 2, 3, 4, 5, 6, 7}
  <2>1. NumGroupsLog2(S) = 3
    BY <1>4, FullLevelsValue DEF NumGroupsLog2
  <2>2. g = 7
    BY <1>4
  <2>3. QED
    BY <1>4, <2>1, <2>2, NumGroupsLog2Type, Powers
<1>5. QED
  BY <1>1, <1>2, <1>3, <1>4, Zenon DEF Blocks

\* The aligned blocks by arithmetic are the ones of the list.
LEMMA AlignedIsBlock ==
  ASSUME NEW S \in SUBSET Groups, AlignedBlock(S)
  PROVE  S \in Blocks
<1>1. PICK k \in 0..NumLaneGroupsLog2, a \in Groups : a % Pow2(k) = 0 /\ S = a..(a + Pow2(k) - 1)
  BY DEF AlignedBlock
<1>2. k \in {0, 1, 2, 3} /\ a \in 0..7 /\ S \subseteq 0..7
  BY GenericsAssumption, Sizes
<1>3. CASE k = 0
  <2>1. S = {a}
    BY <1>1, <1>2, <1>3, Powers
  <2>2. QED
    BY <1>2, <2>1 DEF Blocks
<1>4. CASE k = 1
  <2>1. S = {a, a + 1} /\ a \in {0, 2, 4, 6}
    BY <1>1, <1>2, <1>4, Powers
  <2>2. QED
    BY <2>1 DEF Blocks
<1>5. CASE k = 2
  <2>1. S = {a, a + 1, a + 2, a + 3} /\ a \in {0, 4}
    BY <1>1, <1>2, <1>5, Powers
  <2>2. QED
    BY <2>1 DEF Blocks
<1>6. CASE k = 3
  <2>1. S = {0, 1, 2, 3, 4, 5, 6, 7}
    BY <1>1, <1>2, <1>6, Powers
  <2>2. QED
    BY <2>1 DEF Blocks
<1>7. QED
  BY <1>2, <1>3, <1>4, <1>5, <1>6

\* A block has a last group.
LEMMA BlockHasLast ==
  ASSUME NEW S \in Blocks
  PROVE  \E g \in S : \A h \in S : h <= g
<1>1. CASE S \in {{0}, {1}, {2}, {3}, {4}, {5}, {6}, {7}}
  BY <1>1
<1>2. CASE S \in {{0, 1}, {2, 3}, {4, 5}, {6, 7}}
  BY <1>2
<1>3. CASE S \in {{0, 1, 2, 3}, {4, 5, 6, 7}, {0, 1, 2, 3, 4, 5, 6, 7}}
  <2>1. CASE S = {0, 1, 2, 3}
    <3>1. 3 \in S /\ \A h \in S : h <= 3
      BY <2>1
    <3>2. QED
      BY <3>1
  <2>2. CASE S = {4, 5, 6, 7} \/ S = {0, 1, 2, 3, 4, 5, 6, 7}
    <3>1. 7 \in S /\ \A h \in S : h <= 7
      BY <2>2
    <3>2. QED
      BY <3>1
  <2>3. QED
    BY <1>3, <2>1, <2>2
<1>4. QED
  BY <1>1, <1>2, <1>3, Zenon DEF Blocks

\* The tree reports no error exactly for the aligned blocks of the manual.
LEMMA TreeMeaning ==
  ASSUME NEW S \in SUBSET Groups, S # {}
  PROVE  /\ ~TreeError(S) <=> AlignedBlock(S)
         /\ ~TreeError(S) <=> S \in Blocks
<1>1. S \in SUBSET (0..7)
  BY Sizes
<1>2. ~TreeError(S) <=> S \in Blocks
  BY <1>1, TreeErrorValue, UnsplitIsBlock, BlockIsUnsplit
<1>3. ASSUME S \in Blocks
      PROVE  AlignedBlock(S)
  <2>1. PICK g \in S : \A h \in S : h <= g
    BY <1>3, BlockHasLast
  <2> DEFINE k == NumGroupsLog2(S)
             a == g + 1 - Pow2(k)
  <2>2. k \in 0..NumLaneGroupsLog2 /\ S = a..g /\ a % Pow2(k) = 0
    BY <1>3, <2>1, BlockSpan
  <2>3. k \in {0, 1, 2, 3}
    BY <2>2, GenericsAssumption
  <2>4. g \in 0..7 /\ Pow2(k) \in {1, 2, 4, 8}
    BY <1>1, <2>3, Powers
  <2>5. a \in S /\ g = a + Pow2(k) - 1
    BY <2>2, <2>4
  <2> HIDE DEF k, a
  <2>6. QED
    BY <2>2, <2>5 DEF AlignedBlock
<1>4. QED
  BY <1>2, <1>3, AlignedIsBlock

\* What the manual's registers are for a block that ends with g.
LEMMA BlockRegisterValues ==
  ASSUME NEW S \in SUBSET Groups, S \in Blocks, NEW g \in S, \A h \in S : h <= g
  PROVE  BlockLast(S) = g /\ BlockSizeLog2(S) = NumGroupsLog2(S)
<1>1. BlockLast(S) = g
  <2>1. \A x \in S : (\A h \in S : h <= x) => x = g
    BY Sizes
  <2>2. QED
    BY <2>1 DEF BlockLast
<1> DEFINE n == NumGroupsLog2(S)
<1>2. n \in 0..NumLaneGroupsLog2 /\ S = (g + 1 - Pow2(n))..g
  BY BlockSpan
<1> HIDE DEF n
<1>3. g \in 0..7 /\ S \subseteq 0..7
  BY Sizes
<1>4. \A k \in 0..NumLaneGroupsLog2 : Pow2(k) \in {1, 2, 4, 8}
  BY GenericsAssumption, Powers
<1>5. g + 1 - Pow2(n) \in Groups /\ S = (g + 1 - Pow2(n))..(g + 1 - Pow2(n) + Pow2(n) - 1)
  BY <1>2, <1>3, <1>4
<1>6. ASSUME NEW k \in 0..NumLaneGroupsLog2, NEW a \in Groups, S = a..(a + Pow2(k) - 1)
      PROVE  k = n
  <2>1. a \in 0..7 /\ Pow2(k) \in {1, 2, 4, 8} /\ Pow2(n) \in {1, 2, 4, 8}
    BY <1>2, <1>4, Sizes
  <2>2. a \in S /\ a + Pow2(k) - 1 \in S
    BY <1>6, <2>1
  <2>3. a + Pow2(k) - 1 = g
    BY <1>3, <1>6, <2>1, <2>2
  <2>4. g + 1 - Pow2(n) \in S
    BY <1>2, <1>3, <2>1
  <2>5. a = g + 1 - Pow2(n)
    BY <1>2, <1>3, <1>6, <2>1, <2>2, <2>4
  <2>6. Pow2(k) = Pow2(n)
    BY <1>3, <2>1, <2>3, <2>5
  <2>7. k \in {0, 1, 2, 3} /\ n \in {0, 1, 2, 3}
    BY <1>2, GenericsAssumption
  <2>8. QED
    BY <2>6, <2>7, Powers
<1>7. BlockSizeLog2(S) = n
  BY <1>2, <1>5, <1>6 DEF BlockSizeLog2
<1>8. QED
  BY <1>1, <1>7 DEF n

-----------------------------------------------------------------------------
(* The words *)

\* Within the mask, the groups that match an enabled group are those of its
\* context, and a disabled group matches only itself.
LEMMA MatchMeaning ==
  ASSUME NEW w \in Word, WithinMask(w), NEW g \in Groups
  PROVE  /\ GroupIDMatch(w, g) \subseteq Groups /\ g \in GroupIDMatch(w, g)
         /\ Disabled(w, g) => GroupIDMatch(w, g) = {g}
         /\ ~Disabled(w, g) => /\ w[g] \in Contexts /\ ContextOf(w, g) = w[g]
                               /\ GroupIDMatch(w, g) = GroupsOf(w, w[g])
         /\ \A h \in Groups : GroupID(w, g) = GroupID(w, h) <=> g = h \/ (w[g] = w[h] /\ w[g] < 8)
         /\ w[g] < 8 <=> ~Disabled(w, g)
<1>1. \A h \in Groups : w[h] \in 0..15 /\ (Disabled(w, h) <=> w[h] >= 8)
  BY Sizes DEF Word, Disabled
<1>2. ASSUME NEW h \in Groups, ~Disabled(w, h)
      PROVE  w[h] \in Contexts /\ ContextOf(w, h) = w[h]
  <2>1. w[h] \in 0..7
    BY <1>1, <1>2
  <2>2. w[h] % 8 < NumContexts
    BY Sizes DEF WithinMask
  <2>3. w[h] \in 0..(NumContexts - 1)
    BY <2>1, <2>2, Sizes, Remainders
  <2>4. QED
    BY <2>3, Remainders DEF ContextOf, Contexts
<1>3. \A h \in Groups : GroupID(w, h) = IF w[h] >= 8 THEN 8 + h ELSE w[h]
  BY <1>1, <1>2 DEF GroupID
<1>4. \A h \in Groups : GroupID(w, g) = GroupID(w, h) <=> g = h \/ (w[g] = w[h] /\ w[g] < 8)
  BY <1>1, <1>3, Sizes
<1>5. Disabled(w, g) => GroupIDMatch(w, g) = {g}
  BY <1>1, <1>4 DEF GroupIDMatch
<1>6. ~Disabled(w, g) => GroupIDMatch(w, g) = GroupsOf(w, w[g])
  BY <1>1, <1>4 DEF GroupIDMatch, GroupsOf
<1>7. QED
  BY <1>1, <1>2, <1>4, <1>5, <1>6 DEF GroupIDMatch

-----------------------------------------------------------------------------
(* The walk *)

\* The registers after the groups D were evaluated.
WalkRegs(w, D) ==
  [word   |-> w,
   enable |-> {c \in Contexts : GroupsOf(w, c) \cap D # {}},
   last   |-> [c \in Contexts |->
                 IF GroupsOf(w, c) \cap D = {} THEN LastGroup ELSE BlockLast(GroupsOf(w, c))],
   num    |-> [c \in Contexts |->
                 IF GroupsOf(w, c) \cap D = {} THEN NumLaneGroupsLog2
                 ELSE BlockSizeLog2(GroupsOf(w, c))],
   couple |-> {p \in Groups \X Groups :
                 /\ p[1] \in D
                 /\ p[1] = p[2] \/ (w[p[1]] = w[p[2]] /\ w[p[1]] < 8)}]

\* The groups D are whole blocks, one for each context or disabled group.
WholeBlocks(w, D) ==
  \A h \in D : GroupIDMatch(w, h) \subseteq D /\ ~TreeError(GroupIDMatch(w, h))

\* The groups the walk has left behind.
Walked == {h \in Groups : h > decGroup}

\* The decoder only ever steps over whole blocks, and its registers hold what
\* the word says about those.
WalkInv ==
  decBusy => /\ WithinMask(newCfg.word)
             /\ WholeBlocks(newCfg.word, Walked)
             /\ newCfg = WalkRegs(newCfg.word, Walked)

\* A request within the mask starts a walk at the last group.
LEMMA WalkStart ==
  ASSUME NEW w \in Word, WithinMask(w), DecodeStart(w)
  PROVE  WalkInv'
<1>1. newCfg' = ClearedCfg(w) /\ decGroup' = LastGroup
  BY DEF DecodeStart
<1>2. Walked' = {}
  BY <1>1, Sizes DEF Walked, LastGroup, Groups
<1>3. ClearedCfg(w) = [word |-> w, enable |-> {}, last |-> [c \in Contexts |-> LastGroup],
                       num |-> [c \in Contexts |-> NumLaneGroupsLog2], couple |-> {}]
  <2>1. ClearedCfg(w) \in CfgRegs
    BY ClearedCfgType
  <2>2. ClearedCfg(w) = [word |-> ClearedCfg(w).word, enable |-> ClearedCfg(w).enable,
                         last |-> ClearedCfg(w).last, num |-> ClearedCfg(w).num,
                         couple |-> ClearedCfg(w).couple]
    BY <2>1 DEF CfgRegs
  <2>3. /\ ClearedCfg(w).word = w /\ ClearedCfg(w).enable = {} /\ ClearedCfg(w).couple = {}
        /\ ClearedCfg(w).last = [c \in Contexts |-> LastGroup]
        /\ ClearedCfg(w).num = [c \in Contexts |-> NumLaneGroupsLog2]
    BY DEF ClearedCfg, ResetCfg
  <2>4. QED
    BY <2>2, <2>3
<1>4. WalkRegs(w, {}) = [word |-> w, enable |-> {}, last |-> [c \in Contexts |-> LastGroup],
                         num |-> [c \in Contexts |-> NumLaneGroupsLog2], couple |-> {}]
  BY DEF WalkRegs
<1>5. newCfg'.word = w /\ newCfg' = WalkRegs(w, {})
  BY <1>1, <1>3, <1>4
<1>6. WholeBlocks(w, {})
  BY DEF WholeBlocks
<1>7. WithinMask(newCfg'.word) /\ WholeBlocks(newCfg'.word, Walked')
        /\ newCfg' = WalkRegs(newCfg'.word, Walked')
  BY <1>2, <1>5, <1>6
<1>8. QED
  BY <1>7 DEF WalkInv, WithinMask, WholeBlocks, WalkRegs, GroupIDMatch, GroupID, Disabled, ContextOf,
              TreeError, GroupsOf, BlockLast, BlockSizeLog2, AnyMatch, AllMatch, Node

\* The block of the current group lies directly below those walked over.
LEMMA CurrentBlock ==
  ASSUME DecTypeOK, WithinMask(newCfg.word), WholeBlocks(newCfg.word, Walked), ~MatchError
  PROVE  /\ CurrentMatch \in SUBSET Groups /\ decGroup \in CurrentMatch
         /\ CurrentMatch \in Blocks
         /\ \A h \in CurrentMatch : h <= decGroup
<1> DEFINE w == newCfg.word
<1>1. w \in Word /\ decGroup \in Groups
  BY DEF DecTypeOK, CfgRegs
<1>2. CurrentMatch \in SUBSET Groups /\ decGroup \in CurrentMatch
  BY <1>1, MatchMeaning DEF CurrentMatch
<1>3. CurrentMatch \in Blocks
  BY <1>2, TreeMeaning DEF MatchError
<1>4. ASSUME NEW h \in CurrentMatch, ~(h <= decGroup)
      PROVE  FALSE
  <2>1. h \in Walked
    BY <1>1, <1>2, <1>4, Sizes DEF Walked
  <2>2. decGroup \in GroupIDMatch(w, h)
    BY <1>1, <1>2 DEF CurrentMatch, GroupIDMatch
  <2>3. decGroup \in Walked
    BY <2>1, <2>2 DEF WholeBlocks
  <2>4. QED
    BY <1>1, <2>3, Sizes DEF Walked
<1>5. QED
  BY <1>2, <1>3, <1>4

\* Where the walk goes next.
LEMMA NextGroupMeaning ==
  ASSUME DecTypeOK, WithinMask(newCfg.word), WholeBlocks(newCfg.word, Walked), ~MatchError
  PROVE  /\ NextGroup = LastGroup => Walked \cup CurrentMatch = Groups
         /\ NextGroup # LastGroup =>
              Walked \cup CurrentMatch = {h \in Groups : h > NextGroup}
<1> DEFINE n == NumGroupsLog2(CurrentMatch)
           g == decGroup
<1>1. CurrentMatch \in SUBSET Groups /\ g \in CurrentMatch /\ CurrentMatch \in Blocks
        /\ \A h \in CurrentMatch : h <= g
  BY CurrentBlock
<1>2. n \in 0..NumLaneGroupsLog2 /\ g + 1 >= Pow2(n) /\ CurrentMatch = (g + 1 - Pow2(n))..g
  BY <1>1, BlockSpan
<1>3. Pow2(n) \in {1, 2, 4, 8}
  BY <1>2, GenericsAssumption, Powers
<1>4. g \in 0..7 /\ g <= LastGroup /\ LastGroup = NumLaneGroups - 1 /\ Groups = 0..LastGroup
  BY <1>1, Sizes DEF Groups, LastGroup
<1>5. NextGroup = (g + 8 - Pow2(n)) % NumLaneGroups
  BY DEF NextGroup
<1> HIDE DEF n, g
<1>6. Walked \cup CurrentMatch = {h \in Groups : h > g - Pow2(n)}
  <2>1. Walked = {h \in Groups : h > g}
    BY DEF Walked, g
  <2>2. QED
    BY <1>1, <1>2, <1>3, <1>4, <2>1
<1>7. CASE g + 1 = Pow2(n)
  <2>1. NextGroup = LastGroup
    BY <1>3, <1>4, <1>5, <1>7, Sizes
  <2>2. QED
    BY <1>3, <1>4, <1>6, <1>7, <2>1
<1>8. CASE g + 1 > Pow2(n)
  <2>1. NextGroup = g - Pow2(n)
    BY <1>3, <1>4, <1>5, <1>8, Sizes
  <2>2. QED
    BY <1>3, <1>4, <1>6, <1>8, <2>1
<1>9. QED
  BY <1>2, <1>3, <1>4, <1>7, <1>8

\* S holds all the groups that run in lockstep with any of its members.
IsClass(w, S) ==
  \A i \in S : \A j \in Groups : j \in S <=> i = j \/ (w[i] = w[j] /\ w[i] < 8)

RowsAfter(C, S) == {p \in C : p[1] \notin S} \cup (S \X S)

\* The rows of the couple matrix after one more block: the old rows of the
\* block are replaced, the others stay.
LEMMA CoupleStep ==
  ASSUME NEW w, NEW D \in SUBSET Groups, NEW S \in SUBSET Groups, S \cap D = {}, IsClass(w, S)
  PROVE  RowsAfter(WalkRegs(w, D).couple, S) = WalkRegs(w, D \cup S).couple
<1> DEFINE same(i, j) == i = j \/ (w[i] = w[j] /\ w[i] < 8)
           C(E) == {p \in Groups \X Groups : p[1] \in E /\ same(p[1], p[2])}
<1>1. WalkRegs(w, D).couple = C(D) /\ WalkRegs(w, D \cup S).couple = C(D \cup S)
  BY DEF WalkRegs
<1>2. ASSUME NEW i \in Groups, NEW j \in Groups
      PROVE  <<i, j>> \in ({p \in C(D) : p[1] \notin S} \cup (S \X S)) <=> <<i, j>> \in C(D \cup S)
  <2>1. <<i, j>> \in ({p \in C(D) : p[1] \notin S} \cup (S \X S))
          <=> (i \in D /\ same(i, j) /\ i \notin S) \/ (i \in S /\ j \in S)
    BY DEF same
  <2>2. <<i, j>> \in C(D \cup S) <=> i \in D \cup S /\ same(i, j)
    BY DEF same
  <2>3. i \in S => (j \in S <=> same(i, j))
    BY DEF IsClass
  <2>4. QED
    BY <2>1, <2>2, <2>3
<1>3. /\ {p \in C(D) : p[1] \notin S} \cup (S \X S) \subseteq Groups \X Groups
      /\ C(D \cup S) \subseteq Groups \X Groups
  OBVIOUS
<1> HIDE DEF C, same
<1>4. {p \in C(D) : p[1] \notin S} \cup (S \X S) = C(D \cup S)
  <2> DEFINE A == {p \in C(D) : p[1] \notin S} \cup (S \X S)
             B == C(D \cup S)
  <2>1. \A i, j \in Groups : <<i, j>> \in A <=> <<i, j>> \in B
    BY <1>2
  <2>2. A \subseteq Groups \X Groups /\ B \subseteq Groups \X Groups
    BY <1>3
  <2> HIDE DEF A, B
  <2>3. \A p \in Groups \X Groups : p \in A <=> p \in B
    BY <2>1
  <2>4. A = B
    BY <2>2, <2>3
  <2>5. QED
    BY <2>4 DEF A, B
<1>5. QED
  BY <1>1, <1>4 DEF RowsAfter

\* Evaluating the current group adds its block to what the registers hold.
LEMMA EvaluatedMeaning ==
  ASSUME DecTypeOK, WithinMask(newCfg.word), WholeBlocks(newCfg.word, Walked), ~MatchError,
         newCfg = WalkRegs(newCfg.word, Walked)
  PROVE  /\ Evaluated = WalkRegs(newCfg.word, Walked \cup CurrentMatch)
         /\ WholeBlocks(newCfg.word, Walked \cup CurrentMatch)
<1> DEFINE w == newCfg.word
           S == CurrentMatch
           D == Walked
           g == decGroup
<1>1. w \in Word /\ g \in Groups /\ newCfg \in CfgRegs
  BY DEF DecTypeOK, CfgRegs
<1>2. S \in SUBSET Groups /\ g \in S /\ S \in Blocks /\ \A h \in S : h <= g
  BY CurrentBlock
<1>3. S \cap D = {} /\ D \in SUBSET Groups
  <2>1. \A h \in D : h \in Groups /\ h > g
    BY DEF Walked
  <2>2. \A h \in Groups : h > g => ~(h <= g)
    BY <1>1, Sizes
  <2>3. QED
    BY <1>2, <2>1, <2>2, Zenon
<1>4. \A i \in S : GroupIDMatch(w, i) = S
  BY DEF CurrentMatch, GroupIDMatch
<1>5. IsClass(w, S)
  <2> SUFFICES ASSUME NEW i \in S, NEW j \in Groups
               PROVE  j \in S <=> i = j \/ (w[i] = w[j] /\ w[i] < 8)
    BY DEF IsClass
  <2>1. j \in S <=> GroupID(w, i) = GroupID(w, j)
    BY <1>2, <1>4 DEF GroupIDMatch
  <2>2. GroupID(w, i) = GroupID(w, j) <=> i = j \/ (w[i] = w[j] /\ w[i] < 8)
    BY <1>1, <1>2, MatchMeaning
  <2>3. QED
    BY <2>1, <2>2
<1>6. WholeBlocks(w, D \cup S)
  <2>1. ~TreeError(S)
    BY DEF MatchError
  <2>2. QED
    BY <1>4, <2>1 DEF WholeBlocks
<1> DEFINE rows == {p \in newCfg.couple : p[1] \notin S} \cup (S \X S)
<1>7. rows = WalkRegs(w, D \cup S).couple
  <2>1. newCfg.couple = WalkRegs(w, D).couple
    OBVIOUS
  <2> HIDE DEF w, S, D
  <2>2. RowsAfter(WalkRegs(w, D).couple, S) = WalkRegs(w, D \cup S).couple
    BY <1>2, <1>3, <1>5, CoupleStep, Zenon
  <2>3. QED
    BY <2>1, <2>2 DEF RowsAfter
<1>8. CASE Disabled(w, g)
  <2>1. S = {g} /\ ~(w[g] < 8)
    BY <1>1, <1>8, MatchMeaning DEF CurrentMatch
  <2>2. \A c \in Contexts : GroupsOf(w, c) \cap (D \cup S) = GroupsOf(w, c) \cap D
    <3>1. \A c \in Contexts : g \notin GroupsOf(w, c)
      BY <2>1, Sizes DEF GroupsOf
    <3>2. QED
      BY <2>1, <3>1
  <2>3. /\ newCfg.enable = WalkRegs(w, D \cup S).enable
        /\ newCfg.last = WalkRegs(w, D \cup S).last
        /\ newCfg.num = WalkRegs(w, D \cup S).num
    BY <2>2 DEF WalkRegs
  <2>4. Evaluated = [newCfg EXCEPT !.couple = rows]
    BY <1>8 DEF Evaluated
  <2>5. Evaluated = [word |-> w, enable |-> newCfg.enable, last |-> newCfg.last,
                     num |-> newCfg.num, couple |-> rows]
    BY <1>1, <2>4 DEF CfgRegs
  <2>6. QED
    BY <1>6, <1>7, <2>3, <2>5 DEF WalkRegs
<1>9. CASE ~Disabled(w, g)
  <2> DEFINE c == w[g]
             n == NumGroupsLog2(S)
  <2>1. c \in Contexts /\ ContextOf(w, g) = c /\ S = GroupsOf(w, c)
    BY <1>1, <1>9, MatchMeaning DEF CurrentMatch
  <2>2. BlockLast(S) = g /\ BlockSizeLog2(S) = n
    BY <1>2, BlockRegisterValues
  <2>3. \A d \in Contexts : d # c => GroupsOf(w, d) \cap S = {}
    BY <2>1 DEF GroupsOf
  <2>4. \A d \in Contexts : GroupsOf(w, d) \cap (D \cup S) =
                               IF d = c THEN S ELSE GroupsOf(w, d) \cap D
    BY <2>1, <2>3
  <2>5. WalkRegs(w, D \cup S).enable = newCfg.enable \cup {c}
    BY <1>2, <2>1, <2>4 DEF WalkRegs
  <2>6. WalkRegs(w, D \cup S).last = [newCfg.last EXCEPT ![c] = g]
    BY <1>2, <2>1, <2>2, <2>4 DEF WalkRegs
  <2>7. WalkRegs(w, D \cup S).num = [newCfg.num EXCEPT ![c] = n]
    BY <1>2, <2>1, <2>2, <2>4 DEF WalkRegs
  <2>8. Evaluated = [newCfg EXCEPT !.couple = rows, !.enable = @ \cup {c},
                                   !.last[c] = g, !.num[c] = n]
    BY <1>9, <2>1 DEF Evaluated
  <2>9. Evaluated = [word |-> w, enable |-> newCfg.enable \cup {c},
                     last |-> [newCfg.last EXCEPT ![c] = g],
                     num |-> [newCfg.num EXCEPT ![c] = n], couple |-> rows]
    BY <1>1, <2>8 DEF CfgRegs
  <2>10. QED
    BY <1>6, <1>7, <2>5, <2>6, <2>7, <2>9 DEF WalkRegs
<1>10. QED
  BY <1>8, <1>9

\* What the walk leaves behind when it has been over all groups.
LEMMA WalkComplete ==
  ASSUME NEW w \in Word, WithinMask(w), WholeBlocks(w, Groups)
  PROVE  LegalWord(w) /\ WalkRegs(w, Groups) = DecodedWord(w)
<1>1. ASSUME NEW c \in Contexts, GroupsOf(w, c) # {}
      PROVE  AlignedBlock(GroupsOf(w, c))
  <2>1. PICK g \in Groups : w[g] = c
    BY <1>1 DEF GroupsOf
  <2>2. ~Disabled(w, g)
    BY <2>1, Sizes DEF Disabled
  <2>3. GroupIDMatch(w, g) = GroupsOf(w, c)
    BY <2>1, <2>2, MatchMeaning
  <2>4. ~TreeError(GroupsOf(w, c))
    BY <2>3 DEF WholeBlocks
  <2>5. GroupsOf(w, c) \in SUBSET Groups
    BY DEF GroupsOf
  <2>6. QED
    BY <1>1, <2>4, <2>5, TreeMeaning
<1>2. \A c \in Contexts : GroupsOf(w, c) \cap Groups = GroupsOf(w, c)
  BY DEF GroupsOf
<1>3. /\ WalkRegs(w, Groups).word = DecodedWord(w).word
      /\ WalkRegs(w, Groups).enable = DecodedWord(w).enable
      /\ WalkRegs(w, Groups).last = DecodedWord(w).last
      /\ WalkRegs(w, Groups).num = DecodedWord(w).num
  BY <1>2 DEF WalkRegs, DecodedWord
<1>4. WalkRegs(w, Groups).couple = DecodedWord(w).couple
  BY DEF WalkRegs, DecodedWord
<1>5. QED
  BY <1>1, <1>3, <1>4 DEF LegalWord, WalkRegs, DecodedWord

\* One step of the walk keeps its invariant, or ends it with the registers of
\* a legal word.
LEMMA WalkStep ==
  ASSUME DecTypeOK, WalkInv, DecodeGroup
  PROVE  /\ WalkInv'
         /\ ~decBusy' => /\ LegalWord(newCfg.word)
                         /\ newCfg' = DecodedWord(newCfg.word)
<1> DEFINE w == newCfg.word
           D == Walked \cup CurrentMatch
<1>1. /\ WithinMask(w) /\ WholeBlocks(w, Walked) /\ newCfg = WalkRegs(w, Walked)
      /\ ~MatchError /\ newCfg' = Evaluated /\ decGroup' = NextGroup
      /\ decBusy' = (NextGroup # LastGroup)
  BY DEF WalkInv, DecodeGroup
<1>2. Evaluated = WalkRegs(w, D) /\ WholeBlocks(w, D)
  BY <1>1, EvaluatedMeaning
<1>3. newCfg' = WalkRegs(w, D) /\ newCfg'.word = w
  BY <1>1, <1>2 DEF WalkRegs
<1>4. CASE NextGroup = LastGroup
  <2>1. D = Groups /\ ~decBusy'
    BY <1>1, <1>4, NextGroupMeaning
  <2>2. w \in Word
    BY DEF DecTypeOK, CfgRegs
  <2>3. LegalWord(w) /\ newCfg' = DecodedWord(w)
    BY <1>1, <1>2, <1>3, <2>1, <2>2, WalkComplete
  <2>4. QED
    BY <2>1, <2>3 DEF WalkInv
<1>5. CASE NextGroup # LastGroup
  <2>1. D = {h \in Groups : h > NextGroup} /\ decBusy'
    BY <1>1, <1>5, NextGroupMeaning
  <2>2. Walked' = D
    BY <1>1, <2>1 DEF Walked
  <2>3. /\ WithinMask(newCfg'.word)
        /\ WholeBlocks(newCfg'.word, Walked')
        /\ newCfg' = WalkRegs(newCfg'.word, Walked')
    BY <1>1, <1>2, <1>3, <2>2
  <2>4. WalkInv'
    BY <2>3 DEF WalkInv, WithinMask, WholeBlocks, WalkRegs, GroupIDMatch, GroupID, Disabled,
                ContextOf, TreeError, GroupsOf, BlockLast, BlockSizeLog2, AnyMatch, AllMatch, Node
  <2>5. QED
    BY <2>1, <2>4
<1>6. QED
  BY <1>4, <1>5

\* An error is reported for words the manual calls illegal only.
LEMMA AbortMeaning ==
  ASSUME DecTypeOK, WalkInv, DecoderError
  PROVE  ~LegalWord(newCfg.word)
<1> DEFINE w == newCfg.word
<1>1. WithinMask(w) /\ w \in Word /\ decGroup \in Groups /\ TreeError(CurrentMatch)
  BY DEF WalkInv, DecoderError, MatchError, DecTypeOK, CfgRegs
<1>2. CurrentMatch \in SUBSET Groups /\ decGroup \in CurrentMatch
  BY <1>1, MatchMeaning DEF CurrentMatch
<1>3. ~AlignedBlock(CurrentMatch)
  BY <1>1, <1>2, TreeMeaning
<1>4. ~Disabled(w, decGroup)
  <2> SUFFICES ASSUME Disabled(w, decGroup)
               PROVE  FALSE
    OBVIOUS
  <2>1. CurrentMatch = {decGroup}
    BY <1>1, MatchMeaning DEF CurrentMatch
  <2>2. {decGroup} \in Blocks
    BY <1>1, Sizes DEF Blocks
  <2>3. QED
    BY <1>1, <1>2, <2>1, <2>2, TreeMeaning
<1>5. w[decGroup] \in Contexts /\ CurrentMatch = GroupsOf(w, w[decGroup])
  BY <1>1, <1>4, MatchMeaning DEF CurrentMatch
<1>6. QED
  BY <1>2, <1>3, <1>5 DEF LegalWord

\* The decoder's registers keep their type and its walk stays on block
\* boundaries.
LEMMA DecoderInvariant == DecSpec => [](DecTypeOK /\ WalkInv)
<1>1. DecInit => DecTypeOK /\ WalkInv
  <2>1. DecInit => DecTypeOK
    BY ResetCfgType, Sizes DEF DecInit, DecTypeOK
  <2>2. DecInit => WalkInv
    BY DEF DecInit, WalkInv
  <2>3. QED
    BY <2>1, <2>2
<1>2. DecTypeOK /\ WalkInv /\ [DecNext]_decVars => (DecTypeOK /\ WalkInv)'
  <2> SUFFICES ASSUME DecTypeOK, WalkInv, [DecNext]_decVars
               PROVE  DecTypeOK' /\ WalkInv'
    OBVIOUS
  <2>1. CASE DecStartAny
    <3>1. PICK w \in RequestWords : WithinMask(w) /\ DecodeStart(w)
      BY <2>1 DEF DecStartAny
    <3>2. w \in Word
      BY RequestWordsAssumption
    <3>3. QED
      BY <3>1, <3>2, WalkStart, DecoderType
  <2>2. CASE DecodeAbort
    <3>1. WalkInv'
      BY <2>2 DEF DecodeAbort, WalkInv
    <3>2. QED
      BY <2>2, <3>1, DecoderType
  <2>3. CASE DecodeGroup
    BY <2>3, WalkStep, DecoderType
  <2>4. CASE UNCHANGED decVars
    BY <2>4 DEF decVars, DecTypeOK, WalkInv, Walked, WithinMask, WholeBlocks, WalkRegs, GroupIDMatch,
                GroupID, Disabled, ContextOf, TreeError, GroupsOf, BlockLast, BlockSizeLog2, AnyMatch,
                AllMatch, Node
  <2>5. QED
    BY <2>1, <2>2, <2>3, <2>4 DEF DecNext
<1>3. QED
  BY <1>1, <1>2, PTL DEF DecSpec

\* For every number of lane groups and contexts and for every word within the
\* mask, decoding ends with an error exactly when the manual calls the word
\* illegal, and otherwise with every register holding what the word means.
THEOREM DecoderIsSound == DecSpec => DecodeSound
<1> DEFINE Ends == decBusy /\ ~decBusy' =>
                     IF DecoderError
                     THEN ~LegalWord(newCfg.word)
                     ELSE LegalWord(newCfg.word) /\ newCfg' = DecodedWord(newCfg.word)
<1>1. DecTypeOK /\ WalkInv /\ [DecNext]_decVars => [Ends]_decVars
  <2> SUFFICES ASSUME DecTypeOK, WalkInv, DecNext, decBusy, ~decBusy'
               PROVE  IF DecoderError
                      THEN ~LegalWord(newCfg.word)
                      ELSE LegalWord(newCfg.word) /\ newCfg' = DecodedWord(newCfg.word)
    OBVIOUS
  <2>1. CASE DecStartAny
    BY <2>1 DEF DecStartAny
  <2>2. CASE DecodeAbort
    BY <2>2, AbortMeaning DEF DecodeAbort
  <2>3. CASE DecodeGroup
    <3>1. ~DecoderError
      BY <2>3 DEF DecodeGroup, DecoderError
    <3>2. QED
      BY <2>3, <3>1, WalkStep
  <2>4. QED
    BY <2>1, <2>2, <2>3 DEF DecNext
<1>2. QED
  BY <1>1, DecoderInvariant, PTL DEF DecSpec, DecodeSound

-----------------------------------------------------------------------------
(* The controller.                                                          *)

\* A non-empty set of contexts has a lowest-numbered element.
LEMMA LowestContext ==
  ASSUME NEW D \in SUBSET Contexts, D # {}
  PROVE  \E c \in D : \A d \in D : c <= d
<1>1. D \subseteq 0..7
  BY Sizes
<1>2. CASE 0 \in D
  BY <1>1, <1>2
<1>3. CASE 0 \notin D /\ 1 \in D
  BY <1>1, <1>3
<1>4. CASE {0, 1} \cap D = {} /\ 2 \in D
  BY <1>1, <1>4
<1>5. CASE {0, 1, 2} \cap D = {} /\ 3 \in D
  BY <1>1, <1>5
<1>6. CASE {0, 1, 2, 3} \cap D = {} /\ 4 \in D
  BY <1>1, <1>6
<1>7. CASE {0, 1, 2, 3, 4} \cap D = {} /\ 5 \in D
  BY <1>1, <1>7
<1>8. CASE {0, 1, 2, 3, 4, 5} \cap D = {} /\ 6 \in D
  BY <1>1, <1>8
<1>9. CASE {0, 1, 2, 3, 4, 5, 6} \cap D = {}
  <2>1. \A d \in D : d = 7
    BY <1>1, <1>9
  <2>2. QED
    BY <2>1
<1>10. QED
  BY <1>2, <1>3, <1>4, <1>5, <1>6, <1>7, <1>8, <1>9

\* What arbitration selects.
LEMMA WinnerType ==
  ASSUME NEW r \in RequestPulses, ReconfigRequest(r), wcfg \in Word,
         pipe \subseteq Contexts
  PROVE  Winner(r) \in RequesterIDs /\ NewConfiguration(r) \in Word
<1>1. PICK S \in SUBSET (Contexts \cup {BusID}) : r \in [S -> RequestWords]
  BY EnvironmentAssumption DEF RequestPulses
<1>2. DOMAIN r = S
  BY <1>1
<1>3. CASE WakeupActive
  BY <1>3 DEF Winner, NewConfiguration, RequesterIDs
<1>4. CASE ~WakeupActive /\ BusID \in S
  <2>1. Winner(r) = BusID
    BY <1>2, <1>4 DEF Winner
  <2>2. r[BusID] \in Word
    BY <1>1, <1>4, RequestWordsAssumption
  <2>3. QED
    BY <2>1, <2>2 DEF NewConfiguration, RequesterIDs, BusID, WakeupID
<1>5. CASE ~WakeupActive /\ BusID \notin S
  <2>1. S # {} /\ S \subseteq Contexts
    BY <1>1, <1>2, <1>5 DEF ReconfigRequest
  <2>2. \E c \in S : \A d \in S : c <= d
    BY <2>1, LowestContext
  <2>3. Winner(r) = CHOOSE c \in S : \A d \in S : c <= d
    BY <1>2, <1>5, <2>1 DEF Winner
  <2>4. Winner(r) \in S
    BY <2>2, <2>3
  <2>5. Winner(r) # WakeupID
    BY <2>1, <2>4, Sizes DEF WakeupID
  <2>6. r[Winner(r)] \in Word
    BY <1>1, <2>4, RequestWordsAssumption
  <2>7. QED
    BY <2>1, <2>4, <2>5, <2>6 DEF NewConfiguration, RequesterIDs
<1>6. QED
  BY <1>3, <1>4, <1>5

-----------------------------------------------------------------------------
(* Type correctness *)

\* The types of what surrounds the controller.
SurroundingsOK ==
  /\ blockCtxt \in SUBSET Contexts
  /\ blockMem \in SUBSET Groups
  /\ blockDecode \in BOOLEAN
  /\ pipe \in SUBSET Contexts
  /\ mem \in SUBSET Groups
  /\ wcfg \in Word
  /\ sawcS \in BOOLEAN
  /\ irq \in BOOLEAN

\* The pipelines, memories and block registers keep their types.
LEMMA SurroundingsType ==
  ASSUME TypeOK, Surroundings, curCfg' \in CfgRegs
  PROVE  SurroundingsOK'
<1>1. blockCtxt' \in SUBSET Contexts /\ blockMem' \in SUBSET Groups /\ blockDecode' \in BOOLEAN
  BY DEF Surroundings, BlockRegisters, TypeOK, DecTypeOK
<1>2. pipe' \in SUBSET Contexts
  BY DEF Surroundings, Pipelines, CfgRegs
<1>3. mem' \in SUBSET Groups
  BY DEF Surroundings, Memories, GroupsRunning, TypeOK
<1>4. irq' \in BOOLEAN
  BY EnvironmentAssumption DEF Surroundings, Interrupts
<1>5. wcfg' \in Word /\ sawcS' \in BOOLEAN
  <2>1. curCfg.word \in Word
    BY DEF TypeOK, CfgRegs
  <2>2. QED
    BY <2>1, EnvironmentAssumption DEF Surroundings, WakeupRegisters, TypeOK
<1>6. QED
  BY <1>1, <1>2, <1>3, <1>4, <1>5 DEF SurroundingsOK

\* Every register of the controller keeps its type, whatever is requested.
THEOREM TypeCorrect == Spec => []TypeOK
<1>1. Init => TypeOK
  <2> SUFFICES ASSUME Init PROVE TypeOK
    OBVIOUS
  <2>1. newCfg \in CfgRegs /\ curCfg \in CfgRegs
    BY ResetCfgType DEF Init, DecInit
  <2>2. decGroup \in Groups
    BY Sizes DEF Init, DecInit, Groups
  <2>3. requesterID \in RequesterIDs
    BY DEF Init, RequesterIDs
  <2>4. wcfg \in Word
    BY DEF Init, ZeroWord, Word
  <2>5. /\ decBusy \in BOOLEAN /\ busy \in BOOLEAN /\ error \in BOOLEAN
        /\ blockDecode \in BOOLEAN /\ sawcS \in BOOLEAN /\ irq \in BOOLEAN
    BY DEF Init, DecInit
  <2>6. /\ blockCtxt \in SUBSET Contexts /\ blockMem \in SUBSET Groups
        /\ pipe \in SUBSET Contexts /\ mem \in SUBSET Groups
    BY DEF Init
  <2>7. QED
    BY <2>1, <2>2, <2>3, <2>4, <2>5, <2>6 DEF TypeOK, DecTypeOK
<1>2. TypeOK /\ [Next]_vars => TypeOK'
  <2> SUFFICES ASSUME TypeOK, [Next]_vars PROVE TypeOK'
    OBVIOUS
  <2>a. DecTypeOK /\ curCfg \in CfgRegs /\ busy \in BOOLEAN /\ error \in BOOLEAN
          /\ requesterID \in RequesterIDs /\ wcfg \in Word /\ pipe \subseteq Contexts
    BY DEF TypeOK
  <2>b. newCfg \in CfgRegs
    BY <2>a DEF DecTypeOK
  <2> DEFINE StatusOK == /\ DecTypeOK
                         /\ curCfg \in CfgRegs
                         /\ busy \in BOOLEAN
                         /\ error \in BOOLEAN
                         /\ requesterID \in RequesterIDs
  <2>c. SurroundingsOK' /\ StatusOK' => TypeOK'
    BY DEF SurroundingsOK, TypeOK
  <2>1. CASE NoRequest
    <3>1. StatusOK' /\ Surroundings
      BY <2>a, <2>1, DecoderType DEF NoRequest, statusVars
    <3>2. QED
      BY <3>1, <2>c, SurroundingsType
  <2>2. CASE RejectRequest
    <3>1. PICK r \in RequestPulses : /\ ReconfigRequest(r)
                                     /\ requesterID' = Winner(r)
                                     /\ error' = TRUE
                                     /\ UNCHANGED <<curCfg, busy>>
                                     /\ DecodeIdle
                                     /\ Surroundings
      BY <2>2 DEF RejectRequest
    <3>2. StatusOK'
      BY <2>a, <3>1, WinnerType, DecoderType
    <3>3. QED
      BY <3>1, <3>2, <2>c, SurroundingsType
  <2>3. CASE RepeatRequest
    <3>1. PICK r \in RequestPulses : /\ ReconfigRequest(r)
                                     /\ requesterID' = Winner(r)
                                     /\ UNCHANGED <<curCfg, busy, error>>
                                     /\ DecodeIdle
                                     /\ Surroundings
      BY <2>3 DEF RepeatRequest
    <3>2. StatusOK'
      BY <2>a, <3>1, WinnerType, DecoderType
    <3>3. QED
      BY <3>1, <3>2, <2>c, SurroundingsType
  <2>4. CASE AcceptRequest
    <3>1. PICK r \in RequestPulses : /\ ReconfigRequest(r)
                                     /\ requesterID' = Winner(r)
                                     /\ busy' = TRUE
                                     /\ error' = FALSE
                                     /\ UNCHANGED curCfg
                                     /\ DecodeStart(NewConfiguration(r))
                                     /\ Surroundings
      BY <2>4 DEF AcceptRequest
    <3>2. StatusOK'
      BY <2>a, <3>1, WinnerType, DecoderType
    <3>3. QED
      BY <3>1, <3>2, <2>c, SurroundingsType
  <2>5. CASE Decode
    <3>1. StatusOK' /\ Surroundings
      BY <2>a, <2>5, DecoderType DEF Decode, statusVars
    <3>2. QED
      BY <3>1, <2>c, SurroundingsType
  <2>6. CASE FailDecode
    <3>1. StatusOK' /\ Surroundings
      BY <2>a, <2>6, DecoderType DEF FailDecode
    <3>2. QED
      BY <3>1, <2>c, SurroundingsType
  <2>7. CASE AwaitIdle
    <3>1. StatusOK' /\ Surroundings
      BY <2>a, <2>7, DecoderType DEF AwaitIdle, statusVars
    <3>2. QED
      BY <3>1, <2>c, SurroundingsType
  <2>8. CASE Commit
    <3>1. StatusOK' /\ Surroundings
      BY <2>a, <2>b, <2>8, DecoderType DEF Commit
    <3>2. QED
      BY <3>1, <2>c, SurroundingsType
  <2>9. CASE UNCHANGED vars
    BY <2>9 DEF vars, decVars, statusVars, blockVars, envVars, TypeOK, DecTypeOK
  <2>10. QED
    BY <2>1, <2>2, <2>3, <2>4, <2>5, <2>6, <2>7, <2>8, <2>9 DEF Next
<1>3. QED
  BY <1>1, <1>2, PTL DEF Spec

-----------------------------------------------------------------------------
(* Commit happens in quiet *)

\* The word of the decoder stays within the mask and the last group it
\* writes for a context runs that context.
LEMMA DecoderLast ==
  ASSUME DecTypeOK, WithinMask(newCfg.word), LastGroupRuns(newCfg)
  PROVE  /\ DecodeGroup => WithinMask(newCfg'.word) /\ LastGroupRuns(newCfg')
         /\ \A w \in Word : WithinMask(w) /\ DecodeStart(w) =>
                WithinMask(newCfg'.word) /\ LastGroupRuns(newCfg')
<1>1. ASSUME DecodeGroup
      PROVE  WithinMask(newCfg'.word) /\ LastGroupRuns(newCfg')
  <2>1. newCfg \in CfgRegs /\ decGroup \in Groups /\ newCfg' = Evaluated
    BY <1>1 DEF DecTypeOK, DecodeGroup
  <2>2. newCfg'.word = newCfg.word
    BY <2>1 DEF Evaluated, CfgRegs
  <2>3. CASE Disabled(newCfg.word, decGroup)
    BY <2>1, <2>2, <2>3 DEF Evaluated, CfgRegs, LastGroupRuns
  <2>4. CASE ~Disabled(newCfg.word, decGroup)
    <3> DEFINE ctx == ContextOf(newCfg.word, decGroup)
    <3>1. newCfg.word[decGroup] \in 0..7
      BY <2>1, <2>4, Sizes DEF Disabled, CfgRegs, Word
    <3>2. newCfg.word[decGroup] % 8 < NumContexts
      BY <2>1, Sizes DEF WithinMask
    <3>3. newCfg.word[decGroup] \in 0..(NumContexts - 1)
      BY <3>1, <3>2, Sizes, Remainders
    <3>4. ctx = newCfg.word[decGroup] /\ ctx \in Contexts
      BY <3>3, Remainders DEF ContextOf, Contexts
    <3> HIDE DEF ctx
    <3>5. /\ newCfg'.enable = newCfg.enable \cup {ctx}
          /\ newCfg'.last = [newCfg.last EXCEPT ![ctx] = decGroup]
      BY <2>1, <2>4 DEF Evaluated, CfgRegs, ctx
    <3>6. newCfg.last \in [Contexts -> Groups] /\ newCfg.enable \subseteq Contexts
      BY <2>1 DEF CfgRegs
    <3>7. LastGroupRuns(newCfg')
      BY <2>2, <3>4, <3>5, <3>6 DEF LastGroupRuns
    <3>8. QED
      BY <2>2, <3>7
  <2>5. QED
    BY <2>3, <2>4
<1>2. ASSUME NEW w \in Word, WithinMask(w), DecodeStart(w)
      PROVE  WithinMask(newCfg'.word) /\ LastGroupRuns(newCfg')
  <2>1. newCfg'.word = w /\ newCfg'.enable = {}
    BY <1>2 DEF DecodeStart, ClearedCfg, ResetCfg
  <2>2. QED
    BY <1>2, <2>1 DEF LastGroupRuns
<1>3. QED
  BY <1>1, <1>2

\* One cycle of halting: a context to be updated that shows neither an
\* instruction in flight nor a blocking memory cannot start either.
LEMMA HaltedStaysQuiet ==
  ASSUME TypeOK, LastGroupRuns(curCfg), AwaitIdle, ~decBusy
  PROVE  Settled'
<1>1. /\ newCfg' = newCfg /\ curCfg' = curCfg
      /\ busy /\ busy' = busy /\ decBusy' = decBusy
  BY DEF AwaitIdle, DecodeIdle, statusVars
<1>2. ContextsToUpdate' = ContextsToUpdate
  BY <1>1 DEF ContextsToUpdate
<1>3. RequestReconfig = ContextsToUpdate /\ RequestReconfig' = ContextsToUpdate
  BY <1>1, <1>2 DEF RequestReconfig
<1>4. Running = curCfg.enable \ ContextsToUpdate /\ Running' = Running
  BY <1>1, <1>3 DEF Running
<1> SUFFICES ASSUME NEW c \in ContextsToUpdate, c \notin blockCtxt'
             PROVE  /\ c \notin pipe'
                    /\ c \in curCfg.enable /\ curCfg.last[c] \notin blockMem'
                         => curCfg.last[c] \notin mem'
  BY <1>1, <1>2 DEF Settled
<1>5. Surroundings
  BY DEF AwaitIdle
<1>6. c \notin pipe \/ c \notin curCfg.enable
  BY <1>5 DEF Surroundings, BlockRegisters
<1>7. c \notin pipe'
  BY <1>1, <1>4, <1>5, <1>6 DEF Surroundings, Pipelines
<1>8. ASSUME c \in curCfg.enable, curCfg.last[c] \notin blockMem'
      PROVE  curCfg.last[c] \notin mem'
  <2>1. curCfg.last[c] \notin mem /\ c \notin pipe
    BY <1>5, <1>6, <1>8 DEF Surroundings, BlockRegisters
  <2>2. curCfg.word[curCfg.last[c]] = c
    BY <1>8 DEF LastGroupRuns
  <2>3. c \notin pipe \cup Running
    BY <1>4, <2>1
  <2>4. curCfg.last[c] \notin GroupsRunning(pipe \cup Running)
    BY <2>2, <2>3 DEF GroupsRunning
  <2>5. mem' \subseteq mem \cup GroupsRunning(pipe \cup Running)
    BY <1>5 DEF Surroundings, Memories
  <2>6. QED
    BY <2>1, <2>4, <2>5
<1>9. QED
  BY <1>7, <1>8

\* CommitInv is inductive relative to type correctness.
THEOREM CommitInvariant == Spec => []CommitInv
<1>1. Init => CommitInv
  <2> SUFFICES ASSUME Init PROVE CommitInv
    OBVIOUS
  <2>1. newCfg = ResetCfg /\ curCfg = ResetCfg /\ ~busy
    BY DEF Init, DecInit
  <2>2. WithinMask(ResetCfg.word)
    BY Sizes DEF WithinMask, ResetCfg, ZeroWord
  <2>3. LastGroupRuns(ResetCfg)
    BY Sizes DEF LastGroupRuns, ResetCfg, ZeroWord
  <2>4. QED
    BY <2>1, <2>2, <2>3 DEF CommitInv, Settled
<1>2. TypeOK /\ CommitInv /\ [Next]_vars => CommitInv'
  <2> SUFFICES ASSUME TypeOK, CommitInv, [Next]_vars PROVE CommitInv'
    OBVIOUS
  <2>a. /\ DecTypeOK /\ wcfg \in Word /\ pipe \subseteq Contexts
        /\ WithinMask(newCfg.word) /\ LastGroupRuns(newCfg) /\ LastGroupRuns(curCfg)
    BY DEF TypeOK, CommitInv
  <2> DEFINE Decoded == /\ WithinMask(newCfg.word)
                        /\ LastGroupRuns(newCfg)
                        /\ LastGroupRuns(curCfg)
  <2>b. Decoded' /\ Settled' => CommitInv'
    BY DEF CommitInv
  <2>c. UNCHANGED <<newCfg, curCfg>> => Decoded'
    BY <2>a DEF WithinMask, LastGroupRuns
  <2>d. busy' = FALSE \/ decBusy' = TRUE \/ blockDecode' = TRUE => Settled'
    BY DEF Settled
  <2>e. busy \in BOOLEAN /\ decBusy \in BOOLEAN
    BY DEF TypeOK, DecTypeOK
  <2> HIDE DEF Decoded
  <2>1. CASE NoRequest
    <3>1. UNCHANGED <<newCfg, curCfg>> /\ busy' = FALSE
      BY <2>1, <2>e DEF NoRequest, DecodeIdle, statusVars
    <3>2. QED
      BY <3>1, <2>b, <2>c, <2>d
  <2>2. CASE RejectRequest
    <3>1. UNCHANGED <<newCfg, curCfg>> /\ busy' = FALSE
      BY <2>2, <2>e DEF RejectRequest, ReconfigRequest, DecodeIdle
    <3>2. QED
      BY <3>1, <2>b, <2>c, <2>d
  <2>3. CASE RepeatRequest
    <3>1. UNCHANGED <<newCfg, curCfg>> /\ busy' = FALSE
      BY <2>3, <2>e DEF RepeatRequest, ReconfigRequest, DecodeIdle
    <3>2. QED
      BY <3>1, <2>b, <2>c, <2>d
  <2>4. CASE AcceptRequest
    <3>1. PICK r \in RequestPulses : /\ ReconfigRequest(r)
                                     /\ WithinMask(NewConfiguration(r))
                                     /\ UNCHANGED curCfg
                                     /\ DecodeStart(NewConfiguration(r))
      BY <2>4 DEF AcceptRequest
    <3>2. NewConfiguration(r) \in Word
      BY <2>a, <3>1, WinnerType
    <3>3. WithinMask(newCfg'.word) /\ LastGroupRuns(newCfg')
      BY <2>a, <3>1, <3>2, DecoderLast
    <3>4. LastGroupRuns(curCfg')
      BY <2>a, <3>1 DEF LastGroupRuns
    <3>5. decBusy' = TRUE
      BY <3>1 DEF DecodeStart
    <3>6. Decoded'
      BY <3>3, <3>4 DEF Decoded, WithinMask, LastGroupRuns
    <3>7. QED
      BY <3>5, <3>6, <2>b, <2>d
  <2>5. CASE Decode
    <3>1. DecodeGroup /\ UNCHANGED curCfg /\ blockDecode' = TRUE
      BY <2>5, <2>e DEF Decode, DecodeGroup, Surroundings, BlockRegisters
    <3>2. WithinMask(newCfg'.word) /\ LastGroupRuns(newCfg')
      BY <2>a, <3>1, DecoderLast
    <3>3. Decoded'
      BY <2>a, <3>1, <3>2 DEF Decoded, WithinMask, LastGroupRuns
    <3>4. QED
      BY <3>1, <3>3, <2>b, <2>d
  <2>6. CASE FailDecode
    <3>1. UNCHANGED <<newCfg, curCfg>> /\ busy' = FALSE
      BY <2>6 DEF FailDecode, DecodeAbort
    <3>2. QED
      BY <3>1, <2>b, <2>c, <2>d
  <2>7. CASE AwaitIdle
    <3>1. UNCHANGED <<newCfg, curCfg>> /\ ~decBusy
      BY <2>7 DEF AwaitIdle, DecodeIdle
    <3>2. Settled'
      BY <2>a, <2>7, <3>1, HaltedStaysQuiet
    <3>3. QED
      BY <3>1, <3>2, <2>b, <2>c
  <2>8. CASE Commit
    <3>1. newCfg' = newCfg /\ curCfg' = newCfg /\ busy' = FALSE
      BY <2>8 DEF Commit, DecodeIdle
    <3>2. Decoded'
      BY <2>a, <3>1 DEF Decoded, WithinMask, LastGroupRuns
    <3>3. QED
      BY <3>1, <3>2, <2>b, <2>d
  <2>9. CASE UNCHANGED vars
    <3>1. UNCHANGED <<newCfg, curCfg, busy, decBusy, blockDecode, blockCtxt, blockMem, pipe, mem>>
      BY <2>9 DEF vars, decVars, statusVars, blockVars, envVars
    <3>2. Settled'
      BY <3>1 DEF CommitInv, Settled, ContextsToUpdate
    <3>3. QED
      BY <3>1, <3>2, <2>b, <2>c
  <2>10. QED
    BY <2>1, <2>2, <2>3, <2>4, <2>5, <2>6, <2>7, <2>8, <2>9 DEF Next
<1>3. QED
  BY <1>1, <1>2, TypeCorrect, PTL DEF Spec

\* On a core with at least as many contexts as lane groups, a configuration
\* is only committed while every context it touches is drained and none of
\* their memories blocks reconfiguration.
THEOREM CommitIsQuiet ==
  ASSUME NumContextsLog2 >= NumLaneGroupsLog2
  PROVE  Spec => []CommitQuiet
<1>1. TypeOK /\ CommitInv => CommitQuiet
  <2> SUFFICES ASSUME TypeOK, CommitInv, CommitSignal, NEW c \in ContextsToUpdate
               PROVE  /\ c \notin pipe
                      /\ c \in curCfg.enable => curCfg.last[c] \notin mem
    BY DEF CommitQuiet
  <2>1. busy /\ ~decBusy /\ ~blockDecode /\ ~CommitBlocked(c)
    BY DEF CommitSignal
  <2>2. NumLaneGroups <= NumContexts
    BY GenericsAssumption DEF NumLaneGroups, NumContexts, Pow2
  <2>3. c \in curCfg.enable => MemBlockIndex(c) = curCfg.last[c]
    <3>1. c \in curCfg.enable => curCfg.last[c] \in Groups
      BY DEF TypeOK, CfgRegs
    <3>2. Groups \subseteq 0..(NumContexts - 1)
      BY <2>2, Sizes DEF Groups
    <3>3. QED
      BY <3>1, <3>2, Remainders DEF MemBlockIndex
  <2>4. QED
    BY <2>1, <2>3 DEF CommitInv, Settled, CommitBlocked
<1>2. QED
  BY <1>1, TypeCorrect, CommitInvariant, PTL

-----------------------------------------------------------------------------
(* The current configuration is legal and decoded *)

\* What the decoder hands to the controller, and what the controller keeps.
DecodedInv ==
  /\ WalkInv
  /\ busy /\ ~decBusy => LegalWord(newCfg.word) /\ newCfg = DecodedWord(newCfg.word)
  /\ CurrentConfigSound

\* The configuration after reset is the decoding of the word zero.
LEMMA ResetIsSound == LegalWord(ResetCfg.word) /\ ResetCfg = DecodedWord(ResetCfg.word)
<1> DEFINE w == ZeroWord
<1>1. ResetCfg.word = w /\ w \in Word
  BY DEF ResetCfg, ZeroWord, Word
<1>2. \A c \in Contexts : GroupsOf(w, c) = IF c = 0 THEN Groups ELSE {}
  BY Sizes DEF GroupsOf, ZeroWord
<1>3. Groups \in Blocks
  <2>1. Groups = {0} \/ Groups = {0, 1} \/ Groups = {0, 1, 2, 3} \/ Groups = {0, 1, 2, 3, 4, 5, 6, 7}
    BY Sizes DEF Groups
  <2>2. QED
    BY <2>1, Zenon DEF Blocks
<1>4. LastGroup \in Groups /\ \A h \in Groups : h <= LastGroup
  BY Sizes DEF Groups, LastGroup
<1>5. BlockLast(Groups) = LastGroup /\ BlockSizeLog2(Groups) = NumGroupsLog2(Groups)
  BY <1>3, <1>4, BlockRegisterValues
<1>6. NumGroupsLog2(Groups) = NumLaneGroupsLog2
  <2> DEFINE n == NumGroupsLog2(Groups)
  <2>1. n \in 0..NumLaneGroupsLog2 /\ Groups = (LastGroup + 1 - Pow2(n))..LastGroup
    BY <1>3, <1>4, BlockSpan
  <2>2. n \in {0, 1, 2, 3} /\ Pow2(n) \in {1, 2, 4, 8}
    BY <2>1, GenericsAssumption, Powers
  <2> HIDE DEF n
  <2>3. LastGroup + 1 - Pow2(n) = 0
    BY <1>4, <2>1, <2>2, Sizes DEF Groups, LastGroup
  <2>4. Pow2(n) = Pow2(NumLaneGroupsLog2)
    BY <2>2, <2>3, Sizes DEF LastGroup, NumLaneGroups
  <2>5. n = NumLaneGroupsLog2
    BY <2>2, <2>4, GenericsAssumption, Powers
  <2>6. QED
    BY <2>5 DEF n
<1>7. AlignedBlock(Groups)
  BY <1>3, <1>4, TreeMeaning
<1>8. LegalWord(w)
  BY <1>2, <1>7 DEF LegalWord
<1>9. /\ DecodedWord(w).word = w /\ DecodedWord(w).enable = {0}
      /\ DecodedWord(w).last = [c \in Contexts |-> LastGroup]
      /\ DecodedWord(w).num = [c \in Contexts |-> NumLaneGroupsLog2]
  BY <1>2, <1>4, <1>5, <1>6, Sizes DEF DecodedWord
<1>10. DecodedWord(w).couple = Groups \X Groups
  <2>1. \A i \in Groups : w[i] = 0
    BY Sizes DEF ZeroWord
  <2>2. \A p \in Groups \X Groups : w[p[1]] = w[p[2]] /\ w[p[1]] < 8
    BY <2>1
  <2>3. QED
    BY <2>2 DEF DecodedWord
<1>11. QED
  BY <1>1, <1>8, <1>9, <1>10 DEF DecodedWord, ResetCfg

\* The parts of DecodedInv survive a step that leaves both registers alone.
LEMMA DecodedInvKept ==
  ASSUME DecodedInv, UNCHANGED <<newCfg, curCfg>>, ~decBusy', busy' => busy /\ ~decBusy
  PROVE  DecodedInv'
<1>1. WalkInv'
  BY DEF WalkInv
<1>2. busy' /\ ~decBusy' => LegalWord(newCfg'.word) /\ newCfg' = DecodedWord(newCfg'.word)
  BY DEF DecodedInv
<1>3. LegalWord(curCfg'.word) /\ curCfg' = DecodedWord(curCfg'.word)
  BY DEF DecodedInv, CurrentConfigSound
<1>4. QED
  BY <1>1, <1>2, <1>3 DEF DecodedInv, CurrentConfigSound

\* The decoder's walk stays on its way, what it hands over is the decoding of a
\* legal word, and so is what the configuration registers hold from reset on
\* (core_cfgCtrl.vhd, core_cfgCtrl_decode.vhd).
THEOREM DecodedInvariant == Spec => []DecodedInv
<1>1. Init => DecodedInv
  BY ResetIsSound DEF Init, DecInit, DecodedInv, WalkInv, CurrentConfigSound
<1>2. TypeOK /\ DecodedInv /\ [Next]_vars => DecodedInv'
  <2> SUFFICES ASSUME TypeOK, DecodedInv, [Next]_vars
               PROVE  DecodedInv'
    OBVIOUS
  <2>a. DecTypeOK /\ WalkInv /\ busy \in BOOLEAN /\ decBusy \in BOOLEAN
          /\ wcfg \in Word /\ pipe \subseteq Contexts
    BY DEF TypeOK, DecTypeOK, DecodedInv
  <2>1. CASE NoRequest
    BY <2>1, <2>a, DecodedInvKept DEF NoRequest, DecodeIdle, statusVars
  <2>2. CASE RejectRequest
    BY <2>2, <2>a, DecodedInvKept DEF RejectRequest, ReconfigRequest, DecodeIdle
  <2>3. CASE RepeatRequest
    BY <2>3, <2>a, DecodedInvKept DEF RepeatRequest, ReconfigRequest, DecodeIdle
  <2>4. CASE AcceptRequest
    <3>1. PICK r \in RequestPulses : /\ ReconfigRequest(r)
                                     /\ WithinMask(NewConfiguration(r))
                                     /\ UNCHANGED curCfg
                                     /\ DecodeStart(NewConfiguration(r))
      BY <2>4 DEF AcceptRequest
    <3>2. NewConfiguration(r) \in Word
      BY <2>a, <3>1, WinnerType
    <3>3. WalkInv' /\ decBusy' = TRUE
      BY <3>1, <3>2, WalkStart DEF DecodeStart
    <3>4. LegalWord(curCfg'.word) /\ curCfg' = DecodedWord(curCfg'.word)
      BY <3>1 DEF DecodedInv, CurrentConfigSound
    <3>5. QED
      BY <3>3, <3>4 DEF DecodedInv, CurrentConfigSound
  <2>5. CASE Decode
    <3>1. DecodeGroup /\ UNCHANGED curCfg
      BY <2>5 DEF Decode
    <3>2. WalkInv' /\ (~decBusy' => LegalWord(newCfg.word) /\ newCfg' = DecodedWord(newCfg.word))
      BY <2>a, <3>1, WalkStep
    <3>3. ~decBusy' => newCfg'.word = newCfg.word
      BY <3>2 DEF DecodedWord
    <3>4. ~decBusy' => LegalWord(newCfg'.word) /\ newCfg' = DecodedWord(newCfg'.word)
      BY <3>2, <3>3
    <3>5. LegalWord(curCfg'.word) /\ curCfg' = DecodedWord(curCfg'.word)
      BY <3>1 DEF DecodedInv, CurrentConfigSound
    <3>6. QED
      BY <3>2, <3>4, <3>5 DEF DecodedInv, CurrentConfigSound
  <2>6. CASE FailDecode
    BY <2>6, DecodedInvKept DEF FailDecode, DecodeAbort
  <2>7. CASE AwaitIdle
    BY <2>7, <2>a, DecodedInvKept DEF AwaitIdle, DecodeIdle, statusVars
  <2>8. CASE Commit
    <3>1. /\ newCfg' = newCfg /\ curCfg' = newCfg /\ busy' = FALSE /\ decBusy' = decBusy
          /\ busy /\ ~decBusy
      BY <2>8 DEF Commit, CommitSignal, DecodeIdle
    <3>2. LegalWord(curCfg'.word) /\ curCfg' = DecodedWord(curCfg'.word)
      BY <3>1 DEF DecodedInv
    <3>3. WalkInv'
      BY <3>1 DEF WalkInv
    <3>4. QED
      BY <3>1, <3>2, <3>3 DEF DecodedInv, CurrentConfigSound
  <2>9. CASE UNCHANGED vars
    <3>1. UNCHANGED <<newCfg, decBusy, decGroup, curCfg, busy>>
      BY <2>9 DEF vars, decVars, statusVars
    <3>2. CASE ~decBusy
      BY <3>1, <3>2, DecodedInvKept
    <3>3. CASE decBusy
      <4>1. Walked' = Walked
        BY <3>1 DEF Walked
      <4>2. /\ WithinMask(newCfg'.word)
            /\ WholeBlocks(newCfg'.word, Walked')
            /\ newCfg' = WalkRegs(newCfg'.word, Walked')
        BY <2>a, <3>1, <3>3, <4>1 DEF WalkInv
      <4>3. LegalWord(curCfg'.word) /\ curCfg' = DecodedWord(curCfg'.word)
        BY <3>1 DEF DecodedInv, CurrentConfigSound
      <4>4. QED
        BY <3>1, <3>3, <4>2, <4>3 DEF DecodedInv, WalkInv, CurrentConfigSound
    <3>4. QED
      BY <3>2, <3>3
  <2>10. QED
    BY <2>1, <2>2, <2>3, <2>4, <2>5, <2>6, <2>7, <2>8, <2>9 DEF Next
<1>3. QED
  BY <1>1, <1>2, TypeCorrect, PTL DEF Spec

\* The core never runs an illegal configuration and its decoded registers agree
\* with the word, for every number of lane groups and contexts and every
\* sequence of requests.
THEOREM ConfigIsSound == Spec => []CurrentConfigSound
<1>1. DecodedInv => CurrentConfigSound
  BY DEF DecodedInv
<1>2. QED
  BY <1>1, DecodedInvariant, PTL

-----------------------------------------------------------------------------
(* Which contexts are halted *)

\* Two blocks are the same if their last groups and their sizes are.
LEMMA SameBlock ==
  ASSUME NEW S \in SUBSET Groups, NEW T \in SUBSET Groups, S # {}, T # {},
         AlignedBlock(S), AlignedBlock(T),
         BlockLast(S) = BlockLast(T), BlockSizeLog2(S) = BlockSizeLog2(T)
  PROVE  S = T
<1>1. S \in Blocks /\ T \in Blocks
  BY AlignedIsBlock
<1>2. PICK g \in S : \A h \in S : h <= g
  BY <1>1, BlockHasLast
<1>3. PICK k \in T : \A h \in T : h <= k
  BY <1>1, BlockHasLast
<1>4. BlockLast(S) = g /\ BlockSizeLog2(S) = NumGroupsLog2(S)
  BY <1>1, <1>2, BlockRegisterValues
<1>5. BlockLast(T) = k /\ BlockSizeLog2(T) = NumGroupsLog2(T)
  BY <1>1, <1>3, BlockRegisterValues
<1>6. S = (g + 1 - Pow2(NumGroupsLog2(S)))..g
  BY <1>1, <1>2, BlockSpan
<1>7. T = (k + 1 - Pow2(NumGroupsLog2(T)))..k
  BY <1>1, <1>3, BlockSpan
<1>8. QED
  BY <1>4, <1>5, <1>6, <1>7

\* The registers of two legal words differ for exactly the contexts whose
\* groups differ.
LEMMA UpdateMeaning ==
  ASSUME NEW v \in Word, NEW w \in Word, LegalWord(v), LegalWord(w),
         curCfg = DecodedWord(v), newCfg = DecodedWord(w)
  PROVE  ContextsToUpdate = {c \in Contexts : GroupsOf(v, c) # GroupsOf(w, c)}
<1>1. curCfg.enable \subseteq Contexts /\ newCfg.enable \subseteq Contexts
  BY DEF DecodedWord
<1>2. ASSUME NEW c \in Contexts
      PROVE  c \in ContextsToUpdate <=> GroupsOf(v, c) # GroupsOf(w, c)
  <2> DEFINE S == GroupsOf(v, c)
             T == GroupsOf(w, c)
  <2>1. (c \in curCfg.enable <=> S # {}) /\ (c \in newCfg.enable <=> T # {})
    BY DEF DecodedWord
  <2>2. S # {} => curCfg.last[c] = BlockLast(S) /\ curCfg.num[c] = BlockSizeLog2(S)
    BY DEF DecodedWord
  <2>3. T # {} => newCfg.last[c] = BlockLast(T) /\ newCfg.num[c] = BlockSizeLog2(T)
    BY DEF DecodedWord
  <2>4. S \in SUBSET Groups /\ T \in SUBSET Groups
    BY DEF GroupsOf
  <2>5. (S # {} => AlignedBlock(S)) /\ (T # {} => AlignedBlock(T))
    BY DEF LegalWord
  <2>6. c \in ContextsToUpdate <=>
          /\ c \in newCfg.enable \/ c \in curCfg.enable
          /\ \/ ~(c \in newCfg.enable <=> c \in curCfg.enable)
             \/ newCfg.last[c] # curCfg.last[c]
             \/ newCfg.num[c] # curCfg.num[c]
    BY DEF ContextsToUpdate
  <2> HIDE DEF S, T
  <2>7. CASE S = {} \/ T = {}
    BY <2>1, <2>6, <2>7 DEF S, T
  <2>8. CASE S # {} /\ T # {}
    <3>1. c \in ContextsToUpdate <=> BlockLast(T) # BlockLast(S) \/ BlockSizeLog2(T) # BlockSizeLog2(S)
      BY <2>1, <2>2, <2>3, <2>6, <2>8
    <3>2. S = T <=> BlockLast(T) = BlockLast(S) /\ BlockSizeLog2(T) = BlockSizeLog2(S)
      BY <2>4, <2>5, <2>8, SameBlock
    <3>3. QED
      BY <3>1, <3>2 DEF S, T
  <2>9. QED
    BY <2>7, <2>8
<1>3. ContextsToUpdate \subseteq Contexts
  BY <1>1 DEF ContextsToUpdate
<1>4. QED
  BY <1>2, <1>3

\* A reconfiguration halts exactly the contexts whose lane groups change.
THEOREM HaltIsExact == Spec => []HaltsAffectedOnly
<1>1. TypeOK /\ DecodedInv => HaltsAffectedOnly
  <2> SUFFICES ASSUME TypeOK, DecodedInv, busy, ~decBusy
               PROVE  RequestReconfig =
                        {c \in Contexts : GroupsOf(curCfg.word, c) # GroupsOf(newCfg.word, c)}
    BY DEF HaltsAffectedOnly
  <2>1. curCfg.word \in Word /\ newCfg.word \in Word
    BY DEF TypeOK, DecTypeOK, CfgRegs
  <2>2. /\ LegalWord(curCfg.word) /\ curCfg = DecodedWord(curCfg.word)
        /\ LegalWord(newCfg.word) /\ newCfg = DecodedWord(newCfg.word)
    BY DEF DecodedInv, CurrentConfigSound
  <2>3. RequestReconfig = ContextsToUpdate
    BY DEF RequestReconfig
  <2>4. QED
    BY <2>1, <2>2, <2>3, UpdateMeaning
<1>2. QED
  BY <1>1, TypeCorrect, DecodedInvariant, PTL

-----------------------------------------------------------------------------
(* The contract with the memories *)

\* Coupled groups see the same blocking signal, and only memories of groups
\* that run a context block.
MemoryInv ==
  /\ \A i, j \in Groups : <<i, j>> \in curCfg.couple => (i \in mem <=> j \in mem)
  /\ \A g \in mem : curCfg.word[g] \in Contexts

\* In the cycle of the commit, a group whose memory blocks, or whose context may
\* still cause it to, keeps its context and all of its partners.
LEMMA BlockedKeepsContext ==
  ASSUME TypeOK, DecodedInv, MemoryInv, CommitQuiet, CommitSignal,
         NEW g \in mem \cup GroupsRunning(pipe \cup Running)
  PROVE  /\ curCfg.word[g] \in Contexts /\ g \in Groups
         /\ GroupsOf(curCfg.word, curCfg.word[g]) = GroupsOf(newCfg.word, curCfg.word[g])
<1> DEFINE c == curCfg.word[g]
<1>1. g \in Groups /\ mem \subseteq Groups /\ pipe \subseteq Contexts /\ curCfg \in CfgRegs
  BY DEF TypeOK, GroupsRunning
<1>2. c \in Contexts
  <2>1. Running \subseteq Contexts
    BY <1>1 DEF Running, CfgRegs
  <2>2. QED
    BY <1>1, <2>1 DEF MemoryInv, GroupsRunning
<1>3. /\ curCfg.word \in Word /\ newCfg.word \in Word
      /\ LegalWord(curCfg.word) /\ curCfg = DecodedWord(curCfg.word)
      /\ LegalWord(newCfg.word) /\ newCfg = DecodedWord(newCfg.word)
      /\ busy /\ ~decBusy
  BY DEF TypeOK, DecTypeOK, CfgRegs, DecodedInv, CurrentConfigSound, CommitSignal
<1>4. ContextsToUpdate =
        {d \in Contexts : GroupsOf(curCfg.word, d) # GroupsOf(newCfg.word, d)}
  BY <1>3, UpdateMeaning
<1>5. c \notin ContextsToUpdate
  <2> SUFFICES ASSUME c \in ContextsToUpdate
               PROVE  FALSE
    OBVIOUS
  <2>1. c \notin pipe /\ (c \in curCfg.enable => curCfg.last[c] \notin mem)
    BY DEF CommitQuiet
  <2>2. c \notin Running
    BY <1>3 DEF Running, RequestReconfig
  <2>3. g \in mem
    BY <2>1, <2>2 DEF GroupsRunning
  <2>4. g \in GroupsOf(curCfg.word, c)
    BY <1>1 DEF GroupsOf
  <2> DEFINE S == GroupsOf(curCfg.word, c)
  <2>5. S \in SUBSET Groups /\ S # {} /\ AlignedBlock(S)
    BY <1>2, <1>3, <2>4 DEF LegalWord, GroupsOf
  <2>6. S \in Blocks
    BY <2>5, AlignedIsBlock
  <2>7. PICK l \in S : \A h \in S : h <= l
    BY <2>6, BlockHasLast
  <2>8. BlockLast(S) = l
    BY <2>5, <2>6, <2>7, BlockRegisterValues
  <2>9. c \in curCfg.enable /\ curCfg.last[c] = l
    BY <1>2, <1>3, <2>5, <2>8 DEF DecodedWord
  <2>10. l \in Groups /\ curCfg.word[l] = c
    BY <2>5, <2>7 DEF GroupsOf
  <2>11. <<g, l>> \in curCfg.couple
    <3>1. c < 8
      <4>1. \A d \in Contexts : d < 8
        BY Sizes
      <4>2. QED
        BY <1>2, <4>1, Zenon
    <3>2. <<g, l>> \in DecodedWord(curCfg.word).couple
      BY <1>1, <2>10, <3>1 DEF DecodedWord
    <3>3. QED
      BY <1>3, <3>2
  <2>12. l \in mem
    BY <1>1, <2>3, <2>10, <2>11 DEF MemoryInv
  <2>13. QED
    BY <2>1, <2>9, <2>12
<1>6. QED
  BY <1>1, <1>2, <1>4, <1>5

\* A step keeps the memory signals of coupled groups equal.
LEMMA MemoryInvNext ==
  ASSUME TypeOK, DecodedInv, MemoryInv, CommitQuiet, Surroundings,
         UNCHANGED curCfg \/ Commit, curCfg' \in CfgRegs
  PROVE  MemoryInv'
<1>1. \A i, j \in Groups : <<i, j>> \in curCfg'.couple => (i \in mem' <=> j \in mem')
  <2> SUFFICES ASSUME NEW i \in Groups, NEW j \in Groups, <<i, j>> \in curCfg'.couple
               PROVE  i \in mem' <=> j \in mem'
    OBVIOUS
  <2>1. \A p \in curCfg'.couple : p[1] \in mem' <=> p[2] \in mem'
    BY DEF Surroundings, Memories
  <2>2. <<i, j>>[1] \in mem' <=> <<i, j>>[2] \in mem'
    BY <2>1
  <2>3. QED
    BY <2>2
<1>2. ASSUME NEW g \in mem'
      PROVE  curCfg'.word[g] \in Contexts
  <2>1. g \in mem \cup GroupsRunning(pipe \cup Running)
    BY DEF Surroundings, Memories
  <2>2. CASE UNCHANGED curCfg
    <3>1. Running \subseteq Contexts /\ pipe \subseteq Contexts
      BY DEF TypeOK, Running, CfgRegs
    <3>2. QED
      BY <2>1, <2>2, <3>1 DEF MemoryInv, GroupsRunning
  <2>3. CASE Commit
    <3>1. CommitSignal /\ curCfg' = newCfg
      BY <2>3 DEF Commit
    <3>2. /\ curCfg.word[g] \in Contexts /\ g \in Groups
          /\ GroupsOf(curCfg.word, curCfg.word[g]) = GroupsOf(newCfg.word, curCfg.word[g])
      BY <2>1, <3>1, BlockedKeepsContext
    <3>3. newCfg.word[g] = curCfg.word[g]
      BY <3>2 DEF GroupsOf
    <3>4. QED
      BY <3>1, <3>2, <3>3
  <2>4. QED
    BY <2>2, <2>3
<1>3. QED
  BY <1>1, <1>2 DEF MemoryInv

\* Every step keeps curCfg or is a commit, and has the surroundings move on.
LEMMA ConfigSteps ==
  ASSUME Next
  PROVE  Surroundings /\ (UNCHANGED curCfg \/ Commit)
  BY DEF Next, NoRequest, RejectRequest, RepeatRequest, AcceptRequest, Decode, FailDecode, AwaitIdle,
         Commit

\* The memories of coupled groups block together, as the contract asks.
LEMMA MemoryInvariant ==
  ASSUME NumContextsLog2 >= NumLaneGroupsLog2
  PROVE  Spec => []MemoryInv
<1>1. Init => MemoryInv
  BY DEF Init, MemoryInv
<1>2. TypeOK /\ TypeOK' /\ DecodedInv /\ CommitQuiet /\ MemoryInv /\ [Next]_vars => MemoryInv'
  <2> SUFFICES ASSUME TypeOK, TypeOK', DecodedInv, CommitQuiet, MemoryInv, [Next]_vars
               PROVE  MemoryInv'
    OBVIOUS
  <2>1. CASE Next
    <3>1. curCfg' \in CfgRegs
      BY DEF TypeOK
    <3>2. QED
      BY <2>1, <3>1, ConfigSteps, MemoryInvNext
  <2>2. CASE UNCHANGED vars
    BY <2>2 DEF vars, envVars, MemoryInv
  <2>3. QED
    BY <2>1, <2>2
<1>3. QED
  BY <1>1, <1>2, TypeCorrect, DecodedInvariant, CommitIsQuiet, PTL DEF Spec

\* On a core with at least as many contexts as lane groups, no two groups are
\* split or merged while the memory of either blocks reconfiguration, as
\* core.vhd promises.
THEOREM DecoupleIsKept ==
  ASSUME NumContextsLog2 >= NumLaneGroupsLog2
  PROVE  Spec => DecoupleContract
<1> DEFINE Kept == \A i, j \in Groups :
                     (<<i, j>> \in curCfg.couple) # (<<i, j>> \in curCfg'.couple)
                       => i \notin mem /\ j \notin mem
<1>1. TypeOK /\ DecodedInv /\ CommitQuiet /\ MemoryInv /\ [Next]_vars => [Kept]_vars
  <2> SUFFICES ASSUME TypeOK, DecodedInv, CommitQuiet, MemoryInv, Next,
                      NEW i \in Groups, NEW j \in Groups,
                      (<<i, j>> \in curCfg.couple) # (<<i, j>> \in curCfg'.couple)
               PROVE  i \notin mem /\ j \notin mem
    OBVIOUS
  <2>1. CommitSignal /\ curCfg' = newCfg
    BY ConfigSteps DEF Commit
  <2> DEFINE v == curCfg.word
             w == newCfg.word
  <2>2. curCfg = DecodedWord(v) /\ newCfg = DecodedWord(w)
    BY <2>1 DEF DecodedInv, CurrentConfigSound, CommitSignal
  <2>3. /\ <<i, j>> \in curCfg.couple <=> i = j \/ (v[i] = v[j] /\ v[i] < 8)
        /\ <<i, j>> \in newCfg.couple <=> i = j \/ (w[i] = w[j] /\ w[i] < 8)
    <3>1. \A x : <<i, j>> \in DecodedWord(x).couple <=> i = j \/ (x[i] = x[j] /\ x[i] < 8)
      BY DEF DecodedWord
    <3>2. QED
      BY <2>2, <3>1
  <2>4. \A x \in Contexts : x < 8
    BY Sizes
  <2>5. ASSUME NEW g \in {i, j}, g \in mem
        PROVE  FALSE
    <3>1. /\ v[g] \in Contexts /\ g \in Groups
          /\ GroupsOf(v, v[g]) = GroupsOf(w, v[g])
      BY <2>1, <2>5, BlockedKeepsContext
    <3>2. \A h \in Groups : v[h] = v[g] <=> w[h] = v[g]
      BY <3>1 DEF GroupsOf
    <3>3. v[g] < 8
      BY <2>4, <3>1, Zenon
    <3>4. (i = j \/ (v[i] = v[j] /\ v[i] < 8)) <=> (i = j \/ (w[i] = w[j] /\ w[i] < 8))
      <4> HIDE DEF v, w
      <4>1. QED
        BY <2>5, <3>1, <3>2, <3>3
    <3>5. QED
      BY <2>1, <2>3, <3>4
  <2>6. QED
    BY <2>5
<1>2. QED
  BY <1>1, TypeCorrect, DecodedInvariant, CommitIsQuiet, MemoryInvariant, PTL
     DEF Spec, DecoupleContract

-----------------------------------------------------------------------------
(* The controller implements the atomic one *)

\* The words that can reach a register.
KnownWords == RequestWords \cup WcfgWords \cup {ZeroWord}

KnownInv ==
  /\ curCfg.word \in KnownWords
  /\ newCfg.word \in KnownWords
  /\ wcfg \in KnownWords

\* The manual's rules are the same for both.
LEMMA SameRules ==
  /\ \A w : Abstract!WithinMask(w) <=> WithinMask(w)
  /\ \A w : Abstract!LegalWord(w) <=> LegalWord(w)
<1> USE DEF Abstract!Groups, Abstract!NumLaneGroups, Abstract!Pow2, Abstract!NumContexts,
            Abstract!Contexts, Groups, NumLaneGroups, Pow2, NumContexts, Contexts
<1>1. \A w : Abstract!WithinMask(w) <=> WithinMask(w)
  BY DEF Abstract!WithinMask, WithinMask
<1>2. \A w, c : Abstract!GroupsOf(w, c) = GroupsOf(w, c)
  BY DEF Abstract!GroupsOf, GroupsOf
<1>3. \A S : Abstract!AlignedBlock(S) <=> AlignedBlock(S)
  BY DEF Abstract!AlignedBlock, AlignedBlock
<1>4. \A w : Abstract!LegalWord(w) <=> LegalWord(w)
  BY <1>2, <1>3 DEF Abstract!LegalWord, LegalWord
<1>5. QED
  BY <1>1, <1>4

\* Requests only ask for known words.
LEMMA KnownRequest ==
  ASSUME KnownInv, pipe \subseteq Contexts, NEW r \in RequestPulses, ReconfigRequest(r)
  PROVE  NewConfiguration(r) \in KnownWords
<1>1. PICK S \in SUBSET (Contexts \cup {BusID}) : r \in [S -> RequestWords]
  BY EnvironmentAssumption DEF RequestPulses
<1>2. DOMAIN r = S
  BY <1>1
<1>3. CASE Winner(r) = WakeupID
  BY <1>3 DEF NewConfiguration, KnownInv
<1>4. CASE Winner(r) # WakeupID
  <2>1. ~WakeupActive
    BY <1>4 DEF Winner
  <2>2. S # {}
    BY <1>2, <2>1 DEF ReconfigRequest
  <2>3. Winner(r) \in S
    <3>1. CASE BusID \in S
      BY <1>2, <2>1, <3>1 DEF Winner
    <3>2. CASE BusID \notin S
      <4>1. \E c \in S : \A d \in S : c <= d
        BY <1>1, <2>2, <3>2, LowestContext
      <4>2. Winner(r) = CHOOSE c \in S : \A d \in S : c <= d
        BY <1>2, <2>1, <2>2, <3>2 DEF Winner
      <4>3. QED
        BY <4>1, <4>2
    <3>3. QED
      BY <3>1, <3>2
  <2>4. QED
    BY <1>1, <1>4, <2>3 DEF NewConfiguration, KnownWords
<1>5. QED
  BY <1>3, <1>4

\* No word reaches a register but the requested ones, those of the wake-up
\* register and the one after reset.
LEMMA KnownInvariant == Spec => []KnownInv
<1>1. Init => KnownInv
  BY DEF Init, DecInit, KnownInv, KnownWords, ResetCfg
<1>2. TypeOK /\ KnownInv /\ [Next]_vars => KnownInv'
  <2> SUFFICES ASSUME TypeOK, KnownInv, [Next]_vars
               PROVE  KnownInv'
    OBVIOUS
  <2>1. CASE Next
    <3>1. curCfg'.word \in KnownWords
      BY <2>1, ConfigSteps DEF Commit, KnownInv
    <3>2. wcfg' \in KnownWords
      BY <2>1, ConfigSteps DEF Surroundings, WakeupRegisters, KnownInv, KnownWords
    <3>3. newCfg'.word \in KnownWords
      <4>1. CASE UNCHANGED newCfg
        BY <4>1 DEF KnownInv
      <4>2. CASE AcceptRequest
        <5>1. PICK r \in RequestPulses : ReconfigRequest(r) /\ DecodeStart(NewConfiguration(r))
          BY <4>2 DEF AcceptRequest
        <5>2. newCfg'.word = NewConfiguration(r)
          BY <5>1 DEF DecodeStart, ClearedCfg, ResetCfg
        <5>3. QED
          BY <5>1, <5>2, KnownRequest DEF TypeOK
      <4>3. CASE Decode
        <5>1. newCfg' = Evaluated /\ newCfg \in CfgRegs
          BY <4>3 DEF Decode, DecodeGroup, TypeOK, DecTypeOK
        <5>2. newCfg'.word = newCfg.word
          BY <5>1 DEF Evaluated, CfgRegs
        <5>3. QED
          BY <5>2 DEF KnownInv
      <4>4. QED
        BY <2>1, <4>1, <4>2, <4>3 DEF Next, NoRequest, RejectRequest, RepeatRequest, FailDecode,
                                      AwaitIdle, Commit, DecodeIdle, DecodeAbort
    <3>4. QED
      BY <3>1, <3>2, <3>3 DEF KnownInv
  <2>2. CASE UNCHANGED vars
    BY <2>2 DEF vars, decVars, envVars, KnownInv
  <2>3. QED
    BY <2>1, <2>2
<1>3. QED
  BY <1>1, <1>2, TypeCorrect, PTL DEF Spec

\* Every step of the controller is a step of the atomic one or invisible to
\* software.
LEMMA AtomicStep ==
  ASSUME TypeOK, DecodedInv, KnownInv, Next
  PROVE  [Abstract!ANext]_Abstract!avars
<1> USE DEF Abstract!avars
<1>a. DecTypeOK /\ WalkInv /\ busy \in BOOLEAN /\ wcfg \in Word /\ pipe \subseteq Contexts
        /\ newCfg \in CfgRegs
  BY DEF TypeOK, DecTypeOK, DecodedInv
<1>1. CASE NoRequest
  BY <1>1 DEF NoRequest, statusVars, DecodeIdle
<1>2. CASE RejectRequest
  <2>1. PICK r \in RequestPulses : /\ ReconfigRequest(r)
                                   /\ requesterID' = Winner(r)
                                   /\ error' = TRUE
                                   /\ UNCHANGED <<curCfg, busy>>
                                   /\ DecodeIdle
    BY <1>2 DEF RejectRequest
  <2>2. Winner(r) \in RequesterIDs /\ busy = FALSE
    BY <1>a, <2>1, WinnerType DEF ReconfigRequest
  <2>3. Abstract!ARefuse
    BY <2>1, <2>2 DEF Abstract!ARefuse
  <2>4. QED
    BY <2>3 DEF Abstract!ANext
<1>3. CASE RepeatRequest
  <2>1. PICK r \in RequestPulses : /\ ReconfigRequest(r)
                                   /\ requesterID' = Winner(r)
                                   /\ UNCHANGED <<curCfg, busy, error>>
                                   /\ DecodeIdle
    BY <1>3 DEF RepeatRequest
  <2>2. Winner(r) \in RequesterIDs /\ busy = FALSE
    BY <1>a, <2>1, WinnerType DEF ReconfigRequest
  <2>3. Abstract!ARepeat
    BY <2>1, <2>2 DEF Abstract!ARepeat
  <2>4. QED
    BY <2>3 DEF Abstract!ANext
<1>4. CASE AcceptRequest
  <2>1. PICK r \in RequestPulses : /\ ReconfigRequest(r)
                                   /\ WithinMask(NewConfiguration(r))
                                   /\ NewConfiguration(r) # curCfg.word
                                   /\ requesterID' = Winner(r)
                                   /\ busy' = TRUE
                                   /\ error' = FALSE
                                   /\ UNCHANGED curCfg
                                   /\ DecodeStart(NewConfiguration(r))
    BY <1>4 DEF AcceptRequest
  <2>2. Winner(r) \in RequesterIDs /\ busy = FALSE
    BY <1>a, <2>1, WinnerType DEF ReconfigRequest
  <2>3. NewConfiguration(r) \in KnownWords
    BY <1>a, <2>1, KnownRequest
  <2>4. newCfg'.word = NewConfiguration(r)
    BY <2>1 DEF DecodeStart, ClearedCfg, ResetCfg
  <2>5. Abstract!WithinMask(NewConfiguration(r))
    BY <2>1, SameRules
  <2>6. Abstract!ARequest
    BY <2>1, <2>2, <2>3, <2>4, <2>5 DEF Abstract!ARequest, KnownWords
  <2>7. QED
    BY <2>6 DEF Abstract!ANext
<1>5. CASE Decode
  <2>1. newCfg' = Evaluated /\ UNCHANGED <<curCfg, busy, error, requesterID>>
    BY <1>5 DEF Decode, DecodeGroup, statusVars
  <2>2. newCfg'.word = newCfg.word
    BY <1>a, <2>1 DEF Evaluated, CfgRegs
  <2>3. QED
    BY <2>1, <2>2
<1>6. CASE FailDecode
  <2>1. /\ busy /\ busy' = FALSE /\ error' = TRUE /\ UNCHANGED <<curCfg, requesterID>>
        /\ DecoderError /\ newCfg' = newCfg
    BY <1>6 DEF FailDecode, DecodeAbort
  <2>2. ~Abstract!LegalWord(newCfg.word)
    BY <1>a, <2>1, AbortMeaning, SameRules
  <2>3. Abstract!AFail
    BY <2>1, <2>2 DEF Abstract!AFail
  <2>4. QED
    BY <2>3 DEF Abstract!ANext
<1>7. CASE AwaitIdle
  BY <1>7 DEF AwaitIdle, statusVars, DecodeIdle
<1>8. CASE Commit
  <2>1. /\ busy /\ ~decBusy /\ busy' = FALSE /\ error' = FALSE /\ curCfg' = newCfg
        /\ UNCHANGED requesterID /\ newCfg' = newCfg
    BY <1>8 DEF Commit, CommitSignal, DecodeIdle
  <2>2. Abstract!LegalWord(newCfg.word)
    BY <2>1, SameRules DEF DecodedInv
  <2>3. Abstract!AApply
    BY <2>1, <2>2 DEF Abstract!AApply
  <2>4. QED
    BY <2>3 DEF Abstract!ANext
<1>9. QED
  BY <1>1, <1>2, <1>3, <1>4, <1>5, <1>6, <1>7, <1>8 DEF Next

\* The safety part of AtomicToSoftware: seen through the registers software can
\* read, the controller takes only the steps of AtomicReconf, in every core and
\* for every set of requests.
THEOREM ImplementsAtomic ==
  Spec => Abstract!AInit /\ [][Abstract!ANext]_Abstract!avars
<1>1. Init => Abstract!AInit
  <2>1. Abstract!ZeroWord = ZeroWord
    BY DEF Abstract!ZeroWord, ZeroWord
  <2>2. QED
    BY <2>1 DEF Init, DecInit, Abstract!AInit, ResetCfg, RequesterIDs
<1>2. TypeOK /\ DecodedInv /\ KnownInv /\ [Next]_vars => [Abstract!ANext]_Abstract!avars
  <2>1. CASE UNCHANGED vars
    BY <2>1 DEF vars, decVars, statusVars, Abstract!avars
  <2>2. QED
    BY <2>1, AtomicStep
<1>3. QED
  BY <1>1, <1>2, TypeCorrect, DecodedInvariant, KnownInvariant, PTL DEF Spec
=============================================================================
