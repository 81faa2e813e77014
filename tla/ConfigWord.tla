----------------------------- MODULE ConfigWord -----------------------------
(***************************************************************************)
(* Configuration words of the rho-VEX core and the combinatorial logic     *)
(* that core_cfgCtrl_decode.vhd applies to them.                           *)
(*                                                                         *)
(* A word has one nibble per lane group.  Bit 3 of a nibble disables the   *)
(* group; otherwise its low bits name the context the group runs.          *)
(***************************************************************************)
EXTENDS Naturals

CONSTANTS
  NumLaneGroupsLog2,   \* CFG.numLaneGroupsLog2
  NumContextsLog2      \* CFG.numContextsLog2

\* core_pkg.vhd: neither may be greater than 3, the configuration register
\* has room for eight nibbles of three context bits.
ASSUME GenericsAssumption ==
  /\ NumLaneGroupsLog2 \in 0..3
  /\ NumContextsLog2 \in 0..3

Pow2(k) == CASE k = 0 -> 1 [] k = 1 -> 2 [] k = 2 -> 4 [] k = 3 -> 8

NumLaneGroups == Pow2(NumLaneGroupsLog2)
NumContexts   == Pow2(NumContextsLog2)
Groups        == 0..(NumLaneGroups - 1)
Contexts      == 0..(NumContexts - 1)
LastGroup     == NumLaneGroups - 1

Word == [0..7 -> 0..15]

\* The reset configuration: context 0 on every group.
ZeroWord == [i \in 0..7 |-> 0]

\* No bit outside CONFIGURATION_MASK is set: nibbles of absent groups are
\* zero, nibbles of present groups use the run bit and the context bits only.
WithinMask(w) ==
  \A i \in 0..7 : IF i \in Groups THEN w[i] % 8 < NumContexts ELSE w[i] = 0

Disabled(w, g)  == w[g] >= 8
ContextOf(w, g) == w[g] % NumContexts

-----------------------------------------------------------------------------
(* The decoder's view of a word *)

\* Disabled groups get an identifier no context and no other group has.
GroupID(w, g) == IF Disabled(w, g) THEN 8 + g ELSE ContextOf(w, g)

GroupIDMatch(w, g) == {i \in Groups : GroupID(w, i) = GroupID(w, g)}

\* Leaves under node i of level lvl in the binary tree over the groups.
Node(lvl, i) == {g \in Groups : i * Pow2(lvl) <= g /\ g < (i + 1) * Pow2(lvl)}

AnyMatch(S, node) == S \cap node # {}
AllMatch(S, node) == node \subseteq S

\* A non-empty, non-full half is merged with a non-empty half somewhere.
TreeError(S) ==
  \E lvl \in 0..(NumLaneGroupsLog2 - 1) :
    \E i \in 0..(Pow2(NumLaneGroupsLog2 - 1 - lvl) - 1) :
      LET in1 == Node(lvl, 2 * i)
          in2 == Node(lvl, 2 * i + 1)
      IN /\ AnyMatch(S, in1)
         /\ AnyMatch(S, in2)
         /\ ~(AllMatch(S, in1) /\ AllMatch(S, in2))

\* The levels of the tree that hold a full node.
FullLevels(S) ==
  {lvl \in 1..NumLaneGroupsLog2 :
     \E i \in 0..(Pow2(NumLaneGroupsLog2 - lvl) - 1) : AllMatch(S, Node(lvl, i))}

\* The priority encoder: the last full level, 0 when there is none.
NumGroupsLog2(S) ==
  CASE 3 \in FullLevels(S) -> 3
    [] 3 \notin FullLevels(S) /\ 2 \in FullLevels(S) -> 2
    [] 3 \notin FullLevels(S) /\ 2 \notin FullLevels(S) /\ 1 \in FullLevels(S) -> 1
    [] OTHER -> 0

-----------------------------------------------------------------------------
(* What a word means, from the rules of the user manual, independently of  *)
(* the decoder.                                                            *)

GroupsOf(w, c) == {g \in Groups : w[g] = c}

\* a .. a + 2^k - 1 with a divisible by 2^k.
AlignedBlock(S) ==
  \E k \in 0..NumLaneGroupsLog2 : \E a \in Groups :
    /\ a % Pow2(k) = 0
    /\ S = a..(a + Pow2(k) - 1)

LegalWord(w) ==
  \A c \in Contexts : GroupsOf(w, c) = {} \/ AlignedBlock(GroupsOf(w, c))

BlockLast(S) == CHOOSE g \in S : \A h \in S : h <= g
BlockSizeLog2(S) ==
  CHOOSE k \in 0..NumLaneGroupsLog2 : \E a \in Groups : S = a..(a + Pow2(k) - 1)

\* The registers a legal word should decode to.
DecodedWord(w) ==
  [word   |-> w,
   enable |-> {c \in Contexts : GroupsOf(w, c) # {}},
   last   |-> [c \in Contexts |->
                 IF GroupsOf(w, c) = {} THEN LastGroup ELSE BlockLast(GroupsOf(w, c))],
   num    |-> [c \in Contexts |->
                 IF GroupsOf(w, c) = {} THEN NumLaneGroupsLog2
                 ELSE BlockSizeLog2(GroupsOf(w, c))],
   couple |-> {p \in Groups \X Groups :
                 p[1] = p[2] \/ (w[p[1]] = w[p[2]] /\ w[p[1]] < 8)}]
=============================================================================
