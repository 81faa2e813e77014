---------------------------- MODULE MCDataCache -----------------------------
(* Instances of the data cache for model checking: two and four lane        *)
(* groups.                                                                  *)
EXTENDS DataCache

Pair(a, b) == [i \in 0..1 |-> IF i = 0 THEN a ELSE b]

\* What contexts 0 and 1 do; a third one only takes lane groups away.
Both(a, b) == [c \in Contexts |-> CASE c = 0 -> a [] c = 1 -> b [] OTHER -> <<>>]
R(a) == [op |-> "read", addr |-> a, v |-> 0]
W(a, v) == [op |-> "write", addr |-> a, v |-> v]
H(a, v) == [op |-> "part", addr |-> a, v |-> v]

\* Context 0 on both groups, and a context on each; context 0 goes on while the
\* other group changes between contexts 1 and 2.
MCPlacements == {Pair(0, 0), Pair(0, 1), Pair(1, 0), Pair(0, 2)}

\* Address 2 bypasses the cache, nothing answers at address 3.
MCPrograms ==
  { Both(<<R(0), W(0, 1), W(1, 2), R(0)>>, <<W(0, 3)>>),
    Both(<<W(0, 1), R(0)>>,                <<R(0), H(0, 3), R(0)>>),
    Both(<<R(1), H(1, 1), R(0), R(1)>>,    <<W(1, 2)>>),
    Both(<<W(2, 1), R(2), W(0, 4)>>,       <<R(0), W(2, 3)>>),
    Both(<<R(3), W(0, 1), R(0)>>,          <<R(3)>>) }

Four(a, b, c, d) == [i \in 0..3 |-> <<a, b, c, d>>[i + 1]]

\* Two contexts on two groups each.  The second one writes to an address whose
\* place in its block still has the tag of what the first one writes, and reads
\* it back.
MCHalves == {Four(0, 0, 1, 1)}
MCOther == {Both(<<W(0, 1)>>, <<W(2, 3), R(2)>>)}

\* Two writes of one context and a write of the other to the same address: for
\* the second way in which ReadsLatest fails.
MCTwice == {Both(<<W(0, 1), W(0, 2), R(0)>>, <<W(0, 3)>>)}
=============================================================================
