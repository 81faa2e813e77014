----------------------------- MODULE MCCfgCtrl ------------------------------
(* Instances of the reconfiguration controller for model checking.         *)
EXTENDS CfgCtrl

W4(a, b, c, d) ==
  [i \in 0..7 |-> CASE i = 0 -> a [] i = 1 -> b [] i = 2 -> c [] i = 3 -> d [] OTHER -> 0]

\* Four groups: context 0 gives two groups to context 1 and shrinks in place,
\* or sleeps; a misaligned word and a word with a reserved bit.  The wake-up
\* word runs context 0 alone.  Digits are listed from group 0 upwards.
MCWords4 ==
  {W4(1, 1, 0, 0), W4(1, 1, 8, 8), W4(2, 0, 0, 1), W4(0, 0, 4, 4)}
MCWcfgWords4 == {W4(8, 8, 0, 0)}

\* Four groups but two contexts.
MCNarrowWords4 == {W4(0, 0, 1, 1), W4(0, 0, 8, 1)}
=============================================================================
