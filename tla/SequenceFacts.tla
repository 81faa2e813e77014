---------------------------- MODULE SequenceFacts ---------------------------
(***************************************************************************)
(* Facts about FlattenSeq, which the models use for what a loop appends    *)
(* piece by piece: the escaped bytes of a packet (serial.c) and the        *)
(* commands that are queued again (debugCommands.c).                       *)
(***************************************************************************)
EXTENDS Integers, SequencesExt, SequenceTheorems, FiniteSetTheorems, WellFoundedInduction, TLAPS

\* A set of numbers that is not empty has a least one.
LEMMA LeastNumber ==
  ASSUME NEW T \in SUBSET Nat, T # {}
  PROVE  \E m \in T : \A k \in Nat : k < m => k \notin T
<1>1. \E m \in T : \A k \in T : ~(<<k, m>> \in OpToRel(<, Nat))
  BY NatLessThanWellFounded, WFMin
<1> QED BY <1>1 DEF OpToRel

\* A head is an element and a tail a sequence of elements.
LEMMA HeadTail ==
  ASSUME NEW S, NEW q \in Seq(S), q # <<>>
  PROVE  /\ Head(q) = q[1] /\ Head(q) \in S /\ Tail(q) \in Seq(S)
         /\ Len(q) \in Nat /\ Len(q) >= 1 /\ Len(Tail(q)) = Len(q) - 1
         /\ \A i \in 1 .. Len(Tail(q)) : Tail(q)[i] = q[i + 1] /\ i + 1 \in 1 .. Len(q)
OBVIOUS

\* The partial results of FlattenSeq: a recursive function on an initial part of
\* the numbers exists.
Flattening(seqs, n, f) ==
  f = [i \in 1 .. n |-> IF i = 1 THEN seqs[i] ELSE f[i - 1] \o seqs[i]]

LEMMA FlatteningExists ==
  ASSUME NEW seqs, NEW n \in Nat
  PROVE  \E f : Flattening(seqs, n, f)
<1> DEFINE T == {k \in Nat : ~ \E f : Flattening(seqs, k, f)}
<1> SUFFICES ASSUME T # {} PROVE FALSE
  OBVIOUS
<1>1. PICK m \in T : \A k \in Nat : k < m => k \notin T
  BY LeastNumber, Zenon
<1>2. m # 0
  <2>1. Flattening(seqs, 0, [i \in 1 .. 0 |-> 0])
    BY DEF Flattening
  <2> QED BY <2>1
<1>3. m - 1 \in Nat /\ m - 1 < m
  BY <1>2
<1>4. PICK f : Flattening(seqs, m - 1, f)
  BY <1>1, <1>3
<1> DEFINE g == [i \in 1 .. m |-> IF i = m
                                  THEN IF m = 1 THEN seqs[m] ELSE f[m - 1] \o seqs[m]
                                  ELSE f[i]]
<1>5. ASSUME NEW i \in 1 .. m
      PROVE  g[i] = IF i = 1 THEN seqs[i] ELSE g[i - 1] \o seqs[i]
  <2>1. CASE i = m
    <3>1. m # 1 => g[m - 1] = f[m - 1]
      BY <1>2
    <3> QED BY <2>1, <3>1
  <2>2. CASE i # m
    <3>1. i \in 1 .. (m - 1) /\ g[i] = f[i] /\ (i # 1 => g[i - 1] = f[i - 1])
      BY <2>2
    <3>2. f[i] = IF i = 1 THEN seqs[i] ELSE f[i - 1] \o seqs[i]
      BY <1>4, <3>1 DEF Flattening
    <3> QED BY <3>1, <3>2
  <2> QED BY <2>1, <2>2
<1>6. g = [i \in 1 .. m |-> IF i = 1 THEN seqs[i] ELSE g[i - 1] \o seqs[i]]
  BY <1>5
<1>7. Flattening(seqs, m, g)
  BY <1>6, Zenon DEF Flattening
<1> QED BY <1>7

\* FlattenSeq is the last of its partial results.
LEMMA FlattenUnfolds ==
  ASSUME NEW seqs, Len(seqs) \in Nat, Len(seqs) # 0
  PROVE  \E f : Flattening(seqs, Len(seqs), f) /\ FlattenSeq(seqs) = f[Len(seqs)]
<1>1. \E f : Flattening(seqs, Len(seqs), f)
  BY FlatteningExists
<1>2. PICK f : f = CHOOSE h : Flattening(seqs, Len(seqs), h)
  OBVIOUS
<1>3. Flattening(seqs, Len(seqs), f)
  BY <1>1, <1>2
<1>4. FlattenSeq(seqs) = f[Len(seqs)]
  BY <1>2 DEF FlattenSeq, Flattening
<1> QED BY <1>3, <1>4

\* Sequences that begin alike have partial results that begin alike.
Alike(s, t, n) == \A i \in 1 .. n : s[i] = t[i]

LEMMA FlattenAlike ==
  ASSUME NEW seqs, NEW more, NEW n \in Nat, NEW m \in Nat, n <= m, NEW f, NEW g,
         Flattening(seqs, n, f), Flattening(more, m, g), Alike(seqs, more, n)
  PROVE  Alike(f, g, n)
<1> USE DEF Alike
<1> DEFINE T == {i \in 1 .. n : f[i] # g[i]}
<1> SUFFICES ASSUME T # {} PROVE FALSE
  OBVIOUS
<1>1. PICK k \in T : \A i \in Nat : i < k => i \notin T
  <2>1. T \in SUBSET Nat
    OBVIOUS
  <2> HIDE DEF T
  <2> QED BY <2>1, LeastNumber, Zenon
<1>2. k \in 1 .. n /\ k \in 1 .. m /\ f[k] # g[k]
  BY <1>1
<1>3. /\ f[k] = IF k = 1 THEN seqs[k] ELSE f[k - 1] \o seqs[k]
      /\ g[k] = IF k = 1 THEN more[k] ELSE g[k - 1] \o more[k]
  BY <1>2 DEF Flattening
<1>4. k # 1 => f[k - 1] = g[k - 1]
  BY <1>1, <1>2
<1> QED BY <1>2, <1>3, <1>4

\* Partial results are sequences.
LEMMA FlattenTyped ==
  ASSUME NEW S, NEW n \in Nat, NEW seqs, \A i \in 1 .. n : seqs[i] \in Seq(S),
         NEW f, Flattening(seqs, n, f)
  PROVE  \A i \in 1 .. n : f[i] \in Seq(S)
<1> DEFINE T == {i \in 1 .. n : f[i] \notin Seq(S)}
<1> SUFFICES ASSUME T # {} PROVE FALSE
  OBVIOUS
<1>1. PICK k \in T : \A i \in Nat : i < k => i \notin T
  <2>1. T \in SUBSET Nat
    OBVIOUS
  <2> HIDE DEF T
  <2> QED BY <2>1, LeastNumber, Zenon
<1>2. k \in 1 .. n /\ f[k] \notin Seq(S) /\ seqs[k] \in Seq(S)
  BY <1>1
<1>3. f[k] = IF k = 1 THEN seqs[k] ELSE f[k - 1] \o seqs[k]
  BY <1>2 DEF Flattening
<1>4. k # 1 => f[k - 1] \in Seq(S)
  BY <1>1, <1>2
<1>5. k # 1 => f[k - 1] \o seqs[k] \in Seq(S)
  BY <1>2, <1>4, ConcatProperties
<1> QED BY <1>2, <1>3, <1>5

\* FlattenSeq of one sequence more.
LEMMA FlattenAppend ==
  ASSUME NEW S, NEW seqs \in Seq(Seq(S)), NEW s \in Seq(S)
  PROVE  /\ FlattenSeq(seqs) \in Seq(S)
         /\ FlattenSeq(Append(seqs, s)) = FlattenSeq(seqs) \o s
<1> DEFINE Q == Seq(S)
<1>0. seqs \in Seq(Q) /\ s \in Q
  OBVIOUS
<1> HIDE DEF Q
<1>1. PICK n \in Nat : n = Len(seqs) /\ \A i \in 1 .. n : seqs[i] \in Q
  BY ONLY <1>0, LenProperties, ElementOfSeq
<1>2. PICK more : /\ more = Append(seqs, s) /\ Len(more) = n + 1 /\ more[n + 1] = s
                  /\ \A i \in 1 .. n : more[i] = seqs[i]
  <2>1. /\ Len(Append(seqs, s)) = Len(seqs) + 1 /\ Append(seqs, s)[Len(seqs) + 1] = s
        /\ \A i \in 1 .. Len(seqs) : Append(seqs, s)[i] = seqs[i]
    BY ONLY <1>0, AppendProperties
  <2> QED BY <1>1, <2>1
<1>3. PICK g : Flattening(more, n + 1, g) /\ FlattenSeq(more) = g[n + 1]
  <2>1. Len(more) \in Nat /\ Len(more) # 0
    BY <1>2
  <2>2. \E g : Flattening(more, Len(more), g) /\ FlattenSeq(more) = g[Len(more)]
    BY ONLY <2>1, FlattenUnfolds
  <2> QED BY <1>2, <2>2
<1>4. g[n + 1] = IF n = 0 THEN s ELSE g[n] \o s
  <2>1. n + 1 \in 1 .. (n + 1) /\ (n + 1 = 1 <=> n = 0) /\ (n + 1) - 1 = n
    OBVIOUS
  <2> QED BY ONLY <1>2, <1>3, <2>1 DEF Flattening
<1> USE DEF Q
<1>5. CASE n = 0
  <2>1. seqs = <<>>
    BY <1>0, <1>1, <1>5, EmptySeq
  <2>2. FlattenSeq(seqs) = <<>>
    BY <2>1 DEF FlattenSeq
  <2> QED BY <1>2, <1>3, <1>4, <1>5, <2>2, ConcatEmptySeq
<1>6. CASE n # 0
  <2>1. PICK f : Flattening(seqs, n, f) /\ FlattenSeq(seqs) = f[n]
    BY <1>1, <1>6, FlattenUnfolds
  <2>2. f[n] = g[n]
    <3>1. Alike(f, g, n)
      <4>1. PICK m \in Nat : m = n + 1 /\ n <= m
        OBVIOUS
      <4>2. Alike(seqs, more, n)
        BY <1>2 DEF Alike
      <4>3. Flattening(more, m, g) /\ Flattening(seqs, n, f)
        BY <1>3, <2>1, <4>1
      <4> HIDE DEF Flattening
      <4> QED BY ONLY <4>1, <4>2, <4>3, n \in Nat, FlattenAlike
    <3> QED BY <1>6, <3>1 DEF Alike
  <2>3. f[n] \in Seq(S)
    <3>1. \A i \in 1 .. n : f[i] \in Seq(S)
      BY <1>1, <2>1, FlattenTyped
    <3> QED BY <1>6, <3>1
  <2> QED BY <1>2, <1>3, <1>4, <1>6, <2>1, <2>2, <2>3
<1> QED BY <1>5, <1>6

\* FlattenSeq from the front.
LEMMA FlattenFirst ==
  ASSUME NEW S, NEW seqs \in Seq(Seq(S)), seqs # <<>>
  PROVE  FlattenSeq(seqs) = Head(seqs) \o FlattenSeq(Tail(seqs))
<1> DEFINE Q == Seq(S)
<1>0. seqs \in Seq(Q)
  OBVIOUS
<1> HIDE DEF Q
<1>1. PICK n \in Nat : /\ n = Len(seqs) /\ n >= 1 /\ \A i \in 1 .. n : seqs[i] \in Q
                       /\ Head(seqs) = seqs[1] /\ seqs[1] \in Q
  <2>1. Len(seqs) \in Nat /\ Len(seqs) >= 1 /\ Head(seqs) = seqs[1]
    BY ONLY <1>0, seqs # <<>>, HeadTail
  <2>2. \A i \in 1 .. Len(seqs) : seqs[i] \in Q
    BY ONLY <1>0, ElementOfSeq
  <2> QED BY <2>1, <2>2
<1>2. PICK rest \in Seq(Q) : /\ rest = Tail(seqs) /\ Len(rest) = n - 1
                             /\ \A i \in 1 .. (n - 1) : rest[i] = seqs[i + 1]
  <2>1. /\ Tail(seqs) \in Seq(Q) /\ Len(Tail(seqs)) = n - 1
        /\ \A i \in 1 .. Len(Tail(seqs)) : Tail(seqs)[i] = seqs[i + 1]
    BY ONLY <1>0, <1>1, seqs # <<>>, HeadTail
  <2> QED BY <2>1
<1>3. PICK f : Flattening(seqs, n, f) /\ FlattenSeq(seqs) = f[n]
  <2>1. \E f : Flattening(seqs, Len(seqs), f) /\ FlattenSeq(seqs) = f[Len(seqs)]
    <3>1. Len(seqs) \in Nat /\ Len(seqs) # 0
      BY <1>1
    <3> QED BY ONLY <3>1, FlattenUnfolds
  <2> QED BY <1>1, <2>1
<1> USE DEF Q
<1>4. f[1] = seqs[1]
  BY <1>1, <1>3 DEF Flattening
<1>5. CASE n = 1
  <2>1. rest = <<>>
    <3>1. Len(rest) = 0
      BY <1>2, <1>5
    <3> HIDE DEF Q
    <3> QED BY <3>1, EmptySeq
  <2>2. FlattenSeq(rest) = <<>>
    BY <2>1 DEF FlattenSeq
  <2> QED BY <1>1, <1>2, <1>3, <1>4, <1>5, <2>2, ConcatEmptySeq
<1>6. CASE n # 1
  <2>1. PICK g : Flattening(rest, n - 1, g) /\ FlattenSeq(rest) = g[n - 1]
    <3>1. Len(rest) = n - 1 /\ Len(rest) \in Nat /\ Len(rest) # 0
      BY <1>1, <1>2, <1>6
    <3>2. \E g : Flattening(rest, Len(rest), g) /\ FlattenSeq(rest) = g[Len(rest)]
      BY ONLY <3>1, FlattenUnfolds
    <3> QED BY <3>1, <3>2
  <2>2. \A i \in 1 .. (n - 1) : g[i] \in Seq(S)
    <3>1. n - 1 \in Nat /\ \A i \in 1 .. (n - 1) : rest[i] \in Seq(S)
      BY <1>1, <1>2
    <3> QED BY <2>1, <3>1, FlattenTyped
  <2> DEFINE T == {i \in 1 .. (n - 1) : f[i + 1] # seqs[1] \o g[i]}
  <2>3. T = {}
    <3> SUFFICES ASSUME T # {} PROVE FALSE
      OBVIOUS
    <3>1. PICK k \in T : \A i \in Nat : i < k => i \notin T
      <4>1. 1 .. (n - 1) \subseteq Nat
        OBVIOUS
      <4>2. T \in SUBSET Nat
        BY <4>1
      <4> HIDE DEF T
      <4> QED BY <4>2, LeastNumber, Zenon
    <3>2. k \in 1 .. (n - 1) /\ f[k + 1] # seqs[1] \o g[k]
      BY <3>1
    <3>3. /\ f[k + 1] = f[k] \o seqs[k + 1]
          /\ g[k] = IF k = 1 THEN seqs[k + 1] ELSE g[k - 1] \o seqs[k + 1]
      <4>1. k + 1 \in 1 .. n /\ k + 1 # 1 /\ (k + 1) - 1 = k
        BY <3>2
      <4>2. f[k + 1] = IF k + 1 = 1 THEN seqs[k + 1] ELSE f[(k + 1) - 1] \o seqs[k + 1]
        BY <1>3, <4>1 DEF Flattening
      <4>3. g[k] = IF k = 1 THEN rest[k] ELSE g[k - 1] \o rest[k]
        BY <2>1, <3>2 DEF Flattening
      <4> QED BY <1>2, <3>2, <4>1, <4>2, <4>3
    <3>4. k # 1
      BY <1>4, <3>2, <3>3
    <3>5. k - 1 \in 1 .. (n - 1) /\ (k - 1) + 1 = k /\ k - 1 < k
      BY <3>2, <3>4
    <3>6. f[k] = seqs[1] \o g[k - 1] /\ g[k - 1] \in Seq(S)
      <4>1. k - 1 \in Nat
        BY <3>5
      <4>a. k - 1 \notin T
        <5> HIDE DEF T
        <5> QED BY <3>1, <3>5, <4>1
      <4>2. f[(k - 1) + 1] = seqs[1] \o g[k - 1]
        BY <3>5, <4>a
      <4> QED BY <2>2, <3>5, <4>2
    <3>7. seqs[k + 1] \in Seq(S)
      BY <1>1, <3>2
    <3>8. (seqs[1] \o g[k - 1]) \o seqs[k + 1] = seqs[1] \o (g[k - 1] \o seqs[k + 1])
      <4>1. seqs[1] \in Seq(S) /\ g[k - 1] \in Seq(S)
        BY <1>1, <3>6
      <4>2. \A a, b, c \in Seq(S) : (a \o b) \o c = a \o (b \o c)
        BY ONLY ConcatAssociative
      <4> QED BY ONLY <3>7, <4>1, <4>2, Zenon
    <3> QED BY <3>2, <3>3, <3>4, <3>6, <3>8
  <2>4. f[n] = seqs[1] \o g[n - 1]
    <3>1. n - 1 \in 1 .. (n - 1) /\ (n - 1) + 1 = n
      BY <1>1, <1>6
    <3>2. n - 1 \notin T
      BY <2>3
    <3> QED BY <3>1, <3>2
  <2> QED BY <1>1, <1>2, <1>3, <2>1, <2>4
<1> QED BY <1>5, <1>6

\* The elements of some options, in order; different when the options are.
Different(seqs) ==
  \A i, j \in 1 .. Len(seqs) :
    Len(seqs[i]) = 1 /\ Len(seqs[j]) = 1 /\ seqs[i][1] = seqs[j][1] => i = j

LEMMA FlattenOptions ==
  ASSUME NEW S, NEW seqs \in Seq(Seq(S)),
         \A i \in 1 .. Len(seqs) : Len(seqs[i]) <= 1
  PROVE  /\ FlattenSeq(seqs) \in Seq(S)
         /\ \A k \in 1 .. Len(FlattenSeq(seqs)) : \E i \in 1 .. Len(seqs) :
              Len(seqs[i]) = 1 /\ FlattenSeq(seqs)[k] = seqs[i][1]
         /\ Different(seqs) => \A k, l \in 1 .. Len(FlattenSeq(seqs)) :
                                FlattenSeq(seqs)[k] = FlattenSeq(seqs)[l] => k = l
<1>0. \A n \in Nat : \A k \in 1 .. (n + 1) : k \in 1 .. n \/ k = n + 1
  OBVIOUS
<1>1. Len(seqs) \in Nat /\ \A i \in 1 .. Len(seqs) : seqs[i] \in Seq(S)
  BY ElementOfSeq, LenProperties
<1>2. CASE Len(seqs) = 0
  <2>1. FlattenSeq(seqs) = seqs /\ seqs = <<>>
    BY <1>2 DEF FlattenSeq
  <2> QED BY <2>1
<1>3. CASE Len(seqs) # 0
  <2>1. PICK f : Flattening(seqs, Len(seqs), f) /\ FlattenSeq(seqs) = f[Len(seqs)]
    BY <1>1, <1>3, FlattenUnfolds
  <2>2. \A i \in 1 .. Len(seqs) : f[i] = IF i = 1 THEN seqs[i] ELSE f[i - 1] \o seqs[i]
    BY <2>1 DEF Flattening
  <2> DEFINE Good(m) == /\ f[m] \in Seq(S)
                        /\ \A k \in 1 .. Len(f[m]) : \E i \in 1 .. m :
                             Len(seqs[i]) = 1 /\ f[m][k] = seqs[i][1]
                        /\ Different(seqs) =>
                             \A k, l \in 1 .. Len(f[m]) : f[m][k] = f[m][l] => k = l
             T == {m \in 1 .. Len(seqs) : ~Good(m)}
  <2>3. T = {}
    <3> SUFFICES ASSUME T # {} PROVE FALSE
      OBVIOUS
    <3>1. PICK m \in T : \A k \in Nat : k < m => k \notin T
      <4>1. T \in SUBSET Nat
        OBVIOUS
      <4> HIDE DEF T
      <4> QED BY <4>1, LeastNumber, Zenon
    <3>2. m \in 1 .. Len(seqs) /\ ~Good(m)
      BY <3>1
    <3>3. seqs[m] \in Seq(S) /\ Len(seqs[m]) \in {0, 1}
      <4>1. seqs[m] \in Seq(S) /\ Len(seqs[m]) <= 1
        BY <1>1, <3>2
      <4>2. Len(seqs[m]) \in Nat
        BY <4>1, LenProperties
      <4>3. \A n \in Nat : n <= 1 => n \in {0, 1}
        OBVIOUS
      <4> QED BY ONLY <4>1, <4>2, <4>3
    <3>4. m # 1
      <4> SUFFICES ASSUME m = 1 PROVE FALSE
        OBVIOUS
      <4>1. f[m] = seqs[m]
        BY <2>2, <3>2
      <4>2. Good(m)
        BY <3>2, <3>3, <4>1
      <4> QED BY <3>2, <4>2
    <3>5. m - 1 \in 1 .. Len(seqs) /\ m - 1 \in Nat /\ m - 1 < m /\ m \in 1 .. Len(seqs)
      <4>1. m \in 1 .. Len(seqs) /\ Len(seqs) \in Nat
        BY <1>1, <3>2
      <4> QED BY ONLY <3>4, <4>1
    <3>6. Good(m - 1)
      BY <3>1, <3>5
    <3>7. f[m] = f[m - 1] \o seqs[m]
      BY <2>2, <3>2, <3>4
    <3>8. PICK g, x : g = f[m - 1] /\ x = seqs[m]
      OBVIOUS
    <3>9. g \in Seq(S) /\ x \in Seq(S) /\ f[m] = g \o x /\ Len(g) \in Nat
      BY <3>3, <3>6, <3>7, <3>8
    <3>10. CASE Len(x) = 0
      <4>1. g \o x = g
        BY <3>9, <3>10
      <4>2. Good(m)
        <5>1. f[m] = f[m - 1]
          BY <3>8, <3>9, <4>1
        <5>2. 1 .. (m - 1) \subseteq 1 .. m
          BY <3>5
        <5> QED BY <3>6, <5>1, <5>2
      <4> QED BY <3>2, <4>2
    <3>11. CASE Len(x) = 1
      <4>1. /\ g \o x \in Seq(S) /\ Len(g \o x) = Len(g) + 1 /\ (g \o x)[Len(g) + 1] = x[1]
            /\ \A k \in 1 .. Len(g) : (g \o x)[k] = g[k]
        <5>1. PICK n \in Nat : n = Len(g)
          BY <3>9
        <5>2. /\ g \o x \in Seq(S) /\ Len(g \o x) = Len(g) + Len(x)
              /\ \A i \in 1 .. (Len(g) + Len(x)) :
                   (g \o x)[i] = IF i <= Len(g) THEN g[i] ELSE x[i - Len(g)]
          BY ONLY <3>9, ConcatProperties
        <5>3. \A i \in 1 .. (n + 1) : (g \o x)[i] = IF i <= n THEN g[i] ELSE x[i - n]
          BY ONLY <3>11, <5>1, <5>2
        <5>4. n + 1 \in 1 .. (n + 1) /\ ~(n + 1 <= n) /\ (n + 1) - n = 1
          BY ONLY <5>1
        <5>5. (g \o x)[n + 1] = x[1]
          BY ONLY <5>3, <5>4
        <5>6. \A i \in 1 .. n : i \in 1 .. (n + 1) /\ i <= n
          BY ONLY <5>1
        <5>7. \A i \in 1 .. n : (g \o x)[i] = g[i]
          BY ONLY <5>3, <5>6
        <5> QED BY ONLY <3>11, <5>1, <5>2, <5>5, <5>7
      <4>2. \A k \in 1 .. Len(g) : \E i \in 1 .. (m - 1) : Len(seqs[i]) = 1 /\ g[k] = seqs[i][1]
        BY <3>6, <3>8
      <4>3. Different(seqs) => \A k \in 1 .. Len(g) : g[k] # x[1]
        <5> SUFFICES ASSUME Different(seqs), NEW k \in 1 .. Len(g), g[k] = x[1] PROVE FALSE
          OBVIOUS
        <5>1. PICK i \in 1 .. (m - 1) : Len(seqs[i]) = 1 /\ g[k] = seqs[i][1]
          BY <4>2
        <5>2. i \in 1 .. Len(seqs) /\ i # m
          BY ONLY <1>1, <3>5
        <5> QED BY <3>2, <3>8, <3>11, <5>1, <5>2 DEF Different
      <4>4. \A k \in 1 .. Len(g \o x) : k \in 1 .. Len(g) \/ k = Len(g) + 1
        BY ONLY <1>0, <3>9, <4>1
      <4>5. Good(m)
        <5>1. \A k \in 1 .. Len(g \o x) : \E i \in 1 .. m : Len(seqs[i]) = 1 /\ (g \o x)[k] = seqs[i][1]
          <6> TAKE k \in 1 .. Len(g \o x)
          <6>1. CASE k \in 1 .. Len(g)
            <7>1. PICK i \in 1 .. (m - 1) : Len(seqs[i]) = 1 /\ g[k] = seqs[i][1]
              BY <4>2, <6>1
            <7>2. i \in 1 .. m
              BY <3>5
            <7> QED BY <4>1, <6>1, <7>1, <7>2
          <6>2. CASE k = Len(g) + 1
            <7>1. m \in 1 .. m
              BY <3>5
            <7> QED BY <3>8, <3>11, <4>1, <6>2, <7>1
          <6> QED BY <4>4, <6>1, <6>2
        <5>2. Different(seqs) => \A k, l \in 1 .. Len(g) : g[k] = g[l] => k = l
          BY <3>6, <3>8
        <5>3. Different(seqs) => \A k, l \in 1 .. Len(g \o x) : (g \o x)[k] = (g \o x)[l] => k = l
          BY <4>1, <4>3, <4>4, <5>2
        <5>4. PICK h : h = g \o x /\ h = f[m]
          BY ONLY <3>9, Zenon
        <5>5. /\ h \in Seq(S)
              /\ \A k \in 1 .. Len(h) : \E i \in 1 .. m : Len(seqs[i]) = 1 /\ h[k] = seqs[i][1]
              /\ Different(seqs) => \A k, l \in 1 .. Len(h) : h[k] = h[l] => k = l
          BY ONLY <4>1, <5>1, <5>3, <5>4
        <5>6. h = f[m]
          BY <5>4
        <5>7. f[m] \in Seq(S)
          BY ONLY <5>5, <5>6
        <5>8. \A k \in 1 .. Len(f[m]) : \E i \in 1 .. m : Len(seqs[i]) = 1 /\ f[m][k] = seqs[i][1]
          BY ONLY <5>5, <5>6
        <5>9. Different(seqs) => \A k, l \in 1 .. Len(f[m]) : f[m][k] = f[m][l] => k = l
          BY ONLY <5>5, <5>6
        <5> QED BY ONLY <5>7, <5>8, <5>9 DEF Good
      <4> QED BY <3>2, <4>5
    <3> QED BY <3>3, <3>8, <3>10, <3>11
  <2>4. Good(Len(seqs))
    <3>1. Len(seqs) \in 1 .. Len(seqs)
      BY ONLY <1>1, <1>3
    <3>2. Len(seqs) \notin T
      BY ONLY <2>3
    <3> HIDE DEF Good
    <3> QED BY <3>1, <3>2
  <2> QED BY ONLY <2>1, <2>4, Zenon DEF Good
<1> QED BY <1>2, <1>3

-----------------------------------------------------------------------------
(* Sequences without repetition *)

Elems(q)    == {q[i] : i \in 1 .. Len(q)}
Distinct(q) == \A i, j \in 1 .. Len(q) : q[i] = q[j] => i = j

\* Taking the head leaves the other elements.
LEMMA DistinctTail ==
  ASSUME NEW S, NEW q \in Seq(S), q # <<>>, Distinct(q)
  PROVE  Distinct(Tail(q)) /\ Elems(Tail(q)) = Elems(q) \ {Head(q)} /\ Head(q) \in Elems(q)
<1>1. PICK m \in Nat : m = Len(q) /\ m >= 1 /\ Len(Tail(q)) = m - 1
  BY HeadTail
<1>2. \A i \in 1 .. (m - 1) : Tail(q)[i] = q[i + 1] /\ i + 1 \in 1 .. m /\ i + 1 # 1
  <2>1. \A i \in 1 .. (m - 1) : Tail(q)[i] = q[i + 1]
    BY <1>1, HeadTail
  <2>2. \A i \in 1 .. (m - 1) : i + 1 \in 1 .. m /\ i + 1 # 1
    OBVIOUS
  <2> QED BY ONLY <2>1, <2>2
<1>3. 1 \in 1 .. m /\ Head(q) = q[1]
  BY <1>1, HeadTail
<1>4. \A i, j \in 1 .. m : q[i] = q[j] => i = j
  BY <1>1 DEF Distinct
<1>5. \A i, j \in 1 .. (m - 1) : Tail(q)[i] = Tail(q)[j] => i = j
  <2> SUFFICES ASSUME NEW i \in 1 .. (m - 1), NEW j \in 1 .. (m - 1), Tail(q)[i] = Tail(q)[j]
               PROVE  i = j
    OBVIOUS
  <2>1. i + 1 = j + 1
    BY <1>2, <1>4
  <2> QED BY <2>1
<1>6. \A x \in Elems(Tail(q)) : x \in Elems(q) /\ x # Head(q)
  BY <1>1, <1>2, <1>3, <1>4 DEF Elems
<1>7. \A x \in Elems(q) : x # Head(q) => x \in Elems(Tail(q))
  <2> SUFFICES ASSUME NEW i \in 1 .. m, q[i] # q[1] PROVE q[i] \in Elems(Tail(q))
    BY <1>1, <1>3 DEF Elems
  <2>1. i - 1 \in 1 .. (m - 1) /\ (i - 1) + 1 = i
    OBVIOUS
  <2>2. Tail(q)[i - 1] = q[i]
    BY <1>2, <2>1
  <2> QED BY <1>1, <2>1, <2>2 DEF Elems
<1>8. Head(q) \in Elems(q)
  BY <1>1, <1>3 DEF Elems
<1>9. Distinct(Tail(q))
  BY <1>1, <1>5 DEF Distinct
<1> QED BY <1>6, <1>7, <1>8, <1>9

\* The elements of a concatenation, which are distinct when both halves are
\* and have none in common.
LEMMA DistinctConcat ==
  ASSUME NEW S, NEW p \in Seq(S), NEW q \in Seq(S)
  PROVE  /\ p \o q \in Seq(S) /\ Elems(p \o q) = Elems(p) \cup Elems(q)
         /\ Distinct(p) /\ Distinct(q) /\ Elems(p) \cap Elems(q) = {} => Distinct(p \o q)
<1>0. PICK c : c = p \o q
  OBVIOUS
<1>1. PICK m \in Nat, n \in Nat : m = Len(p) /\ n = Len(q)
  BY LenProperties
<1>2. /\ c \in Seq(S) /\ Len(c) = m + n
      /\ \A i \in 1 .. (m + n) : c[i] = IF i <= m THEN p[i] ELSE q[i - m]
  BY <1>0, <1>1, ConcatProperties
<1>3. \A i \in 1 .. (m + n) : \/ i \in 1 .. m /\ c[i] = p[i]
                              \/ i - m \in 1 .. n /\ c[i] = q[i - m]
  BY <1>2
<1>4. /\ \A i \in 1 .. m : i \in 1 .. (m + n) /\ c[i] = p[i]
      /\ \A i \in 1 .. n : i + m \in 1 .. (m + n) /\ c[i + m] = q[i]
  BY <1>2
<1>5. Elems(c) \subseteq Elems(p) \cup Elems(q)
  BY <1>1, <1>2, <1>3 DEF Elems
<1>6. Elems(p) \subseteq Elems(c) /\ Elems(q) \subseteq Elems(c)
  <2>1. ASSUME NEW i \in 1 .. m PROVE p[i] \in Elems(c)
    BY <1>2, <1>4 DEF Elems
  <2>2. ASSUME NEW i \in 1 .. n PROVE q[i] \in Elems(c)
    <3>1. i + m \in 1 .. Len(c) /\ c[i + m] = q[i]
      BY <1>2, <1>4
    <3> QED BY <3>1 DEF Elems
  <2> QED BY <1>1, <2>1, <2>2 DEF Elems
<1>7. ASSUME Distinct(p), Distinct(q), Elems(p) \cap Elems(q) = {} PROVE Distinct(c)
  <2> SUFFICES ASSUME NEW i \in 1 .. (m + n), NEW j \in 1 .. (m + n), c[i] = c[j] PROVE i = j
    BY <1>2 DEF Distinct
  <2>1. \A a \in 1 .. m, b \in 1 .. n : p[a] # q[b]
    BY <1>1, <1>7 DEF Elems
  <2>2. /\ \A a, b \in 1 .. m : p[a] = p[b] => a = b
        /\ \A a, b \in 1 .. n : q[a] = q[b] => a = b
    BY <1>1, <1>7 DEF Distinct
  <2>3. CASE i \in 1 .. m /\ c[i] = p[i] /\ j \in 1 .. m /\ c[j] = p[j]
    BY <2>2, <2>3
  <2>4. CASE i - m \in 1 .. n /\ c[i] = q[i - m] /\ j - m \in 1 .. n /\ c[j] = q[j - m]
    <3>1. i - m = j - m
      BY <2>2, <2>4
    <3> QED BY <3>1
  <2> QED BY <1>3, <2>1, <2>3, <2>4
<1> QED BY <1>0, <1>2, <1>5, <1>6, <1>7

\* FlattenSeq leaves nothing out.
LEMMA FlattenHasAll ==
  ASSUME NEW S, NEW seqs \in Seq(Seq(S)), NEW n \in 1 .. Len(seqs)
  PROVE  Elems(seqs[n]) \subseteq Elems(FlattenSeq(seqs))
<1>1. Len(seqs) \in Nat /\ Len(seqs) # 0 /\ \A i \in 1 .. Len(seqs) : seqs[i] \in Seq(S)
  BY ElementOfSeq, LenProperties
<1>2. PICK f : Flattening(seqs, Len(seqs), f) /\ FlattenSeq(seqs) = f[Len(seqs)]
  BY <1>1, FlattenUnfolds
<1>3. \A i \in 1 .. Len(seqs) : f[i] = IF i = 1 THEN seqs[i] ELSE f[i - 1] \o seqs[i]
  BY <1>2 DEF Flattening
<1>4. \A k \in Nat : \A i \in 1 .. k : i = k \/ i \in 1 .. (k - 1)
  OBVIOUS
<1> DEFINE Good(m) == f[m] \in Seq(S) /\ \A i \in 1 .. m : Elems(seqs[i]) \subseteq Elems(f[m])
           T == {m \in 1 .. Len(seqs) : ~Good(m)}
<1>5. T = {}
  <2> SUFFICES ASSUME T # {} PROVE FALSE
    OBVIOUS
  <2>1. PICK m \in T : \A k \in Nat : k < m => k \notin T
    <3>1. T \in SUBSET Nat
      OBVIOUS
    <3> HIDE DEF T
    <3> QED BY <3>1, LeastNumber, Zenon
  <2>2. m \in 1 .. Len(seqs) /\ ~Good(m)
    BY <2>1
  <2>3. seqs[m] \in Seq(S) /\ m \in Nat
    BY <1>1, <2>2
  <2>4. m # 1
    <3> SUFFICES ASSUME m = 1 PROVE FALSE
      OBVIOUS
    <3>1. f[m] = seqs[m] /\ 1 .. m = {1}
      BY <1>3, <2>2
    <3> QED BY <2>2, <2>3, <3>1
  <2>5. m - 1 \in 1 .. Len(seqs) /\ m - 1 \in Nat /\ m - 1 < m
    <3>1. m \in 1 .. Len(seqs) /\ Len(seqs) \in Nat
      BY <1>1, <2>2
    <3> QED BY ONLY <2>4, <3>1
  <2>6. Good(m - 1)
    BY <2>1, <2>5
  <2>7. PICK g : g = f[m - 1]
    OBVIOUS
  <2>8. f[m] = g \o seqs[m] /\ g \in Seq(S) /\ \A i \in 1 .. (m - 1) : Elems(seqs[i]) \subseteq Elems(g)
    BY <1>3, <2>2, <2>4, <2>6, <2>7
  <2>9. f[m] \in Seq(S) /\ Elems(f[m]) = Elems(g) \cup Elems(seqs[m])
    BY ONLY <2>3, <2>8, DistinctConcat
  <2>10. \A i \in 1 .. m : Elems(seqs[i]) \subseteq Elems(f[m])
    BY ONLY <1>4, <2>3, <2>8, <2>9
  <2> QED BY <2>2, <2>9, <2>10
<1>6. Good(Len(seqs))
  <2>1. Len(seqs) \in 1 .. Len(seqs)
    BY ONLY <1>1
  <2>2. Len(seqs) \notin T
    BY ONLY <1>5
  <2> HIDE DEF Good
  <2> QED BY <2>1, <2>2
<1> QED BY <1>2, <1>6

\* SetToSeq lists the elements of a finite set, each once.
LEMMA SetToSeqListed ==
  ASSUME NEW S, IsFiniteSet(S)
  PROVE  SetToSeq(S) \in Seq(S) /\ Distinct(SetToSeq(S)) /\ Elems(SetToSeq(S)) \subseteq S
<1>1. PICK n \in Nat : n = Cardinality(S) /\ ExistsBijection(1 .. n, S)
  BY FS_CardinalityType
<1>2. \E f \in [1 .. n -> S] : IsInjective(f)
  BY <1>1 DEF ExistsBijection, Bijection, Injection
<1>3. PICK q : q = SetToSeq(S)
  OBVIOUS
<1>4. q \in [1 .. n -> S] /\ IsInjective(q)
  <2>1. q = CHOOSE f \in [1 .. n -> S] : IsInjective(f)
    BY <1>1, <1>3 DEF SetToSeq
  <2> QED BY <1>2, <2>1
<1>5. q \in Seq(S) /\ Len(q) = n /\ DOMAIN q = 1 .. n
  BY <1>4
<1>6. Distinct(q)
  BY <1>4, <1>5 DEF Distinct, IsInjective
<1>7. Elems(q) \subseteq S
  BY <1>4, <1>5 DEF Elems
<1> QED BY <1>3, <1>5, <1>6, <1>7
=============================================================================
