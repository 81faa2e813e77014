-------------------------- MODULE GdbBridgeProofs ---------------------------
(***************************************************************************)
(* Proofs about the gdb bridge: for every set of addresses, registry size, *)
(* number of hardware units and behaviour of gdb, the breakpoints that gdb *)
(* believes in are in place and the program is intact everywhere else.     *)
(***************************************************************************)
EXTENDS GdbBridge, SequenceTheorems, TLAPS, WellFoundedInduction

Requests == Packets \cup {NoPacket}
Signs    == {"$", "body", "#", "checksum", "+", "^C"}
Items    == [c : Signs, p : Requests]
Sayings  == {"+", "OK", "E05", "E06", "", "X09", "S05"}
Breaks   == [type : Types, a : Addresses]
Words    == {"old", "new", "brk"}
Slots    == [active : BOOLEAN, type : Types, a : Addresses \cup {0},
             index : HwIndices \cup {0}, data : Words]

\* The part of the type invariant the argument needs.
ProtocolTypes ==
  /\ asked \in Requests /\ rxBuf \in Requests
  /\ held \subseteq Breaks
  /\ chunk \in Seq(Items) /\ toRvd \in Seq(Items)
  /\ toGdb \in Seq(Sayings) /\ tx \in Seq(Sayings)

RegistryTypes ==
  /\ mem \in [Addresses -> Words] /\ text \in [Addresses -> {"old", "new"}]
  /\ slots \in [1 .. MaxBreakpoints -> Slots]
  /\ inUse \subseteq HwIndices
  /\ hw \in [HwUnits -> [type : Types, a : Addresses \cup {0}]]

-----------------------------------------------------------------------------
(* The protocol: the packet gdb waits for is in one place.                  *)

Stream  == chunk \o toRvd   \* what rvd has still to look at
Answers == toGdb \o tx      \* what gdb has still to look at

\* A frame that was begun is there to its end, it is the only one, and it
\* carries the packet p.
Ends(s)  == {i \in DOMAIN s : s[i].c = "checksum"}
Marks(s) == {i \in DOMAIN s : s[i].c = "#"}
OneFrame(s, p) ==
  /\ \A i, j \in Ends(s) : i = j
  /\ \A i \in DOMAIN s :
       /\ s[i].c \in {"$", "body"} => \E k \in Marks(s), j \in Ends(s) : i < k /\ k < j
       /\ s[i].c = "body" => s[i].p = p

\* The end of the body is still to come.
Unfinished(s) == \E k \in Marks(s), j \in Ends(s) : k < j

\* Acknowledgements aside there is one answer.
Results(s) == {s[i] : i \in DOMAIN s} \ {"+"}
OneResult(s) == \A i, j \in DOMAIN s : s[i] # "+" /\ s[j] # "+" => i = j

Unhandled == Ends(Stream) # {}
Waits     == pc \in {"wait", "polling"}

ProtocolSound ==
  /\ OneFrame(Stream, asked)
  /\ rxState \in {"body", "check"} => Unhandled /\ rxBuf \in {NoPacket, asked}
  /\ rxState = "body" => Unfinished(Stream)
  /\ pc \in {"fork", "accept", "select", "read"} => chunk = <<>>
  /\ OneResult(Answers)
  /\ (Unhandled \/ Results(Answers) # {} \/ Waits) => asked # NoPacket
  /\ Unhandled => Results(Answers) = {} /\ ~Waits
  /\ Waits => Results(Answers) = {} /\ asked.k \in {"c", "vRun"}

-----------------------------------------------------------------------------
(* The registry: the slots are what memory and the units hold.              *)

Software(i, a) == slots[i].active /\ slots[i].type = 0 /\ slots[i].a = a
Hardware(i, u) == slots[i].active /\ slots[i].type # 0 /\ slots[i].index = u

Installed(a) == a \notin Faulty /\ \E i \in DOMAIN slots : Software(i, a)

SoftwareSound ==
  /\ \A a \in Addresses \ Faulty : \A i, j \in DOMAIN slots :
       Software(i, a) /\ Software(j, a) => i = j
  /\ \A a \in Addresses \ Faulty : \A i \in DOMAIN slots :
       Software(i, a) => slots[i].data = text[a] /\ mem[a] = "brk"
  /\ \A a \in Addresses : ~Installed(a) => mem[a] = text[a]

HardwareSound ==
  /\ \A u \in HwUnits : hw[u].type # 0 =>
       \E i \in DOMAIN slots : /\ Hardware(i, u)
                               /\ slots[i].type = hw[u].type /\ slots[i].a = hw[u].a
  /\ \A u \in HwIndices : \A i, j \in DOMAIN slots : Hardware(i, u) /\ Hardware(j, u) => i = j
  /\ \A u \in HwIndices : \A i \in DOMAIN slots : Hardware(i, u) => u \in inUse

Registry == RegistryTypes /\ SoftwareSound /\ HardwareSound

-----------------------------------------------------------------------------
(* gdb's belief and the registry agree.                                     *)

InPlace(b) == IF b.type = 0 THEN Installed(b.a) ELSE \E u \in HwUnits : hw[u] = b

\* A hardware breakpoint may stay behind, a software breakpoint may not.
Matches(b, there) == (there => InPlace(b)) /\ (b.type = 0 /\ InPlace(b) => there)

Concerns(p, b) == p.k \in {"Z", "z"} /\ p.type = b.type /\ p.a = b.a

Agreement ==
  \A b \in Breaks :
    /\ (~Concerns(asked, b) \/ Unhandled) => Matches(b, b \in held)
    /\ Concerns(asked, b) =>
         /\ asked.k = "Z" <=> b \notin held
         /\ \A r \in Results(Answers) :
              Matches(b, IF r = "OK" THEN asked.k = "Z" ELSE b \in held)

\* gdb writes where it has no breakpoint.
WritesElsewhere == asked.k = "M" => [type |-> 0, a |-> asked.a] \notin held

BridgeInv ==
  ProtocolTypes /\ ProtocolSound /\ Registry /\ Agreement /\ WritesElsewhere

-----------------------------------------------------------------------------
(* Frames and answers as sequences.                                         *)

\* Concatenation is associative, in the form the proofs quote it.
LEMMA Associative ==
  ASSUME NEW S, NEW s \in Seq(S), NEW t \in Seq(S)
  PROVE  \A u \in Seq(S) : (s \o t) \o u = s \o (t \o u)
BY ConcatAssociative

\* The head of a concatenation.
LEMMA TailOfConcat ==
  ASSUME NEW S, NEW s \in Seq(S), NEW t \in Seq(S), s # <<>>
  PROVE  /\ s \o t # <<>> /\ Head(s \o t) = Head(s)
         /\ Tail(s \o t) = Tail(s) \o t
<1>1. /\ Tail(s) \in Seq(S) /\ Len(Tail(s)) = Len(s) - 1
      /\ Len(s) \in Nat \ {0} /\ Len(t) \in Nat
      /\ \A i \in 1 .. Len(Tail(s)) : Tail(s)[i] = s[i + 1]
  BY HeadTailProperties, EmptySeq, LenProperties
<1> DEFINE A == s \o t
           B == Tail(s) \o t
<1>2. /\ A \in Seq(S) /\ Len(A) = Len(s) + Len(t)
      /\ \A i \in 1 .. Len(s) + Len(t) :
           A[i] = IF i <= Len(s) THEN s[i] ELSE t[i - Len(s)]
  BY ConcatProperties
<1>3. /\ B \in Seq(S) /\ Len(B) = Len(Tail(s)) + Len(t)
      /\ \A i \in 1 .. Len(Tail(s)) + Len(t) :
           B[i] = IF i <= Len(Tail(s)) THEN Tail(s)[i] ELSE t[i - Len(Tail(s))]
  BY <1>1, ConcatProperties
<1> HIDE DEF A, B
<1>4. A # <<>>
  BY <1>1, <1>2, EmptySeq
<1>5. /\ Tail(A) \in Seq(S) /\ Len(Tail(A)) = Len(A) - 1
      /\ \A i \in 1 .. Len(Tail(A)) : Tail(A)[i] = A[i + 1]
  BY <1>2, <1>4, HeadTailProperties
<1>6. Len(B) = Len(Tail(A)) /\ \A i \in 1 .. Len(B) : B[i] = Tail(A)[i]
  BY <1>1, <1>2, <1>3, <1>5
<1>7. B = Tail(A)
  BY <1>3, <1>5, <1>6, SeqEqual
<1>8. Head(A) = A[1] /\ Head(s) = s[1] /\ A[1] = s[1]
  BY <1>1, <1>2, <1>4
<1> QED BY <1>4, <1>7, <1>8 DEF A, B

\* Looking at the first item.
LEMMA FrameTail ==
  ASSUME NEW s \in Seq(Items), s # <<>>, NEW p, OneFrame(s, p)
  PROVE  /\ OneFrame(Tail(s), p)
         /\ Ends(Tail(s)) # {} => Ends(s) # {}
         /\ Head(s).c = "checksum" => Ends(s) # {} /\ Ends(Tail(s)) = {}
         /\ Head(s).c # "checksum" /\ Ends(s) # {} => Ends(Tail(s)) # {}
         /\ Head(s).c \in {"$", "body"} => Unfinished(Tail(s)) /\ Ends(Tail(s)) # {}
         /\ Unfinished(s) /\ Head(s).c # "#" => Head(s).c # "checksum" /\ Unfinished(Tail(s))
         /\ Head(s).c = "body" => Head(s).p = p
<1> DEFINE t == Tail(s)
<1>1. /\ Len(s) \in Nat \ {0} /\ DOMAIN s = 1 .. Len(s)
      /\ DOMAIN t = 1 .. (Len(s) - 1)
      /\ Head(s) = s[1] /\ \A i \in DOMAIN t : t[i] = s[i + 1]
  BY EmptySeq, LenProperties, HeadTailProperties
<1>2. \A i \in DOMAIN t : i + 1 \in DOMAIN s
  BY <1>1
<1>3. \A i \in DOMAIN s : i # 1 => i - 1 \in DOMAIN t /\ s[i] = t[i - 1]
  BY <1>1
<1> HIDE DEF t
<1>4. \A i \in Ends(t) : i + 1 \in Ends(s)
  BY <1>1, <1>2 DEF Ends
<1>5. \A i \in Ends(s) : i # 1 => i - 1 \in Ends(t)
  BY <1>1, <1>3 DEF Ends
<1>6. \A i \in Ends(s) \cup Marks(s) : i \in Nat
  BY <1>1 DEF Ends, Marks
<1>m. \A i \in Marks(s) : i # 1 => i - 1 \in Marks(t)
  BY <1>1, <1>3 DEF Marks
<1>7. \A i \in Ends(t) : i \in Nat /\ i > 0
  BY <1>1 DEF Ends
<1>8. \A i, j \in Ends(t) : i = j
  BY <1>4, <1>7 DEF OneFrame
<1>9. ASSUME NEW i \in DOMAIN t
      PROVE  /\ t[i].c \in {"$", "body"} => \E k \in Marks(t), j \in Ends(t) : i < k /\ k < j
             /\ t[i].c = "body" => t[i].p = p
  <2>1. i + 1 \in DOMAIN s /\ t[i] = s[i + 1] /\ i \in Nat /\ i > 0
    BY <1>1, <1>2
  <2>2. t[i].c = "body" => t[i].p = p
    BY <2>1 DEF OneFrame
  <2>3. ASSUME t[i].c \in {"$", "body"}
        PROVE  \E k \in Marks(t), j \in Ends(t) : i < k /\ k < j
    <3>1. PICK k \in Marks(s), j \in Ends(s) : i + 1 < k /\ k < j
      BY <2>1, <2>3 DEF OneFrame
    <3>2. j # 1 /\ j \in Nat /\ k # 1 /\ k \in Nat
      BY <3>1, <2>1, <1>6
    <3>3. j - 1 \in Ends(t) /\ k - 1 \in Marks(t) /\ i < k - 1 /\ k - 1 < j - 1
      BY <3>1, <3>2, <2>1, <1>5, <1>m
    <3> QED BY <3>3
  <2> QED BY <2>2, <2>3
<1>10. OneFrame(t, p)
  BY <1>8, <1>9 DEF OneFrame
<1>11. 1 \in DOMAIN s
  BY <1>1
<1>12. Head(s).c = "checksum" => Ends(s) # {} /\ Ends(t) = {}
  <2> SUFFICES ASSUME Head(s).c = "checksum" PROVE Ends(s) # {} /\ Ends(t) = {}
    OBVIOUS
  <2>1. 1 \in Ends(s)
    BY <1>1, <1>11 DEF Ends
  <2>2. \A i \in Ends(t) : i + 1 = 1 /\ i > 0 /\ i \in Nat
    BY <2>1, <1>4, <1>7 DEF OneFrame
  <2> QED BY <2>1, <2>2
<1>13. Head(s).c # "checksum" /\ Ends(s) # {} => Ends(t) # {}
  <2> SUFFICES ASSUME Head(s).c # "checksum", NEW i \in Ends(s) PROVE Ends(t) # {}
    OBVIOUS
  <2>1. i # 1
    BY <1>1 DEF Ends
  <2> QED BY <2>1, <1>5
<1>14. Head(s).c \in {"$", "body"} => Unfinished(t) /\ Ends(t) # {}
  <2> SUFFICES ASSUME Head(s).c \in {"$", "body"} PROVE Unfinished(t) /\ Ends(t) # {}
    OBVIOUS
  <2>1. PICK k \in Marks(s), j \in Ends(s) : 1 < k /\ k < j
    BY <1>1, <1>11 DEF OneFrame
  <2>2. k - 1 \in Marks(t) /\ j - 1 \in Ends(t) /\ k - 1 < j - 1
    BY <2>1, <1>5, <1>6, <1>m
  <2> QED BY <2>2 DEF Unfinished
<1>u. Unfinished(s) /\ Head(s).c # "#" => Head(s).c # "checksum" /\ Unfinished(t)
  <2> SUFFICES ASSUME Unfinished(s), Head(s).c # "#"
               PROVE  Head(s).c # "checksum" /\ Unfinished(t)
    OBVIOUS
  <2>1. PICK k \in Marks(s), j \in Ends(s) : k < j
    BY DEF Unfinished
  <2>2. k # 1 /\ k \in Nat /\ j \in Nat /\ k > 0
    BY <1>1, <1>6 DEF Marks
  <2>3. k - 1 \in Marks(t) /\ j - 1 \in Ends(t) /\ k - 1 < j - 1 /\ j # 1
    BY <2>1, <2>2, <1>5, <1>m
  <2>4. 1 \notin Ends(s)
    BY <2>3 DEF OneFrame
  <2> QED BY <2>3, <2>4, <1>1, <1>11 DEF Unfinished, Ends
<1>15. Head(s).c = "body" => Head(s).p = p
  BY <1>1, <1>11 DEF OneFrame
<1>16. Ends(t) # {} => Ends(s) # {}
  BY <1>4
<1> QED BY <1>10, <1>12, <1>13, <1>14, <1>15, <1>16, <1>u DEF t

\* gdb sends something that is not part of a frame.
LEMMA FrameAppend ==
  ASSUME NEW s \in Seq(Items), NEW p, OneFrame(s, p),
         NEW e \in Items, e.c \in {"+", "^C"}
  PROVE  /\ OneFrame(Append(s, e), p) /\ Ends(Append(s, e)) = Ends(s)
         /\ Unfinished(Append(s, e)) <=> Unfinished(s)
<1> DEFINE t == Append(s, e)
<1>1. /\ Len(s) \in Nat /\ DOMAIN s = 1 .. Len(s)
      /\ DOMAIN t = 1 .. (Len(s) + 1)
      /\ \A i \in DOMAIN s : i \in DOMAIN t /\ t[i] = s[i]
      /\ t[Len(s) + 1] = e
  BY LenProperties, AppendProperties
<1> HIDE DEF t
<1>2. \A i \in DOMAIN t : i \in DOMAIN s \/ t[i] = e
  BY <1>1
<1>3. Ends(t) = Ends(s)
  BY <1>1, <1>2 DEF Ends
<1>5. Marks(t) = Marks(s)
  BY <1>1, <1>2 DEF Marks
<1>4. OneFrame(t, p)
  BY <1>1, <1>2, <1>3, <1>5 DEF OneFrame
<1>6. Unfinished(t) <=> Unfinished(s)
  BY <1>3, <1>5 DEF Unfinished
<1> QED BY <1>3, <1>4, <1>6 DEF t

\* Without a frame the packet does not matter.
LEMMA NoFrame ==
  ASSUME NEW s, NEW p, NEW q, OneFrame(s, p), Ends(s) = {}
  PROVE  OneFrame(s, q)
BY DEF OneFrame

\* gdb sends a packet.
LEMMA FrameSend ==
  ASSUME NEW s \in Seq(Items), NEW q, OneFrame(s, q), Ends(s) = {},
         NEW p \in Requests
  PROVE  /\ s \o Framed(p) \in Seq(Items)
         /\ OneFrame(s \o Framed(p), p) /\ Ends(s \o Framed(p)) # {}
<1> DEFINE f == Framed(p)
           t == s \o f
<1>0. /\ NoPacket \in Requests
      /\ \A c \in Signs, q1 \in Requests : Item(c, q1) \in Items
  BY DEF Item, Items, Requests
<1>a. /\ Item("$", NoPacket) \in Items /\ Item("body", p) \in Items
      /\ Item("#", NoPacket) \in Items /\ Item("checksum", NoPacket) \in Items
  BY <1>0 DEF Signs
<1>1. /\ f \in Seq(Items) /\ Len(f) = 4
      /\ f[1] = Item("$", NoPacket) /\ f[2] = Item("body", p)
      /\ f[3] = Item("#", NoPacket) /\ f[4] = Item("checksum", NoPacket)
  BY <1>a DEF Framed
<1> HIDE DEF f
<1>b. /\ Len(s) \in Nat /\ DOMAIN s = 1 .. Len(s)
  BY LenProperties
<1>c. /\ t \in Seq(Items) /\ Len(t) = Len(s) + 4
      /\ \A i \in 1 .. (Len(s) + 4) : t[i] = IF i <= Len(s) THEN s[i] ELSE f[i - Len(s)]
  <2>1. /\ t \in Seq(Items) /\ Len(t) = Len(s) + Len(f)
        /\ \A i \in 1 .. (Len(s) + Len(f)) : t[i] = IF i <= Len(s) THEN s[i] ELSE f[i - Len(s)]
    BY <1>1, ConcatProperties
  <2> QED BY <2>1, <1>1, <1>b
<1> HIDE DEF t
<1>2. /\ Len(s) \in Nat /\ DOMAIN s = 1 .. Len(s) /\ t \in Seq(Items)
      /\ DOMAIN t = 1 .. (Len(s) + 4)
      /\ \A i \in 1 .. (Len(s) + 4) : t[i] = IF i <= Len(s) THEN s[i] ELSE f[i - Len(s)]
  BY <1>b, <1>c, LenProperties
<1> HIDE DEF t
<1> DEFINE n == Len(s)
<1>3. /\ \A i \in DOMAIN s : i \in DOMAIN t /\ t[i] = s[i]
      /\ t[n + 1] = Item("$", NoPacket) /\ t[n + 2] = Item("body", p)
      /\ t[n + 3] = Item("#", NoPacket) /\ t[n + 4] = Item("checksum", NoPacket)
      /\ \A i \in DOMAIN t : i \in DOMAIN s \/ i \in {n + 1, n + 2, n + 3, n + 4}
      /\ n + 4 \in DOMAIN t
  <2>1. /\ n \in Nat /\ \A i \in DOMAIN s : i \in 1 .. (n + 4) /\ i <= n
        /\ \A i \in 1 .. (n + 4) : i \in DOMAIN s \/ i \in {n + 1, n + 2, n + 3, n + 4}
        /\ n + 1 \in 1 .. (n + 4) /\ n + 2 \in 1 .. (n + 4)
        /\ n + 3 \in 1 .. (n + 4) /\ n + 4 \in 1 .. (n + 4)
    BY <1>2
  <2>2. t[n + 1] = f[1] /\ t[n + 2] = f[2] /\ t[n + 3] = f[3] /\ t[n + 4] = f[4]
    BY <2>1, <1>2
  <2>3. \A i \in DOMAIN s : t[i] = s[i]
    BY <2>1, <1>2
  <2> QED BY <1>1, <1>2, <2>1, <2>2, <2>3
<1>4. Ends(t) = {n + 4}
  BY <1>2, <1>3 DEF Ends, Item
<1>m. n + 3 \in Marks(t) /\ n + 4 \in Ends(t) /\ n + 3 < n + 4
  BY <1>2, <1>3, <1>4 DEF Item, Marks
<1>5. ASSUME NEW i \in DOMAIN t
      PROVE  /\ t[i].c \in {"$", "body"} => \E k \in Marks(t), j \in Ends(t) : i < k /\ k < j
             /\ t[i].c = "body" => t[i].p = p
  <2>1. CASE i \in DOMAIN s
    BY <2>1, <1>3 DEF OneFrame
  <2>2. CASE i \in {n + 1, n + 2}
    <3>1. i < n + 3
      BY <2>2, <1>2
    <3>2. t[i].c = "body" => t[i].p = p
      BY <2>2, <1>2, <1>3 DEF Item
    <3> QED BY <3>1, <3>2, <1>m
  <2>3. CASE i \in {n + 3, n + 4}
    BY <2>3, <1>2, <1>3 DEF Item
  <2> QED BY <2>1, <2>2, <2>3, <1>3
<1> QED BY <1>2, <1>4, <1>5 DEF OneFrame, f, t

\* gdb takes an answer.
LEMMA ResultTail ==
  ASSUME NEW s \in Seq(Sayings), s # <<>>, OneResult(s)
  PROVE  /\ OneResult(Tail(s)) /\ Results(Tail(s)) \subseteq Results(s)
         /\ Head(s) # "+" => Results(Tail(s)) = {} /\ Head(s) \in Results(s)
<1> DEFINE t == Tail(s)
<1>1. /\ Len(s) \in Nat \ {0} /\ DOMAIN s = 1 .. Len(s)
      /\ DOMAIN t = 1 .. (Len(s) - 1)
      /\ Head(s) = s[1] /\ \A i \in DOMAIN t : t[i] = s[i + 1]
  BY EmptySeq, LenProperties, HeadTailProperties
<1>2. /\ \A i \in DOMAIN t : i + 1 \in DOMAIN s /\ i \in Nat /\ i + 1 # 1
      /\ 1 \in DOMAIN s
  BY <1>1
<1> HIDE DEF t
<1>3. OneResult(t)
  BY <1>1, <1>2 DEF OneResult
<1>4. Results(t) \subseteq Results(s)
  BY <1>1, <1>2 DEF Results
<1>5. Head(s) # "+" => Results(t) = {} /\ Head(s) \in Results(s)
  BY <1>1, <1>2 DEF Results, OneResult
<1> QED BY <1>3, <1>4, <1>5 DEF t

\* rvd answers a packet, or acknowledges it.
LEMMA ResultAdd ==
  ASSUME NEW s \in Seq(Sayings), Results(s) = {}, NEW r \in Sayings
  PROVE  /\ OneResult(s \o <<"+", r>>) /\ Results(s \o <<"+", r>>) = {r} \ {"+"}
         /\ OneResult(Append(s, r)) /\ Results(Append(s, r)) = {r} \ {"+"}
<1> DEFINE f == <<"+", r>>
           t == s \o f
           u == Append(s, r)
           n == Len(s)
<1>0. f \in Seq(Sayings) /\ Len(f) = 2 /\ f[1] = "+" /\ f[2] = r
  <2>1. "+" \in Sayings
    BY DEF Sayings
  <2> QED BY <2>1
<1> HIDE DEF f
<1>1. /\ n \in Nat /\ DOMAIN s = 1 .. n
      /\ DOMAIN t = 1 .. (n + 2)
      /\ \A i \in 1 .. (n + 2) : t[i] = IF i <= n THEN s[i] ELSE f[i - n]
  BY <1>0, LenProperties, ConcatProperties
<1>2. /\ DOMAIN u = 1 .. (n + 1)
      /\ \A i \in DOMAIN s : u[i] = s[i]
      /\ u[n + 1] = r
  <2>1. /\ u \in Seq(Sayings) /\ Len(u) = n + 1
        /\ \A i \in 1 .. n : u[i] = s[i]
        /\ u[n + 1] = r
    BY AppendProperties
  <2> QED BY <2>1, <1>1, LenProperties
<1> HIDE DEF t, u
<1>3. \A i \in DOMAIN s : s[i] = "+"
  BY DEF Results
<1>4. /\ \A i \in DOMAIN t : i = n + 2 \/ t[i] = "+"
      /\ n + 2 \in DOMAIN t /\ t[n + 2] = r
  BY <1>0, <1>1, <1>3
<1>5. /\ \A i \in DOMAIN u : i = n + 1 \/ u[i] = "+"
      /\ n + 1 \in DOMAIN u /\ u[n + 1] = r
  BY <1>1, <1>2, <1>3
<1>6. OneResult(t) /\ OneResult(u)
  BY <1>4, <1>5 DEF OneResult
<1>7. Results(t) = {r} \ {"+"} /\ Results(u) = {r} \ {"+"}
  BY <1>4, <1>5 DEF Results
<1> QED BY <1>6, <1>7 DEF t, u, f

\* What rvd has not written yet may be lost.
LEMMA ResultPrefix ==
  ASSUME NEW s \in Seq(Sayings), NEW t \in Seq(Sayings), OneResult(s \o t)
  PROVE  OneResult(s) /\ Results(s) \subseteq Results(s \o t)
<1> DEFINE u == s \o t
<1>1. \A i \in DOMAIN s : i \in DOMAIN u /\ u[i] = s[i]
  BY LenProperties, ConcatProperties
<1> HIDE DEF u
<1>2. OneResult(s)
  BY <1>1 DEF OneResult, u
<1>3. Results(s) \subseteq Results(u)
  BY <1>1 DEF Results
<1> QED BY <1>2, <1>3 DEF u

-----------------------------------------------------------------------------
(* The registry.                                                            *)

\* A non-empty set of naturals has a least element.
LEMMA Least ==
  ASSUME NEW S \in SUBSET Nat, S # {}
  PROVE  \E n \in S : \A k \in S : n <= k
<1> DEFINE R == OpToRel(<, Nat)
<1>1. IsWellFoundedOn(R, Nat)
  BY NatLessThanWellFounded
<1>2. \A x, y \in Nat : y < x => <<y, x>> \in R
  BY DEF OpToRel
<1> HIDE DEF R
<1>3. PICK x \in S : \A y \in S : <<y, x>> \notin R
  BY <1>1, WFMin
<1>4. \A y \in S : x \in Nat /\ y \in Nat /\ ~(y < x)
  BY <1>2, <1>3
<1>5. \A y \in S : x <= y
  BY <1>4
<1> QED BY <1>5

\* The slot that is taken is free.
LEMMA SlotFree ==
  ASSUME RegistryTypes, FirstFree # 0
  PROVE  FirstFree \in DOMAIN slots /\ ~slots[FirstFree].active
<1> DEFINE S == {i \in DOMAIN slots : ~slots[i].active}
<1>1. S \in SUBSET Nat
  BY SlotAssumption DEF RegistryTypes
<1>2. \E i \in DOMAIN slots : ~slots[i].active
  BY DEF FirstFree
<1>3. \E i \in S : \A j \in S : i <= j
  BY <1>1, <1>2, Least
<1>4. \E i \in DOMAIN slots : ~slots[i].active /\ \A j \in DOMAIN slots : ~slots[j].active => i <= j
  BY <1>3
<1> QED BY <1>2, <1>4 DEF FirstFree

\* The slot that is found is one of the breakpoint's.
LEMMA SlotFound ==
  ASSUME RegistryTypes, NEW type, NEW a, Matching(type, a) # 0
  PROVE  LET i == Matching(type, a)
         IN i \in DOMAIN slots /\ slots[i].active /\ slots[i].type = type /\ slots[i].a = a
<1> DEFINE S == {i \in DOMAIN slots : slots[i].active /\ slots[i].type = type /\ slots[i].a = a}
<1>1. S \in SUBSET Nat
  BY SlotAssumption DEF RegistryTypes
<1>2. S # {}
  BY DEF Matching
<1>3. \E i \in S : \A j \in S : i <= j
  BY <1>1, <1>2, Least
<1>4. Matching(type, a) = CHOOSE i \in S : \A j \in S : i <= j
  BY <1>2 DEF Matching
<1>5. Matching(type, a) \in S
  BY <1>3, <1>4
<1> QED BY <1>5

\* Nothing is found when there is nothing.
LEMMA SlotMissing ==
  ASSUME RegistryTypes, NEW type, NEW a, Matching(type, a) = 0
  PROVE  \A i \in DOMAIN slots : ~(slots[i].active /\ slots[i].type = type /\ slots[i].a = a)
<1> DEFINE S == {i \in DOMAIN slots : slots[i].active /\ slots[i].type = type /\ slots[i].a = a}
<1>1. S \in SUBSET Nat /\ 0 \notin S
  BY SlotAssumption DEF RegistryTypes
<1>2. S = {} \/ \E i \in S : \A j \in S : i <= j
  BY <1>1, Least
<1>3. S # {} => Matching(type, a) = CHOOSE i \in S : \A j \in S : i <= j
  BY DEF Matching
<1>4. S # {} => Matching(type, a) \in S
  BY <1>2, <1>3
<1>5. S = {}
  BY <1>1, <1>4
<1> QED BY <1>5

\* The index that is handed out is free.
LEMMA IndexFree ==
  ASSUME ~(HwIndices \subseteq inUse)
  PROVE  FreeIndex(inUse) \in HwIndices \ inUse
<1> DEFINE S == HwIndices \ inUse
<1>1. S \in SUBSET Nat /\ S # {}
  BY UnitAssumption
<1>2. \E x \in S : \A y \in S : x <= y
  BY <1>1, Least
<1> QED BY <1>2 DEF FreeIndex

\* A step that does not touch the target.
LEMMA RegistryKept ==
  ASSUME Registry, UNCHANGED <<mem, text, slots, inUse, hw>>
  PROVE  /\ Registry' /\ hw' = hw
         /\ \A c \in Addresses : Installed(c)' <=> Installed(c)
         /\ \A b \in Breaks : InPlace(b)' <=> InPlace(b)
<1>1. RegistryTypes'
  BY DEF Registry, RegistryTypes
<1>2. SoftwareSound'
  BY DEF Registry, SoftwareSound, Software, Installed
<1>3. HardwareSound'
  BY DEF Registry, HardwareSound, Hardware
<1>4. \A c \in Addresses : Installed(c)' <=> Installed(c)
  BY DEF Installed, Software
<1>5. \A b \in Breaks : InPlace(b)' <=> InPlace(b)
  BY DEF InPlace, Installed, Software
<1> QED BY <1>1, <1>2, <1>3, <1>4, <1>5 DEF Registry

\* A slot that is taken for a software breakpoint.
LEMMA SoftwareSet ==
  ASSUME Registry, NEW a \in Addresses, ~Installed(a), FirstFree # 0, SetSoftware(a),
         text' = text
  PROVE  /\ Registry'
         /\ \A c \in Addresses : c # a => (Installed(c)' <=> Installed(c))
         /\ Installed(a)' <=> a \notin Faulty
         /\ hw' = hw
<1>f. PICK f : f = FirstFree
  OBVIOUS
<1> DEFINE new == [slots[f] EXCEPT !.active = TRUE, !.type = 0, !.a = a,
                                   !.data = IF a \in Unreadable THEN slots[f].data ELSE mem[a]]
<1>1. f \in DOMAIN slots /\ ~slots[f].active /\ DOMAIN slots = 1 .. MaxBreakpoints
      /\ slots[f] \in Slots
  BY <1>f, SlotFree DEF Registry, RegistryTypes
<1>2. slots' = [slots EXCEPT ![f] = new]
  BY <1>f DEF SetSoftware
<1>3. /\ new \in Slots /\ new.active /\ new.type = 0 /\ new.a = a
      /\ a \notin Faulty => new.data = mem[a]
  <2>1. 0 \in Types /\ mem[a] \in Words /\ (a \notin Faulty => a \notin Unreadable)
    BY DEF Types, Faulty, Registry, RegistryTypes
  <2>2. (IF a \in Unreadable THEN slots[f].data ELSE mem[a]) \in Words
    BY <1>1, <2>1 DEF Slots
  <2> QED BY <1>1, <2>1, <2>2 DEF Slots
<1> HIDE DEF new
<1>4. /\ DOMAIN slots' = DOMAIN slots /\ slots'[f] = new
      /\ \A i \in DOMAIN slots : i # f => slots'[i] = slots[i]
  BY <1>1, <1>2 DEF Registry, RegistryTypes
<1>5. slots' \in [1 .. MaxBreakpoints -> Slots]
  BY <1>1, <1>2, <1>3 DEF Registry, RegistryTypes
<1>6. \A i \in DOMAIN slots, c \in Addresses :
        Software(i, c)' <=> (i = f /\ c = a) \/ Software(i, c)
  BY <1>1, <1>3, <1>4 DEF Software
<1>7. \A i \in DOMAIN slots, u \in HwIndices : Hardware(i, u)' <=> Hardware(i, u)
  BY <1>1, <1>3, <1>4 DEF Hardware
<1>8. /\ mem' \in [Addresses -> Words]
      /\ \A c \in Addresses : c # a \/ a \in Faulty => mem'[c] = mem[c]
      /\ a \notin Faulty => mem'[a] = "brk"
      /\ inUse' = inUse /\ hw' = hw
  BY DEF SetSoftware, Registry, RegistryTypes, Words
<1>9. RegistryTypes'
  BY <1>5, <1>8 DEF Registry, RegistryTypes
<1>10. \A c \in Addresses : Installed(c)' <=> (c = a /\ a \notin Faulty) \/ Installed(c)
  BY <1>1, <1>4, <1>6 DEF Installed
<1>11. \A c \in Addresses \ Faulty : \A i \in DOMAIN slots : Software(i, c) => c # a /\ i # f
  BY <1>1 DEF Installed, Software
<1>12. SoftwareSound'
  <2>1. \A c \in Addresses \ Faulty : \A i, j \in DOMAIN slots :
          Software(i, c)' /\ Software(j, c)' => i = j
    BY <1>6, <1>11 DEF Registry, SoftwareSound
  <2>2. ASSUME NEW c \in Addresses \ Faulty, NEW i \in DOMAIN slots, Software(i, c)'
        PROVE  slots'[i].data = text[c] /\ mem'[c] = "brk"
    <3>1. CASE i = f /\ c = a
      <4>1. mem[a] = text[a]
        BY DEF Registry, SoftwareSound
      <4> QED BY <3>1, <4>1, <1>3, <1>4, <1>8
    <3>2. CASE Software(i, c)
      BY <3>2, <1>4, <1>8, <1>11 DEF Registry, SoftwareSound
    <3> QED BY <2>2, <3>1, <3>2, <1>6
  <2>3. \A c \in Addresses : ~Installed(c)' => mem'[c] = text[c]
    BY <1>8, <1>10 DEF Registry, SoftwareSound
  <2> QED BY <2>1, <2>2, <2>3, <1>4 DEF SoftwareSound
<1>13. HardwareSound'
  <2>1. \A u \in HwUnits : u \in HwIndices
    BY UnitAssumption
  <2>2. \A i \in DOMAIN slots, u \in HwIndices :
          Hardware(i, u) => slots'[i].a = slots[i].a /\ slots'[i].type = slots[i].type
    BY <1>1, <1>4 DEF Hardware
  <2> QED BY <2>1, <2>2, <1>4, <1>7, <1>8 DEF Registry, HardwareSound
<1> QED BY <1>8, <1>9, <1>10, <1>12, <1>13 DEF Registry

\* A slot and an index that are taken for a hardware breakpoint.
LEMMA HardwareSet ==
  ASSUME Registry, NEW type \in Types \ {0}, NEW a \in Addresses,
         FirstFree # 0, ~(HwIndices \subseteq inUse),
         SetHardware(type, a), text' = text
  PROVE  /\ Registry'
         /\ \A c \in Addresses : Installed(c)' <=> Installed(c)
         /\ \A u \in HwUnits : hw[u].type # 0 => hw'[u] = hw[u]
         /\ FreeIndex(inUse) \in HwUnits => \E u \in HwUnits : hw'[u] = [type |-> type, a |-> a]
<1>f. PICK f, x : f = FirstFree /\ x = FreeIndex(inUse)
  OBVIOUS
<1> DEFINE new == [slots[f] EXCEPT !.active = TRUE, !.type = type, !.a = a, !.index = x]
<1>1. f \in DOMAIN slots /\ ~slots[f].active /\ DOMAIN slots = 1 .. MaxBreakpoints
      /\ slots[f] \in Slots
  BY <1>f, SlotFree DEF Registry, RegistryTypes
<1>2. slots' = [slots EXCEPT ![f] = new]
  BY <1>f DEF SetHardware
<1>x. x \in HwIndices \ inUse
  BY <1>f, IndexFree
<1>8. /\ inUse' = inUse \cup {x} /\ mem' = mem
      /\ hw' = IF x \in HwUnits THEN [hw EXCEPT ![x] = [type |-> type, a |-> a]] ELSE hw
  BY <1>f DEF SetHardware
<1>3. new \in Slots /\ new.active /\ new.type = type /\ new.a = a /\ new.index = x
  BY <1>1, <1>x DEF Slots, Registry, RegistryTypes
<1> HIDE DEF new
<1>4. /\ DOMAIN slots' = DOMAIN slots /\ slots'[f] = new
      /\ \A i \in DOMAIN slots : i # f => slots'[i] = slots[i]
  BY <1>1, <1>2 DEF Registry, RegistryTypes
<1>5. slots' \in [1 .. MaxBreakpoints -> Slots]
  BY <1>1, <1>2, <1>3 DEF Registry, RegistryTypes
<1>6. \A i \in DOMAIN slots, c \in Addresses : Software(i, c)' <=> Software(i, c)
  BY <1>1, <1>3, <1>4 DEF Software
<1>7. \A i \in DOMAIN slots, u \in HwIndices :
        Hardware(i, u)' <=> (i = f /\ u = x) \/ Hardware(i, u)
  BY <1>1, <1>3, <1>4 DEF Hardware
<1>9. RegistryTypes'
  <2>1. hw' \in [HwUnits -> [type : Types, a : Addresses \cup {0}]]
    BY <1>8 DEF Registry, RegistryTypes
  <2> QED BY <1>5, <1>8, <1>x, <2>1 DEF Registry, RegistryTypes
<1>10. \A c \in Addresses : Installed(c)' <=> Installed(c)
  BY <1>4, <1>6 DEF Installed
<1>11. SoftwareSound'
  <2>1. \A i \in DOMAIN slots, c \in Addresses : Software(i, c) => slots'[i].data = slots[i].data
    BY <1>1, <1>4 DEF Software
  <2> QED BY <2>1, <1>4, <1>6, <1>8, <1>10 DEF Registry, SoftwareSound
<1>12. \A i \in DOMAIN slots, u \in HwIndices : Hardware(i, u) => u # x /\ i # f
  BY <1>1, <1>x DEF Registry, HardwareSound, Hardware
<1>13. HardwareSound'
  <2>1. \A u \in HwIndices : \A i, j \in DOMAIN slots : Hardware(i, u)' /\ Hardware(j, u)' => i = j
    BY <1>7, <1>12 DEF Registry, HardwareSound
  <2>2. \A u \in HwIndices : \A i \in DOMAIN slots : Hardware(i, u)' => u \in inUse'
    BY <1>7, <1>8 DEF Registry, HardwareSound
  <2>3. ASSUME NEW u \in HwUnits, hw'[u].type # 0
        PROVE  \E i \in DOMAIN slots : Hardware(i, u)' /\ slots'[i].type = hw'[u].type /\ slots'[i].a = hw'[u].a
    <3>0. u \in HwIndices
      BY UnitAssumption
    <3>1. CASE u = x
      <4>1. Hardware(f, u)' /\ slots'[f].a = a /\ slots'[f].type = type
        BY <3>0, <3>1, <1>1, <1>3, <1>4, <1>7
      <4>2. hw'[u].a = a /\ hw'[u].type = type
        BY <3>1, <1>8 DEF Registry, RegistryTypes
      <4> QED BY <4>1, <4>2, <1>1
    <3>2. CASE u # x
      <4>1. hw'[u] = hw[u]
        BY <3>2, <1>8 DEF Registry, RegistryTypes
      <4>2. PICK i \in DOMAIN slots : Hardware(i, u) /\ slots[i].type = hw[u].type /\ slots[i].a = hw[u].a
        BY <2>3, <4>1 DEF Registry, HardwareSound
      <4> QED BY <3>0, <4>1, <4>2, <1>4, <1>7, <1>12
    <3> QED BY <3>1, <3>2
  <2> QED BY <2>1, <2>2, <2>3, <1>4 DEF HardwareSound
<1>14. ASSUME NEW u \in HwUnits, hw[u].type # 0
       PROVE  hw'[u] = hw[u]
  <2>1. u \in HwIndices /\ u # x
    BY <1>12, <1>14, UnitAssumption DEF Registry, HardwareSound
  <2> QED BY <2>1, <1>8 DEF Registry, RegistryTypes
<1>15. x \in HwUnits => \E u \in HwUnits : hw'[u] = [type |-> type, a |-> a]
  BY <1>8 DEF Registry, RegistryTypes
<1> QED BY <1>f, <1>9, <1>10, <1>11, <1>13, <1>14, <1>15 DEF Registry

\* A software breakpoint that is taken away.
LEMMA SoftwareRemoved ==
  ASSUME Registry, NEW a \in Addresses \ Faulty, Matching(0, a) # 0,
         RemoveSoftware(Matching(0, a)), text' = text
  PROVE  /\ Registry'
         /\ \A c \in Addresses : Installed(c)' <=> c # a /\ Installed(c)
         /\ hw' = hw /\ tx' = tx \o <<"+", "OK">>
<1>f. PICK f : f = Matching(0, a)
  OBVIOUS
<1>1. /\ f \in DOMAIN slots /\ slots[f].active /\ slots[f].type = 0 /\ slots[f].a = a
      /\ DOMAIN slots = 1 .. MaxBreakpoints /\ slots[f] \in Slots
  BY <1>f, SlotFound DEF Registry, RegistryTypes
<1>2. /\ mem' = [mem EXCEPT ![a] = slots[f].data] /\ slots' = Freed(f)
      /\ inUse' = inUse /\ hw' = hw /\ tx' = tx \o <<"+", "OK">>
  BY <1>f, <1>1 DEF RemoveSoftware, Replies, Faulty
<1> DEFINE new == [slots[f] EXCEPT !.active = FALSE]
<1>3. slots' = [slots EXCEPT ![f] = new]
  BY <1>2 DEF Freed
<1>4. new \in Slots /\ ~new.active
  BY <1>1 DEF Slots
<1> HIDE DEF new
<1>5. /\ DOMAIN slots' = DOMAIN slots /\ slots'[f] = new
      /\ \A i \in DOMAIN slots : i # f => slots'[i] = slots[i]
      /\ slots' \in [1 .. MaxBreakpoints -> Slots]
  BY <1>1, <1>3, <1>4 DEF Registry, RegistryTypes
<1>6. \A i \in DOMAIN slots, c \in Addresses : Software(i, c)' <=> i # f /\ Software(i, c)
  BY <1>1, <1>4, <1>5 DEF Software
<1>7. \A i \in DOMAIN slots, u \in HwIndices : Hardware(i, u)' <=> Hardware(i, u)
  BY <1>1, <1>4, <1>5 DEF Hardware
<1>8. Software(f, a) /\ slots[f].data = text[a] /\ slots[f].data \in Words
  BY <1>1 DEF Registry, SoftwareSound, Software, Slots
<1>9. \A i \in DOMAIN slots, c \in Addresses \ Faulty : Software(i, c) => (c = a <=> i = f)
  BY <1>1, <1>8 DEF Registry, SoftwareSound, Software
<1>10. \A c \in Addresses : Installed(c)' <=> c # a /\ Installed(c)
  BY <1>5, <1>6, <1>9 DEF Installed
<1>11. /\ mem' \in [Addresses -> Words] /\ mem'[a] = text[a]
       /\ \A c \in Addresses : c # a => mem'[c] = mem[c]
  BY <1>2, <1>8 DEF Registry, RegistryTypes
<1>12. RegistryTypes'
  BY <1>2, <1>5, <1>11 DEF Registry, RegistryTypes
<1>13. SoftwareSound'
  <2>1. \A c \in Addresses \ Faulty : \A i, j \in DOMAIN slots :
          Software(i, c)' /\ Software(j, c)' => i = j
    BY <1>6 DEF Registry, SoftwareSound
  <2>2. ASSUME NEW c \in Addresses \ Faulty, NEW i \in DOMAIN slots, Software(i, c)'
        PROVE  slots'[i].data = text[c] /\ mem'[c] = "brk"
    <3>1. Software(i, c) /\ i # f /\ c # a
      BY <2>2, <1>6, <1>9
    <3> QED BY <3>1, <1>5, <1>11 DEF Registry, SoftwareSound
  <2>3. \A c \in Addresses : ~Installed(c)' => mem'[c] = text[c]
    BY <1>10, <1>11 DEF Registry, SoftwareSound
  <2> QED BY <2>1, <2>2, <2>3, <1>5 DEF SoftwareSound
<1>14. HardwareSound'
  <2>1. \A u \in HwUnits : u \in HwIndices
    BY UnitAssumption
  <2>2. \A i \in DOMAIN slots, u \in HwIndices :
          Hardware(i, u) => slots'[i].a = slots[i].a /\ slots'[i].type = slots[i].type
    BY <1>1, <1>5 DEF Hardware
  <2> QED BY <2>1, <2>2, <1>2, <1>5, <1>7 DEF Registry, HardwareSound
<1> QED BY <1>2, <1>10, <1>12, <1>13, <1>14 DEF Registry

\* A hardware breakpoint that is taken away: one unit of the address is
\* switched off, the registry stays as it is.
LEMMA HardwareRemoved ==
  ASSUME Registry, NEW type \in Types \ {0}, NEW a \in Addresses, Matching(type, a) # 0,
         RemoveHardware(Matching(type, a)), text' = text
  PROVE  /\ Registry'
         /\ \A c \in Addresses : Installed(c)' <=> Installed(c)
         /\ \A u \in HwUnits : hw[u].type # 0 /\ hw[u] # [type |-> type, a |-> a] => hw'[u] = hw[u]
<1>f. PICK f : f = Matching(type, a)
  OBVIOUS
<1>1. /\ f \in DOMAIN slots /\ slots[f].active /\ slots[f].type = type /\ slots[f].a = a
      /\ slots[f] \in Slots
  BY <1>f, SlotFound DEF Registry, RegistryTypes
<1>x. PICK x : x = slots[f].index
  OBVIOUS
<1>2. /\ hw' = IF x \in HwUnits THEN [hw EXCEPT ![x] = [type |-> 0, a |-> a]] ELSE hw
      /\ slots' = slots /\ inUse' = inUse /\ mem' = mem
  BY <1>f, <1>x, <1>1 DEF RemoveHardware
<1>3. hw' \in [HwUnits -> [type : Types, a : Addresses \cup {0}]]
  BY <1>2 DEF Registry, RegistryTypes, Types
<1>4. RegistryTypes'
  BY <1>2, <1>3 DEF Registry, RegistryTypes
<1>5. \A c \in Addresses : Installed(c)' <=> Installed(c)
  BY <1>2 DEF Installed, Software
<1>6. SoftwareSound'
  BY <1>2, <1>5 DEF Registry, SoftwareSound, Software
<1>7. \A u \in HwUnits : hw'[u] = hw[u] \/ (u = x /\ hw'[u].type = 0)
  BY <1>2 DEF Registry, RegistryTypes
<1>8. HardwareSound'
  BY <1>2, <1>7 DEF Registry, HardwareSound, Hardware
<1>9. ASSUME NEW u \in HwUnits, hw[u].type # 0, hw[u] # [type |-> type, a |-> a]
      PROVE  hw'[u] = hw[u]
  <2>1. u \in HwIndices
    BY UnitAssumption
  <2>2. PICK j \in DOMAIN slots : Hardware(j, u) /\ slots[j].type = hw[u].type /\ slots[j].a = hw[u].a
    BY <1>9 DEF Registry, HardwareSound
  <2>3. u = x => Hardware(f, u)
    BY <1>1, <1>x DEF Hardware
  <2>4. u # x
    <3>1. u = x => hw[u].type = type /\ hw[u].a = a
      BY <2>1, <2>2, <2>3, <1>1 DEF Registry, HardwareSound
    <3>2. hw[u] \in [type : Types, a : Addresses \cup {0}]
      BY DEF Registry, RegistryTypes
    <3> QED BY <3>1, <3>2, <1>9
  <2> QED BY <2>4, <1>7
<1> QED BY <1>4, <1>5, <1>6, <1>8, <1>9 DEF Registry

\* gdb writes to memory where there is no software breakpoint.
LEMMA MemoryWritten ==
  ASSUME Registry, NEW a \in Addresses, ~Installed(a), UNCHANGED brkVars,
         mem' = [mem EXCEPT ![a] = "new"], text' = [text EXCEPT ![a] = "new"]
  PROVE  /\ Registry'
         /\ \A c \in Addresses : Installed(c)' <=> Installed(c)
         /\ hw' = hw
<1>1. slots' = slots /\ inUse' = inUse /\ hw' = hw
  BY DEF brkVars
<1>2. mem' \in [Addresses -> Words] /\ text' \in [Addresses -> {"old", "new"}]
  BY DEF Registry, RegistryTypes, Words
<1>3. RegistryTypes'
  BY <1>1, <1>2 DEF Registry, RegistryTypes
<1>4. \A c \in Addresses : Installed(c)' <=> Installed(c)
  BY <1>1 DEF Installed, Software
<1>5. /\ mem'[a] = text'[a]
      /\ \A c \in Addresses : c # a => mem'[c] = mem[c] /\ text'[c] = text[c]
  BY DEF Registry, RegistryTypes
<1>6. SoftwareSound'
  <2>1. \A i \in DOMAIN slots, c \in Addresses \ Faulty : Software(i, c) => c # a
    BY DEF Installed
  <2> QED BY <2>1, <1>1, <1>4, <1>5 DEF Registry, SoftwareSound, Software
<1>7. HardwareSound'
  BY <1>1 DEF Registry, HardwareSound, Hardware
<1> QED BY <1>1, <1>3, <1>4, <1>6, <1>7 DEF Registry

-----------------------------------------------------------------------------
(* What a breakpoint packet does to gdb's belief.                           *)

\* A packet about a breakpoint, and the breakpoint.
LEMMA PacketShape ==
  ASSUME NEW p \in Requests
  PROVE  /\ p.k \in {"Z", "z"} =>
              p.type \in Types /\ p.a \in Addresses /\ [type |-> p.type, a |-> p.a] \in Breaks
         /\ p.k = "M" => p.type = 0 /\ p.a \in Addresses /\ [type |-> 0, a |-> p.a] \in Breaks
         /\ p.k = "none" <=> p = NoPacket
         /\ \A b \in Breaks : Concerns(p, b) => b = [type |-> p.type, a |-> p.a]
<1>1. p \in Packets \/ p = NoPacket
  BY DEF Requests
<1>2. CASE p = NoPacket
  BY <1>2 DEF NoPacket, Concerns
<1>3. CASE p \in Packets
  <2>1. p.k # "none" /\ p # NoPacket
    BY <1>3 DEF Packets, NoPacket
  <2>2. /\ p.k \in {"Z", "z"} => p.type \in Types /\ p.a \in Addresses
        /\ p.k = "M" => p.type = 0 /\ p.a \in Addresses
    BY <1>3 DEF Packets
  <2>3. \A b \in Breaks : Concerns(p, b) => b = [type |-> p.type, a |-> p.a]
    BY DEF Breaks, Concerns
  <2> QED BY <2>1, <2>2, <2>3 DEF Breaks, Types
<1> QED BY <1>1, <1>2, <1>3

\* The answer to a packet that sets or removes a breakpoint says what happened
\* to it, and nothing happened to the others.
LEMMA BreakpointHandled ==
  ASSUME Registry, asked \in Requests, asked.k \in {"Z", "z"}, held \subseteq Breaks,
         \A b \in Breaks : Matches(b, b \in held),
         \A b \in Breaks : Concerns(asked, b) => (asked.k = "Z" <=> b \notin held),
         gdb_breakpoint(asked), UNCHANGED <<text, asked, held>>
  PROVE  /\ Registry'
         /\ \E r \in {"OK", "E06"} :
              /\ tx' = tx \o <<"+", r>>
              /\ \A b \in Breaks :
                   /\ ~Concerns(asked, b) => Matches(b, b \in held)'
                   /\ Concerns(asked, b) => Matches(b, IF r = "OK" THEN asked.k = "Z" ELSE b \in held)'
<1> DEFINE a == asked.a
           me == [type |-> asked.type, a |-> a]
<1>0. /\ a \in Addresses /\ asked.type \in Types /\ me \in Breaks
      /\ me.type = asked.type /\ me.a = a /\ Concerns(asked, me)
      /\ \A b \in Breaks : Concerns(asked, b) => b = me
  BY PacketShape DEF Concerns
<1>1. /\ asked' = asked /\ held' = held /\ text' = text
      /\ \A b \in Breaks : b.a \in Addresses /\ b.type \in Types
  BY DEF Breaks
<1>2. CASE Unchanged
  <2>1. UNCHANGED <<slots, inUse, hw, mem>> /\ tx' = tx \o <<"+", "E06">>
    BY <1>2 DEF Unchanged, Replies
  <2>2. Registry'
    BY <1>1, <2>1, RegistryKept
  <2>3. \A b \in Breaks : InPlace(b)' <=> InPlace(b)
    BY <2>1 DEF InPlace, Installed, Software
  <2>4. \A b \in Breaks : Matches(b, b \in held)'
    BY <1>1, <2>3 DEF Matches
  <2> QED BY <2>1, <2>2, <2>4
<1>3. CASE asked.k = "Z" /\ asked.type = 0 /\ FirstFree # 0 /\ SetSoftware(a)
  <2>1. me \notin held /\ ~InPlace(me) /\ ~Installed(a)
    BY <1>0, <1>3 DEF Matches, InPlace
  <2>2. /\ Registry' /\ hw' = hw
        /\ \A c \in Addresses : c # a => (Installed(c)' <=> Installed(c))
        /\ Installed(a)' <=> a \notin Faulty
    BY <1>0, <1>1, <1>3, <2>1, SoftwareSet
  <2>3. PICK r : r = IF a \in Faulty THEN "E06" ELSE "OK"
    OBVIOUS
  <2>4. r \in {"OK", "E06"} /\ tx' = tx \o <<"+", r>>
    BY <1>3, <2>3 DEF SetSoftware, Replies
  <2>5. ASSUME NEW b \in Breaks, ~Concerns(asked, b)
        PROVE  Matches(b, b \in held)'
    <3>1. b.type # 0 \/ b.a # a
      BY <1>3, <2>5 DEF Concerns
    <3>2. InPlace(b)' <=> InPlace(b)
      BY <1>1, <2>2, <3>1 DEF InPlace
    <3> QED BY <1>1, <3>2 DEF Matches
  <2>6. ASSUME NEW b \in Breaks, Concerns(asked, b)
        PROVE  Matches(b, IF r = "OK" THEN asked.k = "Z" ELSE b \in held)'
    <3>1. b = me /\ b.type = 0 /\ b.a = a
      BY <1>0, <1>3, <2>6
    <3>2. InPlace(b)' <=> r = "OK"
      BY <2>2, <2>3, <3>1 DEF InPlace
    <3> QED BY <1>1, <1>3, <2>1, <3>1, <3>2 DEF Matches
  <2> QED BY <2>2, <2>4, <2>5, <2>6
<1>4. CASE /\ asked.k = "Z" /\ asked.type # 0 /\ FirstFree # 0 /\ ~(HwIndices \subseteq inUse)
           /\ SetHardware(asked.type, a)
  <2>1. me \notin held
    BY <1>0, <1>4
  <2>2. /\ Registry'
        /\ \A c \in Addresses : Installed(c)' <=> Installed(c)
        /\ \A u \in HwUnits : hw[u].type # 0 => hw'[u] = hw[u]
        /\ FreeIndex(inUse) \in HwUnits => \E u \in HwUnits : hw'[u] = me
    BY <1>0, <1>1, <1>4, HardwareSet
  <2>3. PICK r : r = IF FreeIndex(inUse) \in HwUnits THEN "OK" ELSE "E06"
    OBVIOUS
  <2>4. r \in {"OK", "E06"} /\ tx' = tx \o <<"+", r>>
    BY <1>4, <2>3 DEF SetHardware, Replies
  <2>5. ASSUME NEW b \in Breaks
        PROVE  InPlace(b) => InPlace(b)'
    BY <1>1, <2>2 DEF InPlace
  <2>6. ASSUME NEW b \in Breaks, ~Concerns(asked, b)
        PROVE  Matches(b, b \in held)'
    <3>1. b.type = 0 => (InPlace(b)' <=> InPlace(b))
      BY <1>1, <2>2 DEF InPlace
    <3> QED BY <1>1, <2>5, <3>1 DEF Matches
  <2>7. ASSUME NEW b \in Breaks, Concerns(asked, b)
        PROVE  Matches(b, IF r = "OK" THEN asked.k = "Z" ELSE b \in held)'
    <3>1. b = me /\ b.type # 0
      BY <1>0, <1>4, <2>7
    <3>2. r = "OK" => InPlace(b)'
      BY <2>2, <2>3, <3>1 DEF InPlace
    <3> QED BY <1>1, <1>4, <2>1, <3>1, <3>2 DEF Matches
  <2> QED BY <2>2, <2>4, <2>6, <2>7
<1>5. CASE asked.k = "z" /\ asked.type = 0 /\ Matching(0, a) # 0 /\ RemoveSoftware(Matching(0, a))
  <2>1. me \in held /\ InPlace(me) /\ Installed(a) /\ a \notin Faulty
    BY <1>0, <1>5 DEF Matches, InPlace, Installed
  <2>2. /\ Registry' /\ hw' = hw /\ tx' = tx \o <<"+", "OK">>
        /\ \A c \in Addresses : Installed(c)' <=> c # a /\ Installed(c)
    BY <1>0, <1>1, <1>5, <2>1, SoftwareRemoved
  <2>3. ASSUME NEW b \in Breaks, ~Concerns(asked, b)
        PROVE  Matches(b, b \in held)'
    <3>1. b.type # 0 \/ b.a # a
      BY <1>5, <2>3 DEF Concerns
    <3>2. InPlace(b)' <=> InPlace(b)
      BY <1>1, <2>2, <3>1 DEF InPlace
    <3> QED BY <1>1, <3>2 DEF Matches
  <2>4. ASSUME NEW b \in Breaks, Concerns(asked, b)
        PROVE  Matches(b, asked.k = "Z")'
    <3>1. b = me /\ b.type = 0 /\ b.a = a
      BY <1>0, <1>5, <2>4
    <3>2. ~InPlace(b)'
      BY <1>1, <2>2, <3>1 DEF InPlace
    <3> QED BY <1>1, <1>5, <3>2 DEF Matches
  <2> QED BY <2>2, <2>3, <2>4
<1>6. CASE /\ asked.k = "z" /\ asked.type # 0 /\ Matching(asked.type, a) # 0
           /\ RemoveHardware(Matching(asked.type, a))
  <2>1. /\ Registry'
        /\ \A c \in Addresses : Installed(c)' <=> Installed(c)
        /\ \A u \in HwUnits : hw[u].type # 0 /\ hw[u] # me => hw'[u] = hw[u]
    BY <1>0, <1>1, <1>6, HardwareRemoved
  <2>2. PICK r : r = IF slots[Matching(asked.type, a)].index \in HwUnits THEN "OK" ELSE "E06"
    OBVIOUS
  <2>3. r \in {"OK", "E06"} /\ tx' = tx \o <<"+", r>> /\ (r # "OK" => hw' = hw)
    BY <1>6, <2>2 DEF RemoveHardware, Replies
  <2>4. ASSUME NEW b \in Breaks, ~Concerns(asked, b)
        PROVE  Matches(b, b \in held)'
    <3>1. b # me
      BY <1>0, <2>4
    <3>2. \A u \in HwUnits : hw[u] = b => b.type = 0 \/ hw'[u] = b
      BY <2>1, <3>1
    <3>3. InPlace(b) => InPlace(b)'
      BY <1>1, <2>1, <3>2 DEF InPlace
    <3>4. b.type = 0 => (InPlace(b)' <=> InPlace(b))
      BY <1>1, <2>1 DEF InPlace
    <3> QED BY <1>1, <3>3, <3>4 DEF Matches
  <2>5. ASSUME NEW b \in Breaks, Concerns(asked, b)
        PROVE  Matches(b, IF r = "OK" THEN asked.k = "Z" ELSE b \in held)'
    <3>1. b = me /\ b.type # 0
      BY <1>0, <1>6, <2>5
    <3>2. r # "OK" => (InPlace(b)' <=> InPlace(b))
      BY <2>3, <3>1 DEF InPlace
    <3> QED BY <1>1, <1>6, <3>1, <3>2 DEF Matches
  <2> QED BY <2>1, <2>3, <2>4, <2>5
<1> QED BY <1>0, <1>2, <1>3, <1>4, <1>5, <1>6 DEF gdb_breakpoint

-----------------------------------------------------------------------------
(* The steps.                                                               *)

\* A step that changes neither what gdb believes nor the target keeps the
\* agreement if it loses packets or answers at most.
LEMMA BeliefKept ==
  ASSUME BridgeInv, UNCHANGED <<asked, held, mem, text, slots, inUse, hw>>,
         ProtocolTypes', ProtocolSound',
         Unhandled' => Unhandled, Results(Answers)' \subseteq Results(Answers)
  PROVE  BridgeInv'
<1>1. Registry'
  BY RegistryKept DEF BridgeInv
<1>2. \A b \in Breaks : InPlace(b)' <=> InPlace(b)
  BY DEF InPlace, Installed, Software
<1>3. asked' = asked /\ held' = held
  OBVIOUS
<1>4. Agreement'
  BY <1>2, <1>3 DEF BridgeInv, Agreement, Matches
<1>5. WritesElsewhere'
  BY <1>3 DEF BridgeInv, WritesElsewhere
<1> QED BY <1>1, <1>4, <1>5 DEF BridgeInv

\* Steps of the processes around the protocol.
LEMMA ElsewhereStep ==
  ASSUME BridgeInv, UNCHANGED <<asked, held, chunk, toRvd, toGdb, tx, rxState, rxBuf>>,
         UNCHANGED <<mem, text, slots, inUse, hw>>,
         pc' = pc \/ pc' \in {"ended", "rx"} \/ (chunk = <<>> /\ pc' \notin {"wait", "polling"})
                  \/ (pc = "wait" /\ pc' = "polling")
  PROVE  BridgeInv'
<1>1. ProtocolTypes'
  BY DEF BridgeInv, ProtocolTypes
<1>2. Stream' = Stream /\ Answers' = Answers
  BY DEF Stream, Answers
<1>3. Unhandled' <=> Unhandled
  BY <1>2 DEF Unhandled
<1>4. Waits' => Waits
  BY DEF Waits, BridgeInv, ProtocolSound
<1>5. ProtocolSound'
  BY <1>2, <1>3, <1>4 DEF BridgeInv, ProtocolSound
<1> QED BY <1>1, <1>2, <1>3, <1>5, BeliefKept

\* The characters gdb sends come after the others.
LEMMA StreamGrows ==
  ASSUME ProtocolTypes, NEW t \in Seq(Items), toRvd' = toRvd \o t, chunk' = chunk
  PROVE  /\ Stream \in Seq(Items) /\ toRvd' \in Seq(Items)
         /\ Stream' = Stream \o t
         /\ \A e \in Items : t = <<e>> => Stream' = Append(Stream, e)
<1>1. chunk \in Seq(Items) /\ toRvd \in Seq(Items)
  BY DEF ProtocolTypes
<1>2. Stream \in Seq(Items) /\ toRvd' \in Seq(Items)
  BY <1>1, ConcatProperties DEF Stream
<1>3. (chunk \o toRvd) \o t = chunk \o (toRvd \o t)
  BY <1>1, ConcatAssociative
<1>4. Stream' = Stream \o t
  BY <1>3 DEF Stream
<1>5. \A e \in Items : Append(Stream, e) = Stream \o <<e>>
  BY <1>2, AppendIsConcat
<1> QED BY <1>2, <1>4, <1>5

\* gdb sends a packet.
LEMMA SendStep ==
  ASSUME BridgeInv, NEW p \in Packets, GdbSend(p)
  PROVE  BridgeInv'
<1>0. /\ UNCHANGED <<held, chunk, toGdb, tx, rxState, rxBuf, mem, text, slots, inUse, hw, pc>>
      /\ asked = NoPacket /\ p \in Requests
  BY DEF GdbSend, rspVars, targetVars, brkVars, Requests
<1>1. CASE ~Sensible(p)
  <2>1. asked' = asked /\ toRvd' = toRvd
    BY <1>1 DEF GdbSend
  <2> QED BY <1>0, <2>1, ElsewhereStep
<1>2. CASE Sensible(p)
  <2>1. asked' = p /\ toRvd' = toRvd \o Framed(p)
    BY <1>2 DEF GdbSend
  <2>2. Ends(Stream) = {} /\ Results(Answers) = {} /\ ~Waits /\ rxState \notin {"body", "check"}
    BY <1>0 DEF BridgeInv, ProtocolSound, Unhandled
  <2>3. Framed(p) \in Seq(Items)
    <3>1. /\ NoPacket \in Requests
          /\ \A c \in Signs, q \in Requests : Item(c, q) \in Items
      BY DEF Item, Items, Requests
    <3>2. /\ Item("$", NoPacket) \in Items /\ Item("body", p) \in Items
          /\ Item("#", NoPacket) \in Items /\ Item("checksum", NoPacket) \in Items
      BY <1>0, <3>1 DEF Signs
    <3> QED BY <3>2 DEF Framed
  <2>4. Stream' = Stream \o Framed(p) /\ Stream \in Seq(Items) /\ toRvd' \in Seq(Items)
    BY <1>0, <2>1, <2>3, StreamGrows DEF BridgeInv
  <2>5. OneFrame(Stream', p) /\ Ends(Stream') # {}
    BY <1>0, <2>2, <2>4, FrameSend DEF BridgeInv, ProtocolSound
  <2>6. Answers' = Answers
    BY <1>0 DEF Answers
  <2>7. p # NoPacket
    BY DEF Packets, NoPacket
  <2>8. ProtocolTypes'
    BY <1>0, <2>1, <2>4 DEF BridgeInv, ProtocolTypes
  <2>9. ProtocolSound'
    BY <1>0, <2>1, <2>2, <2>5, <2>6, <2>7 DEF BridgeInv, ProtocolSound, Unhandled, Waits
  <2>10. Registry'
    BY <1>0, RegistryKept DEF BridgeInv
  <2>11. \A b \in Breaks : Matches(b, b \in held)'
    <3>1. \A b \in Breaks : InPlace(b)' <=> InPlace(b)
      BY <1>0 DEF InPlace, Installed, Software
    <3>2. \A b \in Breaks : ~Concerns(asked, b)
      BY <1>0 DEF Concerns, NoPacket
    <3> QED BY <1>0, <3>1, <3>2 DEF BridgeInv, Agreement, Matches
  <2>12. ASSUME NEW b \in Breaks, Concerns(p, b)
         PROVE  p.k = "Z" <=> b \notin held
    <3>1. b = [type |-> p.type, a |-> p.a]
      BY <1>0, <2>12, PacketShape
    <3> QED BY <1>2, <2>12, <3>1 DEF Sensible, Concerns
  <2>13. Agreement'
    <3>1. Results(Answers)' = {}
      BY <2>2, <2>6
    <3>2. \A b \in Breaks : Concerns(asked, b)' => (asked'.k = "Z" <=> b \notin held')
      BY <1>0, <2>1, <2>12
    <3> QED BY <2>11, <3>1, <3>2 DEF Agreement
  <2>14. WritesElsewhere'
    BY <1>0, <1>2, <2>1 DEF WritesElsewhere, Sensible
  <2> QED BY <2>8, <2>9, <2>10, <2>13, <2>14 DEF BridgeInv
<1> QED BY <1>1, <1>2

\* The user interrupts the program.
LEMMA InterruptStep ==
  ASSUME BridgeInv, GdbInterrupt
  PROVE  BridgeInv'
<1> DEFINE e == Item("^C", NoPacket)
<1>0. /\ UNCHANGED <<asked, held, chunk, toGdb, tx, rxState, rxBuf, mem, text, slots, inUse, hw, pc>>
      /\ toRvd = <<>> /\ toRvd' = <<e>>
  BY DEF GdbInterrupt, rspVars, targetVars, brkVars
<1>1. e \in Items /\ e.c = "^C" /\ <<e>> \in Seq(Items)
  BY DEF Item, Items, Requests, Signs
<1> HIDE DEF e
<1>2. toRvd' = toRvd \o <<e>>
  BY <1>0, <1>1
<1>3. Stream' = Append(Stream, e) /\ Stream \in Seq(Items) /\ toRvd' \in Seq(Items)
  BY <1>0, <1>1, <1>2, StreamGrows DEF BridgeInv
<1>4. /\ OneFrame(Stream', asked) /\ Ends(Stream') = Ends(Stream)
      /\ Unfinished(Stream') <=> Unfinished(Stream)
  BY <1>1, <1>3, FrameAppend DEF BridgeInv, ProtocolSound
<1>5. Answers' = Answers /\ (Unhandled' <=> Unhandled)
  BY <1>0, <1>4 DEF Answers, Unhandled
<1>6. ProtocolTypes'
  BY <1>0, <1>3 DEF BridgeInv, ProtocolTypes
<1>7. ProtocolSound'
  BY <1>0, <1>4, <1>5 DEF BridgeInv, ProtocolSound, Waits
<1> QED BY <1>0, <1>5, <1>6, <1>7, BeliefKept

\* gdb takes an answer.
LEMMA ReceiveStep ==
  ASSUME BridgeInv, GdbReceive
  PROVE  BridgeInv'
<1>0. /\ UNCHANGED <<chunk, tx, rxState, rxBuf, mem, text, slots, inUse, hw, pc>>
      /\ toGdb # <<>> /\ toGdb' = Tail(toGdb)
      /\ toGdb \in Seq(Sayings) /\ tx \in Seq(Sayings)
  BY DEF GdbReceive, rspVars, targetVars, brkVars, BridgeInv, ProtocolTypes
<1>1. /\ Answers \in Seq(Sayings) /\ Answers # <<>> /\ Head(Answers) = Head(toGdb)
      /\ Answers' = Tail(Answers) /\ toGdb' \in Seq(Sayings)
  BY <1>0, TailOfConcat, ConcatProperties, HeadTailProperties DEF Answers
<1>2. /\ OneResult(Answers') /\ Results(Answers') \subseteq Results(Answers)
      /\ Head(toGdb) # "+" => Results(Answers') = {} /\ Head(toGdb) \in Results(Answers)
  BY <1>1, ResultTail DEF BridgeInv, ProtocolSound
<1>3. CASE Head(toGdb) = "+"
  <2>1. UNCHANGED <<asked, held, toRvd>>
    BY <1>3 DEF GdbReceive
  <2>2. Stream' = Stream /\ (Unhandled' <=> Unhandled)
    BY <1>0, <2>1 DEF Stream, Unhandled
  <2>3. ProtocolTypes'
    BY <1>0, <1>1, <2>1 DEF BridgeInv, ProtocolTypes
  <2>4. ProtocolSound'
    BY <1>0, <1>2, <2>1, <2>2 DEF BridgeInv, ProtocolSound, Waits
  <2> QED BY <1>0, <1>2, <2>1, <2>2, <2>3, <2>4, BeliefKept
<1>4. CASE Head(toGdb) # "+"
  <2> DEFINE e == Item("+", NoPacket)
             r == Head(toGdb)
             me == [type |-> asked.type, a |-> asked.a]
  <2>1. /\ asked' = NoPacket /\ toRvd' = Append(toRvd, e)
        /\ held' = CASE r = "OK" /\ asked.k = "Z" -> held \cup {me}
                     [] r = "OK" /\ asked.k = "z" -> held \ {me}
                     [] OTHER -> held
    BY <1>4 DEF GdbReceive
  <2>2. r \in Results(Answers) /\ Results(Answers') = {} /\ ~Unhandled /\ ~Waits
    BY <1>2, <1>4 DEF BridgeInv, ProtocolSound
  <2>3. e \in Items /\ e.c = "+" /\ <<e>> \in Seq(Items) /\ asked \in Requests
    BY DEF Item, Items, Requests, Signs, BridgeInv, ProtocolTypes
  <2> HIDE DEF e
  <2>4. toRvd' = toRvd \o <<e>>
    BY <2>1, <2>3, AppendIsConcat DEF BridgeInv, ProtocolTypes
  <2>5. Stream' = Append(Stream, e) /\ Stream \in Seq(Items) /\ toRvd' \in Seq(Items)
    BY <1>0, <2>3, <2>4, StreamGrows DEF BridgeInv
  <2>6. OneFrame(Stream', asked) /\ Ends(Stream') = Ends(Stream)
    BY <2>3, <2>5, FrameAppend DEF BridgeInv, ProtocolSound
  <2>7. OneFrame(Stream', NoPacket) /\ ~Unhandled'
    BY <2>2, <2>6, NoFrame DEF Unhandled
  <2>8. held' \subseteq Breaks
    BY <2>1, <2>3, PacketShape DEF BridgeInv, ProtocolTypes
  <2>9. ProtocolTypes'
    BY <1>0, <1>1, <2>1, <2>5, <2>8 DEF BridgeInv, ProtocolTypes, Requests
  <2>10. ProtocolSound'
    BY <1>0, <1>2, <2>1, <2>2, <2>7 DEF BridgeInv, ProtocolSound, Waits
  <2>11. Registry'
    BY <1>0, RegistryKept DEF BridgeInv
  <2>12. \A b \in Breaks : InPlace(b)' <=> InPlace(b)
    BY <1>0 DEF InPlace, Installed, Software
  <2>13. ASSUME NEW b \in Breaks
         PROVE  Matches(b, b \in held)'
    <3>1. CASE ~Concerns(asked, b)
      <4>1. b # me \/ asked.k \notin {"Z", "z"}
        BY <3>1 DEF Concerns
      <4>2. b \in held' <=> b \in held
        BY <2>1, <4>1
      <4> QED BY <2>12, <3>1, <4>2 DEF BridgeInv, Agreement, Matches
    <3>2. CASE Concerns(asked, b)
      <4>1. b = me /\ asked.k \in {"Z", "z"}
        BY <2>3, <3>2, PacketShape DEF Concerns
      <4>2. b \in held' <=> IF r = "OK" THEN asked.k = "Z" ELSE b \in held
        BY <2>1, <4>1
      <4>3. Matches(b, IF r = "OK" THEN asked.k = "Z" ELSE b \in held)
        BY <2>2, <3>2 DEF BridgeInv, Agreement
      <4> QED BY <2>12, <4>2, <4>3 DEF Matches
    <3> QED BY <3>1, <3>2
  <2>14. Agreement'
    <3>1. \A b \in Breaks : ~Concerns(asked, b)'
      BY <2>1 DEF Concerns, NoPacket
    <3> QED BY <2>13, <3>1 DEF Agreement
  <2>15. WritesElsewhere'
    BY <2>1 DEF WritesElsewhere, NoPacket
  <2> QED BY <2>9, <2>10, <2>11, <2>14, <2>15 DEF BridgeInv
<1> QED BY <1>3, <1>4

\* rvd reads a part of what has arrived.
LEMMA ReadStep ==
  ASSUME BridgeInv, Read
  PROVE  BridgeInv'
<1>0. /\ UNCHANGED <<asked, held, toGdb, tx, rxState, rxBuf, mem, text, slots, inUse, hw>>
      /\ chunk = <<>> /\ toRvd \in Seq(Items)
  BY DEF Read, targetVars, brkVars, BridgeInv, ProtocolSound, ProtocolTypes
<1>1. CASE toRvd = <<>>
  <2>1. chunk' = chunk /\ toRvd' = toRvd /\ pc' = "select"
    BY <1>1 DEF Read
  <2> QED BY <1>0, <2>1, ElsewhereStep
<1>2. CASE toRvd # <<>>
  <2>1. PICK n \in 1 .. Len(toRvd) : /\ chunk' = SubSeq(toRvd, 1, n)
                                      /\ toRvd' = SubSeq(toRvd, n + 1, Len(toRvd))
    BY <1>2 DEF Read
  <2>2. pc' = "rx"
    BY <1>2 DEF Read
  <2>3. Len(toRvd) \in Nat /\ \A i \in 1 .. Len(toRvd) : toRvd[i] \in Items
    BY <1>0, LenProperties
  <2>4. chunk' \in Seq(Items) /\ toRvd' \in Seq(Items)
    <3>1. SubSeq(toRvd, 1, n) \in Seq(Items)
      BY <2>3, SubSeqProperties
    <3>2. \A i \in n + 1 .. Len(toRvd) : toRvd[i] \in Items
      BY <2>3
    <3>3. SubSeq(toRvd, n + 1, Len(toRvd)) \in Seq(Items)
      BY <2>3, <3>2, SubSeqProperties
    <3> QED BY <2>1, <3>1, <3>3
  <2>5. SubSeq(toRvd, 1, n) \o SubSeq(toRvd, n + 1, Len(toRvd)) = toRvd
    <3>1. 1 \in 1 .. Len(toRvd) + 1 /\ n \in 1 - 1 .. Len(toRvd) /\ Len(toRvd) \in n .. Len(toRvd)
      BY <2>3
    <3>2. /\ SubSeq(toRvd, 1, n) \o SubSeq(toRvd, n + 1, Len(toRvd)) = SubSeq(toRvd, 1, Len(toRvd))
          /\ SubSeq(toRvd, 1, Len(toRvd)) = toRvd
      BY <1>0, <3>1, ConcatAdjacentSubSeq, SubSeqFull
    <3> QED BY <3>2
  <2>6. Stream' = Stream
    <3>1. chunk \o toRvd = toRvd
      BY <1>0, ConcatEmptySeq
    <3> QED BY <2>1, <2>5, <3>1 DEF Stream
  <2>7. Answers' = Answers /\ (Unhandled' <=> Unhandled)
    BY <1>0, <2>6 DEF Answers, Unhandled
  <2>8. ProtocolTypes'
    BY <1>0, <2>4 DEF BridgeInv, ProtocolTypes
  <2>9. ProtocolSound'
    BY <1>0, <2>2, <2>6, <2>7 DEF BridgeInv, ProtocolSound, Waits
  <2> QED BY <1>0, <2>7, <2>8, <2>9, BeliefKept
<1> QED BY <1>1, <1>2

\* rvd writes its answers, or writes them to nobody.
LEMMA FlushStep ==
  ASSUME BridgeInv, NEW next \in {"read", "polling"}, Flush(next), tx' = <<>>,
         next = "read" => chunk = <<>>, next = "polling" => pc = "wait",
         UNCHANGED <<chunk, rxState, rxBuf, targetVars, brkVars>>
  PROVE  BridgeInv'
<1>0. /\ UNCHANGED <<asked, held, toRvd, chunk, rxState, rxBuf, mem, text, slots, inUse, hw>>
      /\ pc' \in {next, "ended"}
      /\ toGdb' = toGdb \o tx \/ toGdb' = toGdb
  BY DEF Flush, End, Stays, gdbVars, targetVars, brkVars
<1>1. /\ toGdb \in Seq(Sayings) /\ tx \in Seq(Sayings) /\ Answers \in Seq(Sayings)
      /\ <<>> \in Seq(Sayings)
  BY ConcatProperties, EmptySeq DEF BridgeInv, ProtocolTypes, Answers
<1>2. toGdb' \in Seq(Sayings) /\ (Answers' = Answers \/ Answers' = toGdb)
  <2>1. toGdb \o <<>> = toGdb /\ Answers \o <<>> = Answers
    BY <1>1, ConcatEmptySeq
  <2> QED BY <1>0, <1>1, <2>1 DEF Answers
<1>3. OneResult(Answers') /\ Results(Answers') \subseteq Results(Answers)
  <2>1. OneResult(toGdb) /\ Results(toGdb) \subseteq Results(Answers) /\ OneResult(Answers)
    BY <1>1, ResultPrefix DEF BridgeInv, ProtocolSound, Answers
  <2> QED BY <1>2, <2>1
<1>4. Stream' = Stream /\ (Unhandled' <=> Unhandled)
  BY <1>0 DEF Stream, Unhandled
<1>5. ProtocolTypes'
  BY <1>0, <1>1, <1>2 DEF BridgeInv, ProtocolTypes
<1>6. Waits' => Waits
  BY <1>0 DEF Waits
<1>7. ProtocolSound'
  BY <1>0, <1>3, <1>4, <1>6 DEF BridgeInv, ProtocolSound
<1> QED BY <1>0, <1>3, <1>4, <1>5, <1>7, BeliefKept

\* The target has halted.
LEMMA PollStep ==
  ASSUME BridgeInv, Poll
  PROVE  BridgeInv'
<1>0. /\ UNCHANGED <<asked, held, toRvd, toGdb, chunk, rxState, rxBuf, mem, text, slots, inUse, hw>>
      /\ pc = "polling"
  BY DEF Poll, End, Stays, gdbVars, targetVars, brkVars
<1>1. CASE pc' = "ended" /\ tx' = tx
  BY <1>0, <1>1, ElsewhereStep
<1>2. CASE pc' = "rx" /\ tx' = Append(tx, "S05")
  <2>1. /\ Results(Answers) = {} /\ ~Unhandled /\ asked.k \in {"c", "vRun"}
        /\ asked # NoPacket
    BY <1>0 DEF BridgeInv, ProtocolSound, Waits
  <2>2. /\ toGdb \in Seq(Sayings) /\ tx \in Seq(Sayings) /\ Answers \in Seq(Sayings)
        /\ "S05" \in Sayings
    BY ConcatProperties DEF BridgeInv, ProtocolTypes, Answers, Sayings
  <2>3. tx' \in Seq(Sayings) /\ Answers' = Append(Answers, "S05")
    <3>1. /\ Append(tx, "S05") = tx \o <<"S05">> /\ Append(Answers, "S05") = Answers \o <<"S05">>
          /\ Append(tx, "S05") \in Seq(Sayings) /\ <<"S05">> \in Seq(Sayings)
      BY <2>2, AppendIsConcat, AppendProperties
    <3>2. (toGdb \o tx) \o <<"S05">> = toGdb \o (tx \o <<"S05">>)
      BY <2>2, <3>1, ConcatAssociative
    <3> QED BY <1>0, <1>2, <3>1, <3>2 DEF Answers
  <2>4. OneResult(Answers')
    BY <2>1, <2>2, <2>3, ResultAdd
  <2>5. Stream' = Stream /\ (Unhandled' <=> Unhandled)
    BY <1>0 DEF Stream, Unhandled
  <2>6. ProtocolTypes'
    BY <1>0, <2>3 DEF BridgeInv, ProtocolTypes
  <2>7. ProtocolSound'
    BY <1>0, <1>2, <2>1, <2>4, <2>5 DEF BridgeInv, ProtocolSound, Waits
  <2>8. Registry'
    BY <1>0, RegistryKept DEF BridgeInv
  <2>9. \A b \in Breaks : (InPlace(b)' <=> InPlace(b)) /\ ~Concerns(asked, b)
    BY <1>0, <2>1 DEF InPlace, Installed, Software, Concerns
  <2>10. Agreement'
    BY <1>0, <2>9 DEF BridgeInv, Agreement, Matches
  <2>11. WritesElsewhere'
    BY <1>0 DEF BridgeInv, WritesElsewhere
  <2> QED BY <2>6, <2>7, <2>8, <2>10, <2>11 DEF BridgeInv
<1> QED BY <1>1, <1>2 DEF Poll, End

\* rvd answers.
LEMMA AnswerGiven ==
  ASSUME ProtocolTypes, Results(Answers) = {}, NEW r \in Sayings, toGdb' = toGdb,
         tx' = tx \o <<"+", r>> \/ tx' = Append(tx, r)
  PROVE  tx' \in Seq(Sayings) /\ OneResult(Answers') /\ Results(Answers') = {r} \ {"+"}
<1>1. /\ toGdb \in Seq(Sayings) /\ tx \in Seq(Sayings) /\ Answers \in Seq(Sayings)
      /\ "+" \in Sayings
  BY ConcatProperties DEF ProtocolTypes, Answers, Sayings
<1> DEFINE t == <<"+", r>>
           u == <<r>>
<1>2. t \in Seq(Sayings) /\ u \in Seq(Sayings)
  BY <1>1
<1> HIDE DEF t, u
<1>3. /\ tx \o t \in Seq(Sayings) /\ Append(tx, r) \in Seq(Sayings)
      /\ Append(tx, r) = tx \o u /\ Append(Answers, r) = Answers \o u
  BY <1>1, <1>2, ConcatProperties, AppendIsConcat, AppendProperties DEF u
<1>4. \A x \in Seq(Sayings) : (toGdb \o tx) \o x = toGdb \o (tx \o x)
  BY <1>1, Associative
<1>5. Answers' = Answers \o <<"+", r>> \/ Answers' = Append(Answers, r)
  BY <1>2, <1>3, <1>4 DEF Answers, t
<1>6. OneResult(Answers') /\ Results(Answers') = {r} \ {"+"}
  BY <1>1, <1>5, ResultAdd
<1> QED BY <1>3, <1>6 DEF t

\* rvd handles the packet that gdb waits for.
LEMMA HandleStep ==
  ASSUME BridgeInv, Unhandled, rxBuf \in {NoPacket, asked}, Handle(rxBuf),
         OneFrame(Stream', asked), ~Unhandled', chunk' \in Seq(Items),
         UNCHANGED <<asked, held, toRvd, toGdb, rxBuf>>, rxState' = "idle", pc = "rx"
  PROVE  BridgeInv'
<1>0. /\ asked \in Requests /\ asked # NoPacket /\ held \subseteq Breaks
      /\ Results(Answers) = {} /\ ~Waits /\ ProtocolTypes /\ Registry
      /\ \A b \in Breaks : Matches(b, b \in held)
      /\ \A b \in Breaks : Concerns(asked, b) => (asked.k = "Z" <=> b \notin held)
  BY DEF BridgeInv, ProtocolTypes, ProtocolSound, Agreement
<1>1. rxBuf = asked
  <2>1. rxBuf.k \in {"Z", "z", "M", "q", "D", "c", "vRun"}
    BY DEF Handle
  <2>2. NoPacket.k = "none"
    BY DEF NoPacket
  <2> QED BY <2>1, <2>2
<1>2. asked' = asked /\ held' = held /\ toGdb' = toGdb /\ WritesElsewhere'
  BY DEF BridgeInv, WritesElsewhere
\* What is left to show once the answer is known.
<1>3. ASSUME NEW r \in Sayings, tx' = tx \o <<"+", r>> \/ tx' = Append(tx, r),
             Waits' => r = "+" /\ asked.k \in {"c", "vRun"},
             pc' \in {"rx", "wait"}, Registry',
             \A b \in Breaks :
               /\ ~Concerns(asked, b) => Matches(b, b \in held)'
               /\ Concerns(asked, b) => Matches(b, IF r = "OK" THEN asked.k = "Z" ELSE b \in held)'
      PROVE  BridgeInv'
  <2>1. tx' \in Seq(Sayings) /\ OneResult(Answers') /\ Results(Answers') = {r} \ {"+"}
    BY <1>0, <1>2, <1>3, AnswerGiven
  <2>2. ProtocolTypes'
    BY <1>0, <2>1 DEF ProtocolTypes
  <2>3. ProtocolSound'
    BY <1>0, <1>2, <1>3, <2>1 DEF ProtocolSound
  <2>4. Agreement'
    <3>1. \A q \in Results(Answers)' : q = r
      BY <2>1
    <3>2. \A b \in Breaks : Concerns(asked, b)' <=> Concerns(asked, b)
      BY <1>2 DEF Concerns
    <3>3. \A b \in Breaks : Concerns(asked, b) => (asked'.k = "Z" <=> b \notin held')
      BY <1>0, <1>2
    <3> QED BY <1>3, <3>1, <3>2, <3>3 DEF Agreement
  <2> QED BY <1>2, <1>3, <2>2, <2>3, <2>4 DEF BridgeInv
\* Packets that do not touch the breakpoints.
<1>4. ASSUME asked.k \notin {"Z", "z"}, Registry',
             \A c \in Addresses : Installed(c)' <=> Installed(c), hw' = hw
      PROVE  \A b \in Breaks :
               /\ ~Concerns(asked, b) => Matches(b, b \in held)'
               /\ ~Concerns(asked, b)
  <2>1. \A b \in Breaks : b.a \in Addresses
    BY DEF Breaks
  <2>2. \A b \in Breaks : InPlace(b)' <=> InPlace(b)
    BY <1>4, <2>1 DEF InPlace
  <2> QED BY <1>0, <1>2, <1>4, <2>2 DEF Matches, Concerns
<1>5. CASE asked.k \in {"Z", "z"} /\ gdb_breakpoint(asked) /\ text' = text /\ pc' = "rx"
  <2>1. PICK r \in {"OK", "E06"} :
          /\ tx' = tx \o <<"+", r>>
          /\ \A b \in Breaks :
               /\ ~Concerns(asked, b) => Matches(b, b \in held)'
               /\ Concerns(asked, b) => Matches(b, IF r = "OK" THEN asked.k = "Z" ELSE b \in held)'
    BY <1>0, <1>2, <1>5, BreakpointHandled
  <2>2. Registry'
    BY <1>0, <1>2, <1>5, BreakpointHandled
  <2>3. r \in Sayings /\ ~Waits'
    BY <1>5 DEF Sayings, Waits
  <2> QED BY <1>3, <1>5, <2>1, <2>2, <2>3
<1>6. CASE /\ asked.k = "M" /\ pc' = "rx" /\ UNCHANGED brkVars /\ Replies("OK")
           /\ mem' = [mem EXCEPT ![asked.a] = "new"] /\ text' = [text EXCEPT ![asked.a] = "new"]
  <2>1. asked.a \in Addresses /\ [type |-> 0, a |-> asked.a] \in Breaks
    BY <1>0, <1>6, PacketShape
  <2>2. ~Installed(asked.a)
    BY <1>0, <1>6, <2>1 DEF BridgeInv, WritesElsewhere, Matches, InPlace
  <2>3. Registry' /\ hw' = hw /\ \A c \in Addresses : Installed(c)' <=> Installed(c)
    BY <1>0, <1>6, <2>1, <2>2, MemoryWritten
  <2>4. "OK" \in Sayings /\ ~Waits' /\ asked.k \notin {"Z", "z"}
    BY <1>6 DEF Sayings, Waits
  <2> QED BY <1>3, <1>4, <1>6, <2>3, <2>4 DEF Replies
<1>7. CASE /\ asked.k \in {"q", "D", "c", "vRun", "M"} /\ UNCHANGED <<mem, text, brkVars>>
           /\ pc' = "rx"
           /\ \E r \in {"", "OK", "E05", "X09"} : Replies(r)
  <2>1. /\ Registry' /\ hw' = hw
        /\ \A c \in Addresses : Installed(c)' <=> Installed(c)
    BY <1>0, <1>7, RegistryKept DEF brkVars
  <2>2. PICK r \in {"", "OK", "E05", "X09"} : tx' = tx \o <<"+", r>>
    BY <1>7 DEF Replies
  <2>3. r \in Sayings /\ asked.k \notin {"Z", "z"} /\ ~Waits'
    BY <1>7 DEF Sayings, Waits
  <2> QED BY <1>3, <1>4, <1>7, <2>1, <2>2, <2>3
<1>8. CASE /\ asked.k \in {"c", "vRun"} /\ UNCHANGED <<mem, text, brkVars>>
           /\ pc' = "wait" /\ tx' = Append(tx, "+")
  <2>1. /\ Registry' /\ hw' = hw /\ asked.k \notin {"Z", "z"} /\ "+" \in Sayings
        /\ \A c \in Addresses : Installed(c)' <=> Installed(c)
    BY <1>0, <1>8, RegistryKept DEF brkVars, Sayings
  <2> QED BY <1>3, <1>4, <1>8, <2>1
<1> QED BY <1>1, <1>5, <1>6, <1>7, <1>8 DEF Handle

\* rvd takes one item of the chunk.
LEMMA RxStep ==
  ASSUME BridgeInv, Rx
  PROVE  BridgeInv'
<1>0. /\ pc = "rx" /\ chunk # <<>> /\ chunk' = Tail(chunk)
      /\ chunk \in Seq(Items) /\ toRvd \in Seq(Items)
      /\ OneFrame(Stream, asked) /\ asked' = asked /\ held' = held /\ toRvd' = toRvd
  BY DEF Rx, Stays, End, gdbVars, BridgeInv, ProtocolTypes, ProtocolSound
<1>1. /\ Stream \in Seq(Items) /\ Stream # <<>> /\ Head(Stream) = Head(chunk)
      /\ Stream' = Tail(Stream) /\ chunk' \in Seq(Items) /\ Head(chunk) \in Items
  BY <1>0, TailOfConcat, ConcatProperties, HeadTailProperties DEF Stream
<1> DEFINE c == Head(chunk).c
           f == Head(chunk).p
<1>2. /\ OneFrame(Stream', asked)
      /\ Unhandled' => Unhandled
      /\ c = "checksum" => Unhandled /\ ~Unhandled'
      /\ c # "checksum" /\ Unhandled => Unhandled'
      /\ c \in {"$", "body"} => Unfinished(Stream') /\ Unhandled'
      /\ Unfinished(Stream) /\ c # "#" => c # "checksum" /\ Unfinished(Stream')
      /\ c = "body" => f = asked
  BY <1>0, <1>1, FrameTail DEF Unhandled
\* Items that do not end a packet.
<1>3. ASSUME UNCHANGED <<toGdb, tx, mem, text, slots, inUse, hw>>, pc' \in {"rx", "ended"},
             rxBuf' \in Requests,
             rxState' \in {"body", "check"} => Unhandled' /\ rxBuf' \in {NoPacket, asked},
             rxState' = "body" => Unfinished(Stream')
      PROVE  BridgeInv'
  <2>1. Answers' = Answers /\ ~Waits'
    BY <1>3 DEF Answers, Waits
  <2>2. ProtocolTypes'
    BY <1>0, <1>1, <1>3 DEF BridgeInv, ProtocolTypes
  <2>3. ProtocolSound'
    BY <1>0, <1>2, <1>3, <2>1 DEF BridgeInv, ProtocolSound
  <2> QED BY <1>0, <1>2, <1>3, <2>1, <2>2, <2>3, BeliefKept
<1>4. CASE c = "checksum" /\ rxState = "check"
  <2>1. rxState' = "idle" /\ rxBuf' = rxBuf
    BY <1>4 DEF Rx
  <2>2. CASE Handle(rxBuf) /\ Stays
    <3>1. toGdb' = toGdb
      BY <2>2 DEF Stays, gdbVars
    <3>2. rxBuf \in {NoPacket, asked}
      BY <1>4 DEF BridgeInv, ProtocolSound
    <3> QED BY <1>0, <1>1, <1>2, <1>4, <2>1, <2>2, <3>1, <3>2, HandleStep
  <2>3. CASE End /\ UNCHANGED <<tx, attached, targetVars, brkVars>>
    <3>1. UNCHANGED <<toGdb, tx, mem, text, slots, inUse, hw>> /\ pc' = "ended"
      BY <2>3 DEF End, targetVars, brkVars
    <3>2. rxBuf' \in Requests
      BY <2>1 DEF BridgeInv, ProtocolTypes
    <3> QED BY <1>3, <2>1, <3>1, <3>2
  <2> QED BY <1>4, <2>2, <2>3 DEF Rx
<1>5. CASE ~(c = "checksum" /\ rxState = "check")
  <2>1. UNCHANGED <<toGdb, tx, mem, text, slots, inUse, hw>> /\ pc' = "rx"
    BY <1>5 DEF Rx, Stays, gdbVars, targetVars, brkVars
  <2>2. CASE c = "$"
    <3>1. rxState' = "body" /\ rxBuf' = NoPacket
      BY <2>2 DEF Rx
    <3> QED BY <1>2, <1>3, <2>1, <2>2, <3>1 DEF Requests
  <2>3. CASE c = "body" /\ rxState = "body"
    <3>1. rxState' = "body" /\ rxBuf' = f
      BY <2>3 DEF Rx
    <3> QED BY <1>0, <1>2, <1>3, <2>1, <2>3, <3>1 DEF BridgeInv, ProtocolTypes
  <2>4. CASE c = "#" /\ rxState = "body"
    <3>1. rxState' = "check" /\ rxBuf' = rxBuf
      BY <2>4 DEF Rx
    <3> QED BY <1>2, <1>3, <2>1, <2>4, <3>1 DEF BridgeInv, ProtocolTypes, ProtocolSound
  <2>5. CASE ~(c = "$" \/ (c \in {"body", "#"} /\ rxState = "body"))
    <3>1. rxState' = rxState /\ rxBuf' = rxBuf
      BY <1>5, <2>5 DEF Rx
    <3>2. rxBuf' \in Requests
      BY <3>1 DEF BridgeInv, ProtocolTypes
    <3>3. rxState = "body" => Unfinished(Stream')
      BY <1>2, <2>5 DEF BridgeInv, ProtocolSound
    <3>4. rxState \in {"body", "check"} => Unhandled' /\ rxBuf \in {NoPacket, asked}
      BY <1>2, <1>5, <2>5 DEF BridgeInv, ProtocolSound
    <3> QED BY <1>3, <2>1, <3>1, <3>2, <3>3, <3>4
  <2> QED BY <2>2, <2>3, <2>4, <2>5
<1> QED BY <1>4, <1>5

-----------------------------------------------------------------------------
(* The theorems.                                                            *)

\* Every step of gdb, the connection and rvd keeps the invariant.
LEMMA BridgeStep ==
  ASSUME BridgeInv, [BridgeNext]_bridgeVars
  PROVE  BridgeInv'
<1>1. CASE UNCHANGED bridgeVars
  <2>1. UNCHANGED <<asked, held, chunk, toRvd, toGdb, tx, rxState, rxBuf, mem, text, slots, inUse,
                    hw, pc>>
    BY <1>1 DEF bridgeVars, gdbVars, rspVars, targetVars, brkVars
  <2> QED BY <2>1, ElsewhereStep
<1>2. CASE Gdb
  <2>1. ASSUME GdbConnect \/ GdbDisconnect \/ \E how \in {"exited", "killed"} : GdbEnd(how)
        PROVE  BridgeInv'
    <3>1. UNCHANGED <<asked, held, chunk, toRvd, toGdb, tx, rxState, rxBuf, mem, text, slots,
                      inUse, hw, pc>>
      BY <2>1 DEF GdbConnect, GdbDisconnect, GdbEnd, rspVars, targetVars, brkVars
    <3> QED BY <3>1, ElsewhereStep
  <2> QED BY <1>2, <2>1, SendStep, InterruptStep, ReceiveStep DEF Gdb
<1>3. CASE RvdStep
  <2>1. CASE SigChld \/ Interrupted \/ ForkReturns \/ Accept \/ GiveUpAccept \/ Select
    <3>1. UNCHANGED <<asked, held, chunk, toRvd, toGdb, tx, rxState, rxBuf, mem, text, slots,
                      inUse, hw>>
      BY <2>1 DEF SigChld, Interrupted, ForkReturns, Accept, GiveUpAccept, Select, End, Stays,
                  gdbVars, rspVars, targetVars, brkVars
    <3>2. \/ pc' = pc \/ pc' = "ended"
          \/ pc \in {"fork", "accept", "select"} /\ pc' \in {"accept", "select", "read"}
      BY <2>1 DEF SigChld, Interrupted, ForkReturns, Accept, GiveUpAccept, Select, End
    <3>3. pc' = pc \/ pc' = "ended" \/ (chunk = <<>> /\ pc' \notin {"wait", "polling"})
      BY <3>2 DEF BridgeInv, ProtocolSound
    <3> QED BY <3>1, <3>3, ElsewhereStep
  <2>2. CASE EndOfChunk
    BY <2>2, FlushStep DEF EndOfChunk, ChunkDone
  <2>3. CASE StartWait
    BY <2>3, FlushStep DEF StartWait
  <2> QED BY <1>3, <2>1, <2>2, <2>3, ReadStep, RxStep, PollStep DEF RvdStep
<1>4. CASE Halt
  <2>1. UNCHANGED <<asked, held, chunk, toRvd, toGdb, tx, rxState, rxBuf, mem, text, slots, inUse,
                    hw, pc>>
    BY <1>4 DEF Halt, gdbVars, rspVars, brkVars
  <2> QED BY <2>1, ElsewhereStep
<1> QED BY <1>1, <1>2, <1>3, <1>4 DEF BridgeNext

\* Nothing is asked, set or in flight when gdb connects.
LEMMA BridgeStart ==
  ASSUME BridgeInit
  PROVE  BridgeInv
<1>1. ProtocolTypes
  BY EmptySeq DEF BridgeInit, ProtocolTypes, Requests
<1>2. Stream = <<>> /\ Answers = <<>> /\ <<>> \in Seq(Items)
  BY EmptySeq, ConcatEmptySeq DEF BridgeInit, Stream, Answers
<1>3. Ends(Stream) = {} /\ Results(Answers) = {} /\ OneFrame(Stream, asked) /\ OneResult(Answers)
  BY <1>2 DEF Ends, Marks, Results, OneFrame, OneResult
<1>4. ProtocolSound
  BY <1>3 DEF BridgeInit, ProtocolSound, Unhandled, Waits
<1>5. /\ Free \in Slots /\ ~Free.active
      /\ slots = [i \in 1 .. MaxBreakpoints |-> Free]
  BY DEF BridgeInit, Free, Slots, Words, Types
<1>6. \A i \in DOMAIN slots : slots[i] = Free /\ ~slots[i].active
  BY <1>5
<1>7. RegistryTypes
  BY <1>5 DEF BridgeInit, RegistryTypes, Words, Off, Types
<1>8. \A a \in Addresses : ~Installed(a)
  BY <1>6 DEF Installed, Software
<1>9. SoftwareSound
  BY <1>6 DEF BridgeInit, SoftwareSound, Software
<1>10. HardwareSound
  BY <1>6 DEF BridgeInit, HardwareSound, Hardware, Off
<1>11. \A b \in Breaks : b \notin held /\ ~Concerns(asked, b) /\ Matches(b, b \in held)
  <2>1. \A b \in Breaks : b.a \in Addresses
    BY DEF Breaks
  <2>2. \A b \in Breaks : b.type = 0 => ~InPlace(b)
    BY <1>8, <2>1 DEF InPlace
  <2> QED BY <2>2 DEF BridgeInit, Matches, Concerns, NoPacket
<1>12. Agreement
  BY <1>11 DEF Agreement
<1>13. WritesElsewhere
  BY DEF BridgeInit, WritesElsewhere, NoPacket
<1> QED BY <1>1, <1>4, <1>7, <1>9, <1>10, <1>12, <1>13 DEF BridgeInv, Registry

\* The packet gdb waits for is in one place and answered once, the registry is
\* what memory and the hardware units hold, and gdb's belief agrees with it
\* (rsp_receiveBuf, gdb_breakpoint).
THEOREM BridgeInvariant == BridgeSpec => []BridgeInv
<1>1. BridgeInit => BridgeInv
  BY BridgeStart
<1>2. BridgeInv /\ [BridgeNext]_bridgeVars => BridgeInv'
  BY BridgeStep
<1> QED BY <1>1, <1>2, PTL DEF BridgeSpec

\* Every breakpoint that gdb was told is in place is in place, for every
\* session, registry size and set of hardware units (gdb_breakpoint).
THEOREM BreakpointsStay == BridgeSpec => []BreakpointsInPlace
<1>1. BridgeInv => BreakpointsInPlace
  <2> SUFFICES ASSUME BridgeInv, NEW b \in held \ {[type |-> asked.type, a |-> asked.a]}
               PROVE  IF b.type = 0 THEN mem[b.a] = "brk" ELSE \E u \in HwUnits : hw[u] = b
    BY DEF BreakpointsInPlace
  <2>1. b \in Breaks /\ b.a \in Addresses /\ asked \in Requests
    BY DEF BridgeInv, ProtocolTypes, Breaks
  <2>2. ~Concerns(asked, b)
    BY <2>1, PacketShape
  <2>3. InPlace(b)
    BY <2>1, <2>2 DEF BridgeInv, Agreement, Matches
  <2> QED BY <2>1, <2>3 DEF BridgeInv, Registry, SoftwareSound, InPlace, Installed
<1> QED BY <1>1, BridgeInvariant, PTL

\* Where gdb has no software breakpoint the program is as it was written, with
\* no breakpoint syllable or stale original left behind (gdb_breakpoint).
THEOREM ProgramStays == BridgeSpec => []ProgramRestored
<1>1. BridgeInv => ProgramRestored
  <2> SUFFICES ASSUME BridgeInv, NEW a \in Addresses,
                      [type |-> 0, a |-> a] \notin held,
                      ~(asked.k \in {"Z", "z"} /\ asked.type = 0 /\ asked.a = a)
               PROVE  mem[a] = text[a]
    BY DEF ProgramRestored
  <2> DEFINE b == [type |-> 0, a |-> a]
  <2>1. b \in Breaks /\ b.type = 0 /\ b.a = a /\ ~Concerns(asked, b)
    BY DEF Breaks, Concerns, Types
  <2>2. ~Installed(a)
    BY <2>1 DEF BridgeInv, Agreement, Matches, InPlace
  <2> QED BY <2>2 DEF BridgeInv, Registry, SoftwareSound
<1> QED BY <1>1, BridgeInvariant, PTL
=============================================================================
