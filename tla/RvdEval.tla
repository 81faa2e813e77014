------------------------------ MODULE RvdEval ------------------------------
(***************************************************************************)
(* The expression language of rvd (parser.c, definitions.c, preload.c).    *)
(* rvd keeps no syntax tree: one pass over the text scans and evaluates at *)
(* the same time, expansions of definitions are scanned as they are met,   *)
(* and what must not be executed is scanned with depth -1.  Text is a      *)
(* sequence of tokens here.  The world holds what an evaluation can change *)
(* or observe: definitions, current context, memory behind rvsrv, preload  *)
(* buffer, and the log of bus accesses, printed values and delays.         *)
(***************************************************************************)
EXTENDS Integers, Sequences, FiniteSets, Bitwise

CONSTANTS
  Contexts,       \* contexts, counted from 0 (32 bits of a mask in the code)
  Base,           \* values of a byte (256)
  MemBytes,       \* bytes of memory mapped on the bus, from address 0
  PreloadMax,     \* largest preload (4096 bytes)
  ExpandDepth     \* nested expansions allowed (256)

Word == Base * Base * Base * Base
Size == 0 .. 4                          \* 0: AS_UNDEFINED; else bytes
V(n, s) == [n |-> n, s |-> s]
Zero == V(0, 0)

(* Tokens.  A format string stands for the number n of conversions in it,   *)
(* and for s # 0 an unsupported conversion follows them.                    *)
Token(k, id, n, s) == [k |-> k, id |-> id, n |-> n, s |-> s]
Sign(k) == Token(k, "", 0, 0)
Literal(v) == Token("lit", "", v.n, v.s)
Identifier(x) == Token("id", x, 0, 0)
At(t, p) == IF p <= Len(t) THEN t[p] ELSE Sign("end")

Operators == {"+", "-", "*", "/", "%", "==", "!=", ">", ">=", "<", "<=", "<<",
              ">>", "&&", "&", "||", "|", "^", ";"}
Bool(b) == IF b THEN 1 ELSE 0
mergeSize(a, b) == IF a > b THEN a ELSE b

Compute(op, a, b) ==
  CASE op = "+" -> (a + b) % Word    [] op = "-" -> (a - b) % Word
    [] op = "*" -> (a * b) % Word    [] op = "/" -> IF b = 0 THEN 0 ELSE a \div b
    [] op = "%" -> IF b = 0 THEN 0 ELSE a % b
    [] op = "==" -> Bool(a = b)      [] op = "!=" -> Bool(a # b)
    [] op = ">" -> Bool(a > b)       [] op = ">=" -> Bool(a >= b)
    [] op = "<" -> Bool(a < b)       [] op = "<=" -> Bool(a <= b)
    [] op = "<<" -> (a * 2 ^ b) % Word  [] op = ">>" -> a \div 2 ^ b
    [] op = "&&" -> Bool(a # 0 /\ b # 0)  [] op = "||" -> Bool(a # 0 \/ b # 0)
    [] op = "&" -> a & b  [] op = "|" -> a | b  [] op = "^" -> a ^^ b

Operate(op, a, b) ==
  IF op = ";" THEN b ELSE V(Compute(op, a.n, b.n), mergeSize(a.s, b.s))

Unary(op, a) ==
  [a EXCEPT !.n = CASE op = "-" -> (-a.n) % Word
                    [] op = "~" -> Word - 1 - a.n
                    [] op = "!" -> Bool(a.n = 0)]

-----------------------------------------------------------------------------
(* Memory behind rvsrv.  rvsrv_* return 1, 0 on a bus fault, and -1 when    *)
(* the connection is lost, which is so after w.left more transfers.         *)

Mapped(a, size) == a + size <= MemBytes
BigEndian(m, a, size) ==
  LET value[i \in 0 .. size] ==
        IF i = 0 THEN 0 ELSE value[i - 1] * Base + m[a + i - 1]
  IN value[size]
Logged(w, op, a, n, s) ==
  [w EXCEPT !.log = Append(@, [op |-> op, a |-> a, n |-> n, s |-> s])]

Transfer(w, op, a, n, s) ==
  IF w.left = 0 THEN [r |-> -1, w |-> w]
  ELSE [r |-> Bool(Mapped(a, s)), w |-> [Logged(w, op, a, n, s) EXCEPT !.left = @ - 1]]

rvsrv_readSingle(w, a, size) ==
  LET x == Transfer(w, "read", a, 0, size)
  IN [r |-> x.r, w |-> x.w,
      v |-> V(IF x.r = 1 THEN BigEndian(w.mem, a, size) ELSE 0, size)]

Written(m, a, n, size) ==
  [b \in DOMAIN m |-> IF b \in a .. a + size - 1
                      THEN (n \div Base ^ (a + size - 1 - b)) % Base ELSE m[b]]

rvsrv_writeSingle(w, a, n, size) ==
  LET x == Transfer(w, "write", a, n % Base ^ size, size)
  IN IF x.r = 1 THEN [x EXCEPT !.w.mem = Written(@, a, n, size)] ELSE x

\* A preload replaces the buffer, also when the bulk read then fails.
preload_load(w, a, size) ==
  IF size > PreloadMax THEN [r |-> -1, w |-> w]
  ELSE IF size = 0 THEN [r |-> 1, w |-> [w EXCEPT !.pre = [a |-> 0, d |-> <<>>]]]
  ELSE LET x == Transfer(w, "read", a, 0, size)
       IN [x EXCEPT !.w.pre =
             [a |-> a, d |-> [i \in 1 .. size |-> IF x.r = 1 THEN w.mem[a + i - 1] ELSE 0]]]

InPreload(w, a, size) ==
  w.pre.a <= a /\ (a + size) % Word <= (w.pre.a + Len(w.pre.d)) % Word
preload_read(w, a, size) ==
  V(BigEndian(w.pre.d, a - w.pre.a + 1, size), size)

-----------------------------------------------------------------------------
(* Definitions: records of a context mask, a name and an expansion, newest  *)
(* first.                                                                   *)

defs_register(defs, mask, x, text) ==
  LET same == {i \in DOMAIN defs : defs[i].mask = mask /\ defs[i].x = x}
  IN IF same # {} THEN [i \in DOMAIN defs |-> IF i \in same THEN [defs[i] EXCEPT !.t = text]
                                              ELSE defs[i]]
     ELSE <<[mask |-> mask, x |-> x, t |-> text]>> \o defs

defs_registerLocal(w, x, text) ==
  [w EXCEPT !.defs = defs_register(@, {w.ctx}, x, text)]

\* The expansion in force for a context; <<>> if there is none.
defs_expand(defs, c, x) ==
  LET found == {i \in DOMAIN defs : c \in defs[i].mask /\ defs[i].x = x}
  IN IF found = {} THEN <<>> ELSE defs[CHOOSE i \in found : \A j \in found : i <= j].t

defs_setContext(w, c) ==
  [w EXCEPT !.defs = defs_register(@, {c}, "_CUR_CONTEXT", <<Literal(V(c, 0))>>),
            !.ctx = c]

-----------------------------------------------------------------------------
(* Scanning.  A scan of text t from position p in world w returns a result  *)
(* [r, p, v, w]: r is 1, 0 for an error in the expression and -1 for a       *)
(* fatal one; effects that came before a failure stay.  With depth -1        *)
(* nothing is expanded or executed.                                          *)

Result(p, v, w) == [r |-> 1, p |-> p, v |-> v, w |-> w]
Failed(s, r) == [s EXCEPT !.r = r]
Then(s, Continue(_)) == IF s.r = 1 THEN Continue(s) ELSE s
Expect(t, s, k) ==
  Then(s, LAMBDA u : IF At(t, u.p).k = k THEN [u EXCEPT !.p = @ + 1] ELSE Failed(u, 0))
\* The outcome x of an operation on the bus, after scan s.
Take(s, x, v) == [s EXCEPT !.r = x.r, !.w = x.w, !.v = v]

\* Seeded fault: a branch that is not taken is executed.
ExecutesAll(chosen, d) == d

\* What is not to be executed is scanned with depth -1.
Depth(chosen, d) == IF chosen THEN d ELSE -1

Trimmed(v) == IF v.s \in {1, 2} THEN v.n % Base ^ v.s ELSE v.n

RECURSIVE scanExpression(_, _, _, _)

\* ... "," expression
NextArg(t, s, d) ==
  Then(Expect(t, s, ","), LAMBDA u : scanExpression(t, u.p, u.w, d))

ReadSizes == [read |-> 4, readByte |-> 1, readHalf |-> 2, readWord |-> 4]
PreloadSizes == [readPreload |-> 4, readBytePreload |-> 1, readHalfPreload |-> 2,
                 readWordPreload |-> 4]
CallRead(t, p, w, d, f) ==
  Then(Expect(t, scanExpression(t, p, w, d), ")"), LAMBDA s :
    LET preload == f \in DOMAIN PreloadSizes
        size == IF preload THEN PreloadSizes[f] ELSE ReadSizes[f]
        x == rvsrv_readSingle(s.w, s.v.n, size)
    IN IF d = -1 THEN s
       ELSE IF preload /\ InPreload(s.w, s.v.n, size)
            THEN [s EXCEPT !.v = preload_read(s.w, s.v.n, size)]
       ELSE Take(s, x, x.v))

WriteSizes == [write |-> 0, writeByte |-> 1, writeHalf |-> 2, writeWord |-> 4]
CallWrite(t, p, w, d, f) ==
  Then(scanExpression(t, p, w, d), LAMBDA address :
    Then(Expect(t, NextArg(t, address, d), ")"), LAMBDA s :
      LET s0 == IF WriteSizes[f] = 0 THEN s.v.s ELSE WriteSizes[f]
          size == IF s0 = 0 THEN 4 ELSE s0
      IN IF d = -1 THEN s
         ELSE Take(s, rvsrv_writeSingle(s.w, address.v.n, s.v.n, size), V(s.v.n, s0))))

CallPreload(t, p, w, d) ==
  Then(scanExpression(t, p, w, d), LAMBDA address :
    Then(Expect(t, NextArg(t, address, d), ")"), LAMBDA count :
      IF d = -1 THEN count
      ELSE Take(count, preload_load(count.w, address.v.n, count.v.n), Zero)))

\* One argument per conversion, printed as soon as it is evaluated.
RECURSIVE PrintArgs(_, _, _, _)
PrintArgs(t, s, n, d) ==
  IF n = 0 \/ s.r # 1 THEN s
  ELSE LET a == NextArg(t, s, d)
       IN PrintArgs(t, IF d = -1 \/ a.r # 1 THEN a
                       ELSE [a EXCEPT !.w = Logged(@, "print", 0, Trimmed(a.v), 0)],
                    n - 1, d)
CallPrintf(t, p, w, d) ==
  IF At(t, p).k # "str" THEN Failed(Result(p, Zero, w), 0)
  ELSE Then(PrintArgs(t, Result(p + 1, Zero, w), At(t, p).n, d), LAMBDA s :
         IF At(t, p).s # 0 THEN Failed(s, 0) ELSE Expect(t, [s EXCEPT !.v = Zero], ")"))

\* The definition is registered before the closing parenthesis is looked for.
\* The switch that formats the literal of a set() falls through to the form
\* without an access size.
Scanned(t, p, s) == SubSeq(t, p, s.p - 1)
CallDefine(t, p, w, d, f) ==
  IF At(t, p).k # "id" THEN Failed(Result(p, Zero, w), 0)
  ELSE LET s == NextArg(t, Result(p + 1, Zero, w), Depth(f = "set", d))
           text == IF f = "def" THEN Scanned(t, p + 2, s) ELSE <<Literal(V(s.v.n, 0))>>
           v == IF f = "def" THEN Zero ELSE s.v
       IN Then(s, LAMBDA u : Expect(t,
            [u EXCEPT !.v = v,
                      !.w = IF d = -1 THEN @ ELSE defs_registerLocal(@, t[p].id, text)], ")"))

CallIf(t, p, w, d) ==
  Then(scanExpression(t, p, w, d), LAMBDA c :
    LET true == c.v.n # 0
    IN Then(NextArg(t, c, Depth(true, d)), LAMBDA a :
         IF At(t, a.p).k = ","
         THEN Then(Expect(t, NextArg(t, a, Depth(~true, d)), ")"), LAMBDA b :
                [b EXCEPT !.v = IF true THEN a.v ELSE @])
         ELSE Expect(t, [a EXCEPT !.v = IF true THEN @ ELSE Zero], ")")))

RECURSIVE Priorities(_, _, _, _, _, _)
Priorities(t, p, w, d, done, v) ==
  Then(scanExpression(t, p, w, Depth(~done, d)), LAMBDA c :
    LET now == ~done /\ c.v.n # 0
    IN Then(NextArg(t, c, Depth(now, d)), LAMBDA a :
         LET u == IF now THEN a.v ELSE v
         IN IF At(t, a.p).k = ","
            THEN Priorities(t, a.p + 1, a.w, d, done \/ now, u)
            ELSE Expect(t, [a EXCEPT !.v = u], ")")))

\* Both parts are scanned once to find the end, then again for each round.
RECURSIVE Loop(_, _, _, _, _, _)
Loop(t, condition, command, w, d, v) ==
  Then(scanExpression(t, condition, w, d), LAMBDA c :
    IF c.v.n = 0 THEN [c EXCEPT !.v = v]
    ELSE Then(scanExpression(t, command, c.w, d), LAMBDA s :
           Loop(t, condition, command, s.w, d, s.v)))
CallWhile(t, p, w, d) ==
  Then(scanExpression(t, p, w, -1), LAMBDA c :
    Then(Expect(t, NextArg(t, c, -1), ")"), LAMBDA end :
      IF d = -1 THEN [end EXCEPT !.v = Zero]
      ELSE Then(Loop(t, p, c.p + 1, end.w, d, Zero), LAMBDA s : [s EXCEPT !.p = end.p])))

CallDelay(t, p, w, d) ==
  Then(Expect(t, scanExpression(t, p, w, d), ")"), LAMBDA s :
    IF d = -1 THEN s ELSE [s EXCEPT !.w = Logged(@, "sleep", 0, s.v.n, 0)])

Call(t, p, w, d, f) ==
  CASE f \in DOMAIN ReadSizes \cup DOMAIN PreloadSizes -> CallRead(t, p, w, d, f)
    [] f \in DOMAIN WriteSizes -> CallWrite(t, p, w, d, f)
    [] f = "preload" -> CallPreload(t, p, w, d)
    [] f = "printf" -> CallPrintf(t, p, w, d)
    [] f \in {"def", "set"} -> CallDefine(t, p, w, d, f)
    [] f = "if" -> CallIf(t, p, w, d)
    [] f = "prioritize" -> Priorities(t, p, w, d, FALSE, Zero)
    [] f = "while" -> CallWhile(t, p, w, d)
    [] f = "delay_ms" -> CallDelay(t, p, w, d)
    [] OTHER -> Failed(Result(p, Zero, w), 0)

Expand(p, w, d, x) ==
  LET text == defs_expand(w.defs, w.ctx, x)
  IN IF d = -1 THEN Result(p, Zero, w)
     ELSE IF text = <<>> \/ d = 0 THEN Failed(Result(p, Zero, w), 0)
     ELSE [scanExpression(text, 1, w, d - 1) EXCEPT !.p = p]

RECURSIVE scanOperand(_, _, _, _)
scanOperand(t, p, w, d) ==
  LET k == At(t, p)
  IN CASE k.k \in {"-", "~", "!"} ->
            Then(scanOperand(t, p + 1, w, d), LAMBDA s : [s EXCEPT !.v = Unary(k.k, @)])
       [] k.k = "(" -> Expect(t, scanExpression(t, p + 1, w, d), ")")
       [] k.k = "lit" -> Result(p + 1, V(k.n, k.s), w)
       [] k.k = "id" -> IF At(t, p + 1).k = "(" THEN Call(t, p + 2, w, d, k.id)
                        ELSE Expand(p + 1, w, d, k.id)
       [] OTHER -> Failed(Result(p, Zero, w), 0)

\* No precedence, and every operator is right associative.
scanExpression(t, p, w, d) ==
  Then(scanOperand(t, p, w, d), LAMBDA a :
    LET op == At(t, a.p).k
    IN IF op \notin Operators THEN a
       ELSE IF op = ";" /\ At(t, a.p + 1).k \in {"end", ")"} THEN [a EXCEPT !.p = @ + 1]
       ELSE Then(scanExpression(t, a.p + 1, a.w, d), LAMBDA b :
              [b EXCEPT !.v = Operate(op, a.v, @)]))

\* The whole text must be one expression.
Whole(t, s) == IF s.r = 1 /\ s.p <= Len(t) THEN Failed(s, 0) ELSE s
evaluate(t, w) == Whole(t, scanExpression(t, 1, w, ExpandDepth))

\* A definition of a memory map or of the command line.
registerDefinition(w, mask, x, t) ==
  LET s == Whole(t, scanExpression(t, 1, w, -1))
  IN IF s.r = 1 THEN [s EXCEPT !.w.defs = defs_register(@, mask, x, t)] ELSE s
=============================================================================
