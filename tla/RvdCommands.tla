---------------------------- MODULE RvdCommands ----------------------------
(***************************************************************************)
(* A run of rvd: the definitions of the memory map are registered, then    *)
(* the command is executed for each selected context (FOR_EACH_CONTEXT):   *)
(* evaluate, execute, the debug commands, write, read and fill.  Beside    *)
(* the world the code works on, a second one is kept by the meaning of     *)
(* expressions as trees, which is what "rvd help expressions" describes.   *)
(***************************************************************************)
EXTENDS RvdFiles, TLC

CONSTANTS
  Maps,           \* memory maps: sequences of [mask, x, e, cut]
  Invocations,    \* [kind, size, ft, file, es, sel]: command, access size, type
                  \* and contents of its file, parameters, selected contexts
  Transfers       \* numbers of transfers the connection may last

(* Trees and the text they are written as.  "last" is an expression that    *)
(* ends in a semicolon, "name" and "str" also stand for such arguments.     *)
E(f, id, n, s, a) == [f |-> f, id |-> id, n |-> n, s |-> s, a |-> a]
Lit(n, s) == E("lit", "", n, s, <<>>)
Name(x) == E("name", x, 0, 0, <<>>)
Fn(f, a) == E("call", f, 0, 0, a)
Op(f, a, b) == E("op", f, 0, 0, <<a, b>>)
Un(f, a) == E("un", f, 0, 0, <<a>>)
Last(a) == E("last", "", 0, 0, <<a>>)
Str(n) == E("str", "", n, 0, <<>>)

RECURSIVE Text(_)
Bracketed(e, fs) ==
  IF e.f \in fs THEN <<Sign("(")>> \o Text(e) \o <<Sign(")")>> ELSE Text(e)
RECURSIVE ArgText(_)
ArgText(a) ==
  Bracketed(a[1], {"last"}) \o IF Len(a) = 1 THEN <<>> ELSE <<Sign(",")>> \o ArgText(Tail(a))
Text(e) ==
  CASE e.f = "lit" -> <<Token("lit", "", e.n, e.s)>>
    [] e.f = "str" -> <<Token("str", "", e.n, e.s)>>
    [] e.f = "name" -> <<Identifier(e.id)>>
    [] e.f = "un" -> <<Sign(e.id)>> \o Bracketed(e.a[1], {"op", "last"})
    [] e.f = "op" -> Bracketed(e.a[1], {"op", "last"}) \o <<Sign(e.id)>> \o Bracketed(e.a[2], {"last"})
    [] e.f = "last" -> Text(e.a[1]) \o <<Sign(";")>>
    [] e.f = "call" -> <<Identifier(e.id), Sign("(")>> \o ArgText(e.a) \o <<Sign(")")>>

-----------------------------------------------------------------------------
(* The meaning of a tree.  Definitions are a function of context and name,  *)
(* preloaded memory is a function of addresses.                             *)

Gives(v, w) == [r |-> 1, v |-> v, w |-> w]
Fails(r, w) == [r |-> r, v |-> Zero, w |-> w]
Bind(w, mask, x, e) == [w EXCEPT !.env = [k \in mask \X {x} |-> e] @@ @]

RECURSIVE Meaning(_, _, _)

MeantRead(w, a, f) ==
  LET preload == f \in DOMAIN PreloadSizes
      size == IF preload THEN PreloadSizes[f] ELSE ReadSizes[f]
      x == rvsrv_readSingle(w, a, size)
  IN IF preload /\ a .. a + size - 1 \subseteq DOMAIN w.pre
     THEN Gives(V(BigEndian(w.pre, a, size), size), w)
     ELSE [r |-> x.r, v |-> x.v, w |-> x.w]

MeantWrite(w, a, v, f) ==
  LET s == IF f = "write" THEN v.s ELSE WriteSizes[f]
      x == rvsrv_writeSingle(w, a, v.n, IF s = 0 THEN 4 ELSE s)
  IN [r |-> x.r, v |-> V(v.n, s), w |-> x.w]

MeantPreload(w, a, n) ==
  LET x == Transfer(w, "read", a, 0, n)
  IN IF n > PreloadMax THEN Fails(-1, w)
     ELSE IF n = 0 THEN Gives(Zero, [w EXCEPT !.pre = <<>>])
     ELSE IF x.r # 1 THEN Fails(x.r, x.w)
     ELSE Gives(Zero, [x.w EXCEPT !.pre = [b \in a .. a + n - 1 |-> w.mem[b]]])

RECURSIVE MeantWhile(_, _, _, _)
MeantWhile(a, w, d, v) ==
  Then(Meaning(a[1], w, d), LAMBDA c :
    IF c.v.n = 0 THEN Gives(v, c.w)
    ELSE Then(Meaning(a[2], c.w, d), LAMBDA b : MeantWhile(a, b.w, d, b.v)))

RECURSIVE MeantPrint(_, _, _)
MeantPrint(a, w, d) ==
  IF a = <<>> THEN Gives(Zero, w)
  ELSE Then(Meaning(a[1], w, d), LAMBDA b :
         MeantPrint(Tail(a), Logged(b.w, "print", 0, Trimmed(b.v), 0), d))

RECURSIVE MeantChain(_, _, _)
MeantChain(a, w, d) ==
  IF a = <<>> THEN Gives(Zero, w)
  ELSE IF Len(a) = 1 THEN Meaning(a[1], w, d)
  ELSE Then(Meaning(a[1], w, d), LAMBDA c :
         IF c.v.n # 0 THEN Meaning(a[2], c.w, d)
         ELSE MeantChain(SubSeq(a, 3, Len(a)), c.w, d))

Meaning(e, w, d) ==
  LET a == e.a
      Second(F(_, _)) == Then(Meaning(a[1], w, d), LAMBDA b :
                           Then(Meaning(a[2], b.w, d), LAMBDA c : F(b, c)))
  IN CASE e.f = "lit" -> Gives(V(e.n, e.s), w)
       [] e.f = "name" -> IF <<w.ctx, e.id>> \notin DOMAIN w.env \/ d = 0 THEN Fails(0, w)
                          ELSE Meaning(w.env[<<w.ctx, e.id>>], w, d - 1)
       [] e.f = "un" -> Then(Meaning(a[1], w, d), LAMBDA b : Gives(Unary(e.id, b.v), b.w))
       [] e.f = "op" -> Second(LAMBDA b, c : Gives(Operate(e.id, b.v, c.v), c.w))
       [] e.f = "last" -> Meaning(a[1], w, d)
       [] e.id \in {"if", "prioritize"} -> MeantChain(a, w, d)
       [] e.id = "while" -> MeantWhile(a, w, d, Zero)
       [] e.id = "printf" -> MeantPrint(Tail(a), w, d)
       [] e.id = "def" -> Gives(Zero, Bind(w, {w.ctx}, a[1].id, a[2]))
       [] e.id = "set" -> Then(Meaning(a[2], w, d), LAMBDA b :
                            Gives(b.v, Bind(b.w, {w.ctx}, a[1].id, Lit(b.v.n, 0))))
       [] e.id \in DOMAIN ReadSizes \cup DOMAIN PreloadSizes ->
            Then(Meaning(a[1], w, d), LAMBDA b : MeantRead(b.w, b.v.n, e.id))
       [] e.id \in DOMAIN WriteSizes -> Second(LAMBDA b, c : MeantWrite(c.w, b.v.n, c.v, e.id))
       [] e.id = "preload" -> Second(LAMBDA b, c : MeantPreload(c.w, b.v.n, c.v.n))
       [] e.id = "delay_ms" -> Then(Meaning(a[1], w, d), LAMBDA b :
                                 Gives(b.v, Logged(b.w, "sleep", 0, b.v.n, 0)))

-----------------------------------------------------------------------------
(* What a command does with the values vs of its parameters.  A bus fault   *)
(* is printed and the next context has its turn.                            *)

runEvaluate(vs, w) == [r |-> 1, w |-> Logged(w, "print", 0, Trimmed(vs[1]), 0)]
runDebug(w) == [r |-> 1, w |-> w]      \* and "rvd execute": no more is done
runWrite(vs, w) ==
  rvsrv_writeSingle(w, vs[1].n, Trimmed(vs[2]), IF vs[2].s = 0 THEN 4 ELSE vs[2].s)
runRead(size, vs, w) ==
  IF Len(vs) = 1 THEN rvsrv_readSingle(w, vs[1].n, size)
  ELSE Download("dump", vs[1].n, vs[2].n * size, w)
runFill(vs, w) == Fill(iterPageInit(vs[1].n, vs[2].n), vs[3].n % Base, w)

Perform(inv, vs, w) ==
  CASE inv.kind = "evaluate" -> runEvaluate(vs, w)
    [] inv.kind = "execute" -> runDebug(w)
    [] inv.kind = "write" -> runWrite(vs, w)
    [] inv.kind \in {"read", "dump"} -> runRead(inv.size, vs, w)
    [] inv.kind = "fill" -> runFill(vs, w)
    [] inv.kind = "upload" -> Upload(inv.ft, vs[1].n, w)
    [] inv.kind = "download" -> Download(inv.ft, vs[1].n, vs[2].n, w)

\* What they should do: every byte is accessed once, in order, with one
\* transfer for each run of bytes that lies within one page.
Byte(a, n) == [a |-> a, n |-> n]
Runs(bs) ==
  Cardinality({i \in DOMAIN bs : i = 1 \/ bs[i].a # bs[i - 1].a + 1 \/ bs[i].a % PageSize = 0})
LogOf(op, bs) ==
  [i \in DOMAIN bs |-> [op |-> op, a |-> bs[i].a, n |-> IF op = "read" THEN 0 ELSE bs[i].n, s |-> 1]]
Accessed(op, bs, w) ==
  IF Runs(bs) > w.left THEN [r |-> -1, w |-> w]
  ELSE [r |-> 1, w |-> [w EXCEPT !.left = @ - Runs(bs), !.log = @ \o LogOf(op, bs)]]

MeantStore(bs, w) ==
  LET x == Accessed("write", bs, w)
      writes(b) == {i \in DOMAIN bs : bs[i].a = b}
      last(b) == CHOOSE i \in writes(b) : \A j \in writes(b) : j <= i
  IN IF x.r = -1 THEN x
     ELSE [x EXCEPT !.w.mem = [b \in DOMAIN @ |-> IF writes(b) = {} THEN @[b] ELSE bs[last(b)].n]]

MeantFetch(ft, a, n, w) ==
  LET piece(b) == IF b - (b % PageSize) < a THEN a ELSE b - (b % PageSize)
      value(b) == IF b < MemBytes THEN w.mem[b] ELSE FaultCode[((b - piece(b)) % 4) + 1]
      bs == [i \in 1 .. n |-> Byte(a + i - 1, value(a + i - 1))]
      x == Accessed("read", bs, w)
  IN IF x.r = -1 \/ n = 0 THEN x
     ELSE [x EXCEPT !.w.file = CASE ft = "dump" -> @ \o bs [] ft = "srec" -> bs
                                 [] ft = "bin" -> [i \in 1 .. n |-> Byte(i - 1, bs[i].n)]]

MeantPerform(inv, vs, w) ==
  CASE inv.kind = "fill" ->
         MeantStore([i \in 1 .. vs[2].n |-> Byte(vs[1].n + i - 1, vs[3].n % Base)], w)
    [] inv.kind = "upload" ->
         MeantStore([i \in DOMAIN w.file |-> Byte((w.file[i].a + vs[1].n) % Word, w.file[i].n)], w)
    [] inv.kind = "dump" -> MeantFetch("dump", vs[1].n, vs[2].n * inv.size, w)
    [] inv.kind = "download" -> MeantFetch(inv.ft, vs[1].n, vs[2].n, w)
    [] OTHER -> Perform(inv, vs, w)

\* The bytes of a file, each with its address.
RecordBytes(r) == IF r.k = 0 THEN <<>> ELSE [i \in DOMAIN r.d |-> Byte((r.a + i - 1) % Word, r.d[i])]
FileBytes(ft, file) ==
  LET upTo[i \in 0 .. Len(file)] == IF i = 0 THEN <<>> ELSE upTo[i - 1] \o RecordBytes(file[i])
  IN IF ft = "bin" THEN [i \in DOMAIN file |-> Byte(i - 1, file[i])] ELSE upTo[Len(file)]

-----------------------------------------------------------------------------
VARIABLES
  phase,      \* "define", "start", "run" or "exit"
  todo,       \* definitions that are still to be read
  parsed,     \* whether all definitions so far were correct
  invocation,
  next, numContexts,
  world,      \* what the code works on
  ideal,      \* what the meaning of the expressions makes of it
  outcome, meant     \* [r, v] of the last evaluation, and what it should be

cmdVars == <<phase, todo, parsed, invocation, next, numContexts, world, ideal, outcome, meant>>

Nothing == [r |-> 1, v |-> Zero]
Brief(s) == [r |-> s.r, v |-> s.v]

CmdInit ==
  /\ phase = "define" /\ todo \in Maps /\ parsed = TRUE
  /\ invocation \in Invocations
  /\ next = 0 /\ numContexts = 0
  /\ \E n \in Transfers : LET mem == [a \in 0 .. MemBytes - 1 |-> a % Base] IN
       /\ world = [defs |-> <<>>, ctx |-> 0, mem |-> mem, pre |-> [a |-> 0, d |-> <<>>],
                   log |-> <<>>, left |-> n, file |-> invocation.file]
       /\ ideal = [env |-> <<>>, ctx |-> 0, mem |-> mem, pre |-> <<>>, log |-> <<>>, left |-> n,
                   file |-> FileBytes(invocation.ft, invocation.file)]
  /\ outcome = Nothing /\ meant = Nothing

\* A definition with an error is not registered, the ones after it are; rvd
\* then stops.
Define ==
  /\ phase = "define" /\ todo # <<>>
  /\ \E d \in {Head(todo)} :
     \E t \in {IF d.cut THEN SubSeq(Text(d.e), 1, Len(Text(d.e)) - 1) ELSE Text(d.e)} :
     \E s \in {registerDefinition(world, d.mask, d.x, t)} :
       /\ world' = s.w
       /\ parsed' = (parsed /\ s.r = 1)
       /\ ideal' = IF d.cut THEN ideal ELSE Bind(ideal, d.mask, d.x, d.e)
  /\ todo' = Tail(todo)
  /\ UNCHANGED <<phase, invocation, next, numContexts, outcome, meant>>

MeantContext(w, c) == [Bind(w, {c}, "_CUR_CONTEXT", Lit(c, 0)) EXCEPT !.ctx = c]

Start ==
  /\ phase = "define" /\ todo = <<>>
  /\ \E s \in {evaluate(<<Identifier("_NUM_CONTEXTS")>>, defs_setContext(world, 0))} :
     \E m \in {Meaning(Name("_NUM_CONTEXTS"), MeantContext(ideal, 0), ExpandDepth)} :
       IF ~parsed THEN phase' = "exit" /\ UNCHANGED <<numContexts, world, ideal, outcome, meant>>
       ELSE /\ world' = s.w /\ ideal' = m.w /\ outcome' = Brief(s) /\ meant' = Brief(m)
            /\ numContexts' = s.v.n
            /\ phase' = IF s.r = 1 /\ s.v.n \in 1 .. 32 THEN "run" ELSE "exit"
  /\ UNCHANGED <<todo, parsed, invocation, next>>

\* _ALWAYS, then the parameters, then the command itself.
RECURSIVE EvaluateAll(_, _, _)
EvaluateAll(es, vs, w) ==
  IF es = <<>> THEN [r |-> 1, vs |-> vs, w |-> w]
  ELSE LET s == evaluate(Text(es[1]), w)
       IN IF s.r < 1 THEN [r |-> s.r, vs |-> vs, w |-> s.w]
          ELSE EvaluateAll(Tail(es), Append(vs, s.v), s.w)
RECURSIVE MeantAll(_, _, _)
MeantAll(es, vs, w) ==
  IF es = <<>> THEN [r |-> 1, vs |-> vs, w |-> w]
  ELSE LET s == Meaning(es[1], w, ExpandDepth)
       IN IF s.r < 1 THEN [r |-> s.r, vs |-> vs, w |-> s.w]
          ELSE MeantAll(Tail(es), Append(vs, s.v), s.w)

LastOf(vs) == IF vs = <<>> THEN Zero ELSE vs[Len(vs)]

\* A command in the context that defs_setContext chose last.
RunCommand(w, v) ==
  \E s \in {EvaluateAll(<<Name("_ALWAYS")>> \o invocation.es, <<>>, w)} :
  \E x \in {IF s.r = 1 THEN Perform(invocation, Tail(s.vs), s.w) ELSE s} :
  \E m \in {MeantAll(<<Name("_ALWAYS")>> \o invocation.es, <<>>, v)} :
  \E y \in {IF m.r = 1 THEN MeantPerform(invocation, Tail(m.vs), m.w) ELSE m} :
    /\ world' = x.w /\ ideal' = y.w
    /\ outcome' = [r |-> x.r, v |-> LastOf(s.vs)]
    /\ meant' = [r |-> y.r, v |-> LastOf(m.vs)]
    /\ phase' = IF s.r < 1 \/ x.r = -1 \/ invocation.kind = "download" THEN "exit" ELSE "run"

Turn(c) == phase = "run" /\ next = c /\ c < numContexts /\ c \in invocation.sel

Execute(c) ==
  /\ Turn(c) /\ invocation.kind # "download"
  /\ RunCommand(defs_setContext(world, c), MeantContext(ideal, c))
  /\ next' = c + 1
  /\ UNCHANGED <<todo, parsed, invocation, numContexts>>

\* download looks for the one context that is selected.
Choose(c) ==
  /\ Turn(c) /\ invocation.kind = "download"
  /\ IF invocation.sel \cap 0 .. c - 1 # {}
     THEN phase' = "exit" /\ UNCHANGED <<world, ideal>>
     ELSE world' = defs_setContext(world, c) /\ ideal' = MeantContext(ideal, c) /\ UNCHANGED phase
  /\ next' = c + 1
  /\ UNCHANGED <<todo, parsed, invocation, numContexts, outcome, meant>>

Skip ==
  /\ phase = "run" /\ next < numContexts /\ next \notin invocation.sel
  /\ next' = next + 1
  /\ UNCHANGED <<phase, todo, parsed, invocation, numContexts, world, ideal, outcome, meant>>

\* It is an error if no context was selected.
Finish ==
  /\ phase = "run" /\ next = numContexts
  /\ IF invocation.kind = "download" /\ invocation.sel \cap 0 .. numContexts - 1 # {}
     THEN RunCommand(world, ideal)
     ELSE phase' = "exit" /\ UNCHANGED <<world, ideal, outcome, meant>>
  /\ UNCHANGED <<todo, parsed, invocation, next, numContexts>>

CmdNext ==
  Define \/ Start \/ (\E c \in Contexts : Execute(c) \/ Choose(c)) \/ Skip \/ Finish
-----------------------------------------------------------------------------
(* Properties *)

Names == {world.defs[i].x : i \in DOMAIN world.defs} \cup {k[2] : k \in DOMAIN ideal.env}
InForce(c, x) == IF <<c, x>> \in DOMAIN ideal.env THEN Text(ideal.env[<<c, x>>]) ELSE <<>>

BlockCommands == {"dump", "fill", "upload", "download"}
Agrees ==
  /\ outcome.r = meant.r
  /\ outcome.r # -1 =>
       /\ outcome.v = meant.v
       /\ world.mem = ideal.mem /\ world.log = ideal.log /\ world.left = ideal.left
       /\ FileBytes(invocation.ft, world.file) = ideal.file
       /\ \A c \in Contexts, x \in Names : defs_expand(world.defs, c, x) = InForce(c, x)
  /\ outcome.r = 1 =>
       \A a \in 0 .. MemBytes - 1 :
          IF InPreload(world, a, 1)
          THEN a \in DOMAIN ideal.pre /\ preload_read(world, a, 1).n = ideal.pre[a]
          ELSE a \notin DOMAIN ideal.pre

\* Scanning and evaluating in one pass gives each expression the meaning it
\* has as a tree: the same value or failure, and the same bus accesses, prints
\* and delays in the same order; branches that are not taken leave no trace,
\* and definitions are in force for the contexts they were made for (parser.c,
\* definitions.c, preload.c).
Meant == invocation.kind \notin BlockCommands => Agrees

\* Whatever the alignment of a block and the order of the records in a file,
\* every byte is transferred once, in the order of the file, to or from its own
\* address, with one transfer for each run of bytes within a page; a file
\* downloaded holds what memory held (iterPage, srecRead, srecWrite, the loops
\* of runUpload and runDownload).
BlocksExact == invocation.kind \in BlockCommands => Agrees
=============================================================================
