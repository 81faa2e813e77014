------------------------------- MODULE MCRvd -------------------------------
(***************************************************************************)
(* Two contexts with registers of their own, expressions that use every    *)
(* operation, files whose records jump between pages, and what a user may  *)
(* have gdb do.  Text comes back in few shapes, so that all are listed.    *)
(***************************************************************************)
EXTENDS Rvd

Def(mask, x, e) == [mask |-> mask, x |-> x, e |-> e, cut |-> FALSE]
Basics ==
  <<Def(Contexts, "_NUM_CONTEXTS", Lit(2, 0)),
    Def(Contexts, "_ALWAYS", Fn("writeByte", <<Lit(0, 0), Name("_CUR_CONTEXT")>>)),
    Def({0}, "reg", Lit(4, 0)),
    Def({1}, "reg", Op("+", Lit(4, 0), Op("*", Name("_CUR_CONTEXT"), Lit(2, 0))))>>
MCMaps == {
  Basics \o <<Def(Contexts, "i", Lit(0, 0)), Def(Contexts, "loop", Name("loop")),
              Def(Contexts, "twice", Op("+", Name("i"), Name("i")))>>,
  Basics \o <<[mask |-> Contexts, x |-> "bad", e |-> Fn("read", <<Name("reg")>>), cut |-> TRUE]>>,
  <<Def(Contexts, "_NUM_CONTEXTS", Lit(0, 0))>>}

With(k, size, ft, file, es) ==
  {[kind |-> k, size |-> size, ft |-> ft, file |-> file, es |-> es, sel |-> s] : s \in SUBSET Contexts}
Cmd(k, es) == With(k, 4, "dump", <<>>, es)
Set(x, e) == Fn("set", <<Name(x), e>>)
Bump == Set("i", Op("+", Name("i"), Lit(1, 0)))
Counting ==
  Fn("while", <<Op("<", Name("i"), Lit(2, 0)),
                Op(";", Fn("printf", <<Str(2), Name("i"), Fn("readByte", <<Name("reg")>>)>>), Bump)>>)
Defining ==
  Op(";", Fn("def", <<Name("f"), Fn("if", <<Fn("readHalf", <<Name("reg")>>), Last(Bump),
                                             Fn("writeHalf", <<Name("reg"), Lit(9, 0)>>)>>)>>),
          Op("-", Name("f"), Un("~", Op("+", Name("f"), Name("f")))))
Choosing ==
  Fn("prioritize", <<Op("==", Name("_CUR_CONTEXT"), Lit(1, 0)), Fn("write", <<Lit(4, 0), Lit(7, 1)>>),
                     Bump, Fn("delay_ms", <<Lit(3, 0)>>), Fn("read", <<Lit(0, 0)>>), Bump>>)
Preloading ==
  Op(";", Fn("preload", <<Lit(2, 0), Lit(3, 0)>>),
     Op(";", Fn("writeByte", <<Lit(3, 0), Lit(0, 0)>>),
        Op("+", Fn("readHalfPreload", <<Lit(3, 0)>>), Fn("readHalfPreload", <<Lit(4, 0)>>))))

Files == {
  <<Other, Record(1, 1, <<3, 2>>), Record(1, 3, <<1, 0, 3>>), Record(1, 0, <<2>>), Other>>,
  <<Record(1, 6, <<1, 1, 1>>), Record(0, 0, <<>>), Record(1, 2, <<0, 3, 0>>)>>,
  <<Record(1, 0, <<3, 3, 3, 3>>), Record(1, 4, <<2, 2>>), Record(1, 1, <<1>>)>>,
  <<Other>>}

MCInvocations == UNION {
  Cmd("evaluate", <<Counting>>), Cmd("evaluate", <<Defining>>), Cmd("evaluate", <<Preloading>>),
  Cmd("evaluate", <<Fn("if", <<Lit(0, 0), Fn("readPreload", <<Lit(40, 0)>>)>>)>>),
  Cmd("evaluate", <<Op("+", Lit(1, 2), Fn("read", <<Lit(40, 0)>>))>>),
  Cmd("execute", <<Choosing>>), Cmd("execute", <<Name("loop")>>),
  Cmd("execute", <<Fn("preload", <<Lit(0, 0), Lit(9, 0)>>)>>),
  Cmd("write", <<Name("reg"), Op("-", Name("twice"), Lit(1, 2))>>),
  Cmd("read", <<Name("reg")>>),
  With("dump", 1, "dump", <<>>, <<Lit(3, 0), Name("reg")>>),
  With("dump", 2, "dump", <<>>, <<Lit(5, 0), Lit(3, 0)>>),
  Cmd("fill", <<Name("reg"), Lit(5, 0), Op("+", Name("_CUR_CONTEXT"), Lit(5, 0))>>),
  UNION {With("upload", 0, "srec", f, <<a>>) : f \in Files, a \in {Lit(0, 0), Name("_CUR_CONTEXT")}},
  UNION {With("upload", 0, "bin", f, <<Name("reg")>>) : f \in {<<>>, <<1, 2, 3>>, <<3, 2, 1, 0>>}},
  UNION {With("download", 0, ft, f, <<Lit(1, 0), Name("reg")>>) : ft \in {"srec", "bin"}, f \in {<<>>}},
  With("download", 0, "srec", <<Other>>, <<Lit(5, 0), Lit(5, 0)>>),
  With("download", 0, "bin", <<3>>, <<Name("reg"), Lit(0, 0)>>)}

Packet(k, type, a) == [k |-> k, type |-> type, a |-> a]
MCSessions == {
  <<Packet("Z", 0, 1), Packet("c", 0, 0), Packet("z", 0, 1), Packet("M", 0, 1), Packet("Z", 0, 1),
    Packet("z", 0, 1)>>,
  <<Packet("Z", 1, 1), Packet("Z", 1, 2), Packet("vRun", 0, 0), Packet("z", 1, 1), Packet("Z", 1, 1)>>,
  <<Packet("Z", 0, 2), Packet("Z", 0, 1), Packet("Z", 0, 2), Packet("Z", 1, 1), Packet("z", 0, 1),
    Packet("z", 0, 2), Packet("D", 0, 0)>>,
  <<Packet("Z", 0, 1), Packet("Z", 0, 3), Packet("z", 0, 1), Packet("M", 0, 1), Packet("Z", 0, 1),
    Packet("c", 0, 0), Packet("z", 0, 3), Packet("z", 0, 1)>>,
  <<Packet("Z", 1, 3), Packet("Z", 2, 3), Packet("z", 1, 3), Packet("Z", 0, 3), Packet("z", 0, 3)>>,
  <<Packet("Z", 0, 4), Packet("M", 0, 4), Packet("Z", 4, 2), Packet("z", 0, 4), Packet("M", 0, 3)>>,
  <<Packet("q", 0, 0), Packet("D", 0, 0), Packet("c", 0, 0), Packet("M", 0, 1)>>}
=============================================================================
