----------------------------- MODULE MCPipeline -----------------------------
(* Pipeline on a thousand small programs. *)
EXTENDS Pipeline

int(n) == Const(arc_val_i64(n))
float(n) == Const(arc_val_f64(n))   \* in halves
true == Const(arc_val_bool(TRUE))
null == Const(arc_val_null)

Output(e) == Op("ROOT_OUTPUT", <<e>>)
Prog(funcs, stmts, e) == [funcs |-> funcs, root |-> stmts, output |-> Output(e)]
Good(p) == [parses |-> TRUE, valid |-> TRUE, program |-> p]
OfExpr(e) == Prog(<<>>, <<>>, e)

Let(x, e) == Named("LET", x, <<e>>)
Assign(x, e) == Named("ASSIGN", x, <<e>>)
print(e) == Op("PRINT", <<e>>)
return(e) == Op("RETURN", <<e>>)
break_if(e) == Op("BREAK_IF", <<e>>)
call(f, args) == Named("FUNC_CALL", f, args)
add(a, b) == Op("ADD", <<a, b>>)
sub(a, b) == Op("SUB", <<a, b>>)
lt(a, b) == Op("LT", <<a, b>>)
string == Const(<<"str", "s">>)
array == Op("ARRAY_LITERAL", <<int(1), int(2)>>)
cast(t, a) == Named("CAST", t, <<a>>)
if(c, s, t) == Block("IF", <<c>>, <<s, t>>)
while(c, s) == Block("WHILE", <<c>>, <<s>>)
cycle(s) == Block("CYCLE", <<>>, <<s>>)
x == Var("x")
n == Var("n")

\* Expressions of constants, some of which are folded and some are not.
Atoms == {int(0), int(2), int(-3), float(0), float(2), float(4), true, null}
Binary(S, T) == {Op(k, <<a, b>>) : k \in Arithmetic \cup Comparison, a \in S, b \in T}
Unary(S) == {Op(k, <<a>>) : k \in {"NEG", "NOT"}, a \in S}
Exact(e) == ~ (e.kind \in {"DIV", "MOD"} /\ \E i \in 1 .. 2 : e.in[i].value = arc_val_f64(0))
Expressions ==
  {e \in Binary(Atoms, Atoms) : Exact(e)}
  \cup Binary({Op("NEG", <<int(2)>>), Op("NOT", <<int(0)>>), Op("MOD", <<int(2), int(0)>>)}, {int(0), true})
  \cup Unary(Unary(Atoms) \cup {add(int(2), true)})
  \cup {Op(k, <<a, b>>) : k \in Bits, a \in {int(6), int(-3), float(2), true}, b \in {int(0), int(3), int(9), float(4)}}
  \cup {Op("BIT_NOT", <<a>>) : a \in {int(2), float(2), true}}
  \cup {Op(k, <<a, b>>) : k \in {"AND", "OR"}, a, b \in {int(0), add(int(0), int(2))}}

\* Expressions that are not folded, of operands of a type that is known.
Typed == {cast("I64", int(-3)), cast("F64", int(2)), cast("I64", string), string, Op("LENGTH", <<array>>),
          array, Op("STR_LEN", <<string>>), Op("MOD", <<cast("F64", int(3)), cast("F64", int(2))>>)}
TypedExpressions ==
  Binary({cast("I64", float(5)), cast("F64", true), string, array, add(string, cast("STRING", int(2)))}, Typed)
  \cup {Op(k, <<a, b>>) : k \in Bits, a, b \in {cast("I64", int(-3)), cast("F64", int(2)), string}}
  \cup {Op(k, <<a>>) : k \in {"NEG", "NOT", "BIT_NOT", "STR_LEN"}, a \in Typed}
  \cup {add(Op("SHR", <<cast("I64", null), int(1)>>), float(2)), cast("F64", array), cast("F64", string),
         Op("STR_INDEX", <<string, int(0)>>), Op("STR_INDEX", <<array, int(0)>>),
         Op("STR_SLICE", <<array, int(0), int(1)>>), Op("STR_SLICE", <<string, int(0), int(1)>>),
         add(Op("INDEX_GET", <<array, int(0)>>), string)}

\* Statements on a variable that starts at 0.
Simple == {Assign("x", add(x, int(1))), print(x), Let("y", x)}
Blocks ==
  {if(lt(x, int(1)), <<s>>, <<t>>) : s, t \in Simple}
  \cup {while(lt(x, int(2)), <<s, Assign("x", add(x, int(1)))>>) : s \in Simple}
  \cup {cycle(<<break_if(lt(int(1), x)), s, t>>) : s, t \in Simple \cup {if(x, <<>>, <<Assign("x", int(1))>>)}}
  \cup {cycle(<<break_if(lt(x, int(1))), Let("y", x)>>)}
  \cup {cycle(<<s, break_if(lt(int(1), x)), Assign("x", add(x, int(1)))>>) : s \in Simple}
Statements ==
  {Prog(<<>>, <<Let("x", int(0)), s, t>>, x) : s \in Blocks, t \in Simple}
  \cup {Prog(<<>>, <<Let("x", int(0)), s>>, Var("y")) : s \in Blocks \cup Simple}

\* Functions: recursive, calling each other, returning early.
Bodies ==
  {<<return(e)>> : e \in {n, add(n, n), int(7)}}
  \cup {<<if(lt(n, int(1)), <<return(int(0))>>, <<>>), return(add(call("f", <<sub(n, int(1))>>), int(1)))>>,
        <<if(lt(n, int(1)), <<Assign("n", int(5))>>, <<return(n)>>)>>,
        <<while(lt(n, int(3)), <<Assign("n", add(n, int(1)))>>), return(n)>>,
        <<while(true, <<return(n)>>), return(n)>>,
        <<if(n, <<Let("m", n)>>, <<>>), return(n)>>,
        <<print(n), return(null)>>,
        <<Let("m", n), return(Var("m"))>>,
        <<if(lt(n, int(1)), <<return(n)>>, <<>>), Assign("n", int(5))>>,
        <<print(n)>>, <<Op("RETURN", <<Missing>>)>>, <<>>}
Functions ==
  {Prog(<<Func("f", <<"n">>, b)>>, <<Let("x", call("f", <<a>>))>>, add(x, call("f", <<int(1)>>))) :
     b \in Bodies, a \in {int(0), int(2), true}}
  \cup {Prog(<<Func("g", <<>>, <<return(call("f", args))>>), Func("f", <<"n">>, b)>>, <<>>, call("g", <<>>)) :
     b \in {<<return(n)>>, <<return(call("g", <<>>))>>}, args \in {<<int(1)>>, <<>>, <<int(1), int(2)>>}}

\* More arguments than the interpreter takes, the last one with an effect.
LongCall ==
  Prog(<<Func("g", <<>>, <<print(int(1)), return(int(2))>>), Func("f", <<"n", "m", "k">>, <<return(n)>>)>>, <<>>,
       call("f", <<int(0), int(1), call("g", <<>>)>>))
\* A function defined inside a loop.
InCycle == Func("f", <<>>, <<return(int(1))>>)

\* What only the compiler knows.
Try(s, t) == Block("TRY", <<>>, <<s, t>>)
Inner == Func("inner", <<>>, <<Assign("x", add(x, int(1))), return(x)>>)
\* Main runs through Skip, which does nothing, and keeps its closure in its first slot.
Skip == Func("skip", <<>>, <<if(int(0), <<Assign("x", int(1))>>, <<>>), if(true, <<>>, <<return(null)>>)>>)
Branch == Func("branch", <<>>, <<if(true, <<>>, <<return(null)>>)>>)
Opaque ==
  {OfExpr(Named(k, "r", <<array>>)) :
     k \in {"LENGTH", "THREAD_JOIN", "CHAN_RECV", "FIELD_GET", "INTRINSIC_CALL"}}
  \cup {OfExpr(Op("INDEX_GET", <<Node("MAP_LITERAL", "", arc_val_i64(1), <<int(1), int(2)>>, <<>>), int(1)>>)),
        OfExpr(Named("FIELD_SET", "r", <<Named("RECORD_NEW", "r", <<>>), int(1)>>)),
        Prog(<<>>, <<Op("INDEX_SET", <<Op("ARRAY_LITERAL", <<int(1)>>), int(0), int(1)>>)>>, null),
        Prog(<<>>, <<Op("CHAN_SEND", <<Node("CHAN_NEW", "", arc_val_i64(1), <<>>, <<>>), int(1)>>),
                     Op("MUTEX_LOCK", <<Op("MUTEX_NEW", <<>>)>>)>>, null),
        Prog(<<Func("f", <<"n">>, <<return(n)>>)>>, <<Let("x", Named("THREAD_SPAWN", "f", <<int(1)>>))>>,
             Op("THREAD_JOIN", <<x>>)),
        Prog(<<>>, <<Try(<<print(int(1)), Op("THROW", <<int(2)>>)>>, <<print(int(3))>>), Op("THROW", <<int(4)>>)>>, null),
        Prog(<<>>, <<Try(<<print(int(1))>>, <<>>)>>, add(null, int(1))),
        Prog(<<Inner>>, <<Let("x", int(0)), Let("c", Op("CLOSURE", <<Inner>>))>>, Var("c")),
        Prog(<<Inner, Func("f", <<"x">>, <<return(Op("CLOSURE", <<Inner>>))>>)>>, <<>>, call("f", <<int(1)>>)),
        Prog(<<Inner>>, <<Let("x", int(0)), Let("c", Op("CLOSURE", <<Inner>>))>>, call("inner", <<>>)),
        Prog(<<Branch>>, <<>>, Op("CLOSURE", <<Branch>>)),
        Prog(<<Skip, Inner>>, <<Let("c", null), Let("x", int(0)), Assign("c", Op("CLOSURE", <<Skip>>))>>,
             Op("CLOSURE", <<Inner>>))}

\* Graphs with something missing or unknown.
Odd ==
  {Prog(<<>>, <<s>>, e) : s \in {Assign("x", int(1)), Op("NAND", <<>>), break_if(true), return(int(1)),
                                 print(Missing), if(Missing, <<>>, <<>>)},
                          e \in {int(1), x, call("f", <<>>), add(int(1), Missing), Op("NOT", <<Missing>>)}}
  \cup {LongCall, Prog(<<InCycle>>, <<cycle(<<break_if(true), InCycle>>)>>, call("f", <<>>))}
  \cup {[OfExpr(int(1)) EXCEPT !.output = Missing, !.root = <<print(int(1))>>]}

CycleTexts ==
  {Good(Prog(<<>>, <<Let("x", int(0)), cycle(<<Assign("x", add(x, int(1))), break_if(lt(int(1), x)),
                                              Assign("x", add(x, int(1)))>>)>>, x))}
BlockTexts ==
  {Good(Prog(<<Func("f", <<"n">>, <<if(true, <<Let("y", n), Assign("n", Var("y"))>>, <<>>), return(n)>>)>>, <<>>,
             call("f", <<int(1)>>)))}
ClosureTexts == {Good(Prog(<<Inner>>, <<Let("x", int(0))>>, Op("CLOSURE", <<Inner>>)))}
AllTexts ==
  {Good(p) : p \in {OfExpr(e) : e \in Expressions \cup TypedExpressions} \cup Statements \cup Functions \cup Opaque \cup Odd}
  \cup {[parses |-> FALSE, valid |-> FALSE, program |-> OfExpr(null)],
        [parses |-> TRUE, valid |-> FALSE, program |-> OfExpr(null)]}
=============================================================================
