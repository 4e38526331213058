---------------------------- MODULE Interpreter -----------------------------
(***************************************************************************)
(* The reference interpreter (src/interpreter/interpreter.c): what a       *)
(* program computes, by walking its graph.                                 *)
(*                                                                         *)
(* The Interp struct is a record that every operator takes and returns; v  *)
(* is the C function's own return value.  err is "" until the first error, *)
(* which later ones do not replace.                                        *)
(***************************************************************************)
EXTENDS Program

CONSTANTS ARC_INTERP_VARS_MAX, ARC_INTERP_FRAMES_MAX,
          MaxIterations,   \* 100000 in the code
          MaxArgs          \* 16 in the code

NewInterp ==
  [vars |-> <<>>, frames |-> <<>>, result |-> arc_val_null, v |-> arc_val_null,
   err |-> "", returned |-> FALSE, out |-> <<>>]

Returns(ip, v) == [ip EXCEPT !.v = v]
ierr(ip, why) == [ip EXCEPT !.err = IF @ = "" THEN why ELSE @, !.v = arc_val_null]

\* The index of the variable in the running function, or 0.
find_var(ip, x) ==
  LET base == IF ip.frames = <<>> THEN 0 ELSE Last(ip.frames)
      found == SelectLastInSeq(ip.vars, LAMBDA w : w[1] = x)
  IN  IF found > base THEN found ELSE 0

set_var(ip, x, v) ==
  LET i == find_var(ip, x) IN
  CASE i > 0 -> [ip EXCEPT !.vars[i][2] = v]
    [] i = 0 /\ Len(ip.vars) >= ARC_INTERP_VARS_MAX -> ierr(ip, "limit")
    [] OTHER -> [ip EXCEPT !.vars = Append(@, <<x, v>>)]

get_var(ip, x) ==
  LET i == find_var(ip, x) IN
  IF i > 0 THEN Returns(ip, ip.vars[i][2]) ELSE ierr(ip, "undefined")

\* The value of an arithmetic or comparison node from those of its inputs.
eval_arith(ip, op, a, b) ==
  LET ints == a[1] = "i64" /\ b[1] = "i64"
      floats == a[1] = "f64" /\ b[1] = "f64"
  IN  CASE ints /\ op \in {"DIV", "MOD"} /\ b[2] = 0 -> ierr(ip, "zero")
        [] ints /\ op = "DIV" -> Returns(ip, arc_val_i64(Quot(a[2], b[2])))
        [] ints /\ op = "MOD" -> Returns(ip, arc_val_i64(Rem(a[2], b[2])))
        [] ints /\ op = "MUL" -> Returns(ip, arc_val_i64(a[2] * b[2]))
        [] (ints \/ floats) /\ op = "ADD" -> Returns(ip, <<a[1], a[2] + b[2]>>)
        [] (ints \/ floats) /\ op = "SUB" -> Returns(ip, <<a[1], a[2] - b[2]>>)
        [] floats /\ op = "MUL" -> Returns(ip, arc_val_f64(Quot(a[2] * b[2], 2)))
        [] floats /\ op = "DIV" -> Returns(ip, arc_val_f64(Quot(2 * a[2], b[2])))
        [] OTHER -> ierr(ip, "type")

eval_comparison(ip, op, a, b) ==
  CASE op = "EQ" -> Returns(ip, arc_val_bool(arc_val_equal(a, b)))
    [] op = "NEQ" -> Returns(ip, arc_val_bool(~ arc_val_equal(a, b)))
    [] op \in Orders /\ a[1] = b[1] /\ a[1] \in {"i64", "f64"} ->
         Returns(ip, arc_val_bool(Ordered(op, a[2], b[2])))
    [] OTHER -> ierr(ip, "type")

RECURSIVE eval_node(_, _, _), eval_args(_, _, _), exec_stmt(_, _, _),
          exec_region_stmts(_, _, _), exec_while(_, _, _, _), exec_cycle(_, _, _, _),
          exec_body(_, _, _)

\* A source that is not there gives null.
eval_input(p, ip, src) ==
  IF src.kind = "MISSING" THEN Returns(ip, arc_val_null) ELSE eval_node(p, ip, src)

\* The arguments of a call, one after the other; v collects them.
eval_args(p, ip, in) ==
  IF in = <<>> THEN Returns(ip, <<>>)
  ELSE LET before == eval_args(p, ip, Front(in))
           last == eval_input(p, before, Last(in))
       IN  Returns(last, Append(before.v, last.v))

\* The parameters that have an argument, bound in the new frame.
Bind(ip, f, args) ==
  LET params == SelectSeq(f.regions[1], LAMBDA m : m.kind = "PARAM")
      bound == SubSeq(params, 1, IF Len(args) < Len(params) THEN Len(args) ELSE Len(params))
      pairs == [i \in DOMAIN bound |-> <<bound[i].name, args[i]>>]
  IN  FoldLeft(LAMBDA acc, b : set_var(acc, b[1], b[2]), ip, pairs)

\* Arguments beyond the array of arguments are not evaluated.  The result of a
\* call is whatever was returned last, here or before.
eval_func_call(p, ip, n) ==
  LET fi == SelectInSeq(p.funcs, LAMBDA f : f.name = n.name) IN
  IF fi = 0 THEN ierr(ip, "undefined")
  ELSE LET called == eval_args(p, ip, SubSeq(n.in, 1, IF Len(n.in) < MaxArgs THEN Len(n.in) ELSE MaxArgs))
           base == Len(called.vars)
           entered == Bind([called EXCEPT !.frames = Append(@, base)], p.funcs[fi], called.v)
           done == exec_region_stmts(p, [entered EXCEPT !.returned = FALSE],
                                     p.funcs[fi].regions[1])
       IN  IF Len(called.frames) >= ARC_INTERP_FRAMES_MAX THEN ierr(called, "limit")
           ELSE [done EXCEPT !.v = done.result, !.returned = FALSE,
                             !.frames = Front(@), !.vars = SubSeq(@, 1, base)]

\* One input, two inputs: evaluated in order.
eval_node(p, ip, n) ==
  LET one == eval_input(p, ip, n.in[1])
      two == eval_input(p, one, n.in[2])
  IN  CASE ip.err # "" \/ ip.returned -> Returns(ip, arc_val_null)
        [] n.kind = "CONST" /\ n.value[1] # "str" -> Returns(ip, n.value)
        [] n.kind = "VAR_REF" -> get_var(ip, n.name)
        [] n.kind \in Arithmetic -> eval_arith(two, n.kind, one.v, two.v)
        [] n.kind \in Comparison -> eval_comparison(two, n.kind, one.v, two.v)
        [] n.kind = "NEG" /\ one.v[1] \in {"i64", "f64"} -> Returns(one, <<one.v[1], - one.v[2]>>)
        [] n.kind = "NEG" -> ierr(one, "type")
        [] n.kind = "NOT" -> Returns(one, arc_val_bool(~ arc_val_is_truthy(one.v)))
        [] n.kind = "FUNC_CALL" -> eval_func_call(p, ip, n)
        [] n.kind = "ROOT_OUTPUT" -> one
        [] OTHER -> ierr(ip, "unsupported")

is_interp_expr(kind) ==
  kind \in Arithmetic \cup Comparison \cup {"CONST", "NEG", "NOT", "VAR_REF", "FUNC_CALL"}

\* The two loops.  left is max_iter; a loop that uses it up is an error, even
\* one that would have ended in its last iteration.
Loop(ip, left) == left > 0 /\ ip.err = "" /\ ~ ip.returned
Limited(ip, left) == IF left <= 0 THEN ierr(ip, "limit") ELSE ip

exec_while(p, ip, n, left) ==
  LET cond == eval_input(p, ip, n.in[1]) IN
  CASE ~ Loop(ip, left) -> Limited(ip, left - 1)
    [] ~ arc_val_is_truthy(cond.v) -> Limited(cond, left - 1)
    [] OTHER -> exec_while(p, exec_region_stmts(p, cond, n.regions[1]), n, left - 1)

\* One turn of a CYCLE, from one of its members on: a BREAK_IF ends it wherever
\* it stands, an error or a return does not.  v tells whether one did.
exec_body(p, ip, body) ==
  LET m == Head(body)
      cond == eval_input(p, ip, m.in[1])
  IN  CASE body = <<>> -> Returns(ip, arc_val_bool(FALSE))
        [] m.kind = "BREAK_IF" /\ arc_val_is_truthy(cond.v) -> Returns(cond, arc_val_bool(TRUE))
        [] m.kind = "BREAK_IF" -> exec_body(p, cond, Tail(body))
        [] OTHER -> exec_body(p, exec_stmt(p, ip, m), Tail(body))

exec_cycle(p, ip, n, left) ==
  LET turn == exec_body(p, ip, n.regions[1]) IN
  CASE ~ Loop(ip, left) -> Limited(ip, left - 1)
    [] turn.v = arc_val_bool(TRUE) -> Limited(turn, left - 1)
    [] OTHER -> exec_cycle(p, turn, n, left - 1)

\* Expressions, parameters and the statements that it does not know are passed
\* over.
exec_stmt(p, ip, m) ==
  LET one == eval_input(p, ip, m.in[1]) IN
  CASE m.kind = "LET" -> set_var(one, m.name, one.v)
    [] m.kind = "ASSIGN" ->
         IF find_var(ip, m.name) = 0 THEN ierr(ip, "undefined") ELSE set_var(one, m.name, one.v)
    [] m.kind = "PRINT" -> [one EXCEPT !.out = Append(@, one.v)]
    [] m.kind = "RETURN" -> [one EXCEPT !.result = one.v, !.returned = TRUE]
    [] m.kind = "IF" ->
         exec_region_stmts(p, one, m.regions[IF arc_val_is_truthy(one.v) THEN 1 ELSE 2])
    [] m.kind = "WHILE" -> exec_while(p, ip, m, MaxIterations)
    [] m.kind = "CYCLE" -> exec_cycle(p, ip, m, MaxIterations)
    [] m.kind = "ROOT_OUTPUT" -> [one EXCEPT !.result = one.v]
    [] OTHER -> ip

exec_region_stmts(p, ip, members) ==
  IF members = <<>> \/ ip.err # "" \/ ip.returned THEN ip
  ELSE exec_region_stmts(p, exec_stmt(p, ip, Head(members)), Tail(members))

\* A program's root statements, which a return does not end, and its output.
RootStatements(p) == SelectSeq(p.root, LAMBDA m : m.kind \notin {"FUNC_DEF", "ROOT_OUTPUT"})
RootStmt(p, ip, m) ==
  LET one == eval_input(p, ip, m.in[1]) IN
  CASE ip.err # "" -> ip
    [] ip.err = "" /\ m.kind = "ASSIGN" /\ find_var(one, m.name) = 0 -> ierr(one, "undefined")
    [] OTHER -> exec_stmt(p, ip, m)
arc_interpret(p) ==
  LET run == FoldLeft(LAMBDA ip, m : RootStmt(p, ip, m),
                      NewInterp, RootStatements(p))
      done == eval_input(p, run, p.output)
  IN  IF p.output.kind = "MISSING" \/ run.err # "" THEN run
      ELSE [done EXCEPT !.result = done.v]
=============================================================================
