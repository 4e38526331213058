------------------------------ MODULE Lowering ------------------------------
(***************************************************************************)
(* Semantic lowering (src/semantic) from a program to HIR, and the         *)
(* validation of HIR (src/hir/hir.c).                                      *)
(*                                                                         *)
(* HIR is a program too, in which a variable is named by its slot and a    *)
(* function by its index, both from 1, a CYCLE is a WHILE, the output is a *)
(* PRINT and Missing is a null pointer.  Every operator takes and returns  *)
(* the SemCtx: e is the expression and block the statements lowered last,  *)
(* scope the names of the visible variables, in the order of their slots.  *)
(***************************************************************************)
EXTENDS Program

Poison == Op("POISON", <<>>)

sem_error(s) == [s EXCEPT !.had_error = TRUE, !.e = Poison]
Lowered(s, e) == [s EXCEPT !.e = e]
hir_block_add(s, stmt) == [s EXCEPT !.block = Append(@, stmt)]

arc_scope_find(s, x) == SelectLastInSeq(s.scope, LAMBDA y : y = x)
arc_scope_add(s, x) == [s EXCEPT !.scope = Append(@, x)]
find_func(s, f) == SelectInSeq(s.func_table, LAMBDA g : g = f)

-----------------------------------------------------------------------------
(* Expressions.                                                            *)

RECURSIVE lower_expr(_, _)

lower_binary_op(s, n) ==
  LET l == lower_expr(s, n.in[1])
      r == lower_expr(l, n.in[2])
  IN  CASE \E i \in 1 .. 2 : n.in[i].kind = "MISSING" -> sem_error(s)
        [] "POISON" \in {l.e.kind, r.e.kind} -> Lowered(r, Poison)
        [] OTHER -> Lowered(r, Op(n.kind, <<l.e, r.e>>))

lower_unary_op(s, n) ==
  LET operand == lower_expr(s, n.in[1]) IN
  CASE n.in[1].kind = "MISSING" -> sem_error(s)
    [] operand.e.kind = "POISON" -> operand
    [] OTHER -> Lowered(operand, Op(n.kind, <<operand.e>>))

lower_var_ref(s, n) ==
  IF arc_scope_find(s, n.name) = 0 THEN sem_error(s) ELSE Lowered(s, Var(arc_scope_find(s, n.name)))

\* The connected arguments, collected in args.
collect_call_args(s, n) ==
  FoldLeft(LAMBDA t, src : LET u == lower_expr(t, src) IN [u EXCEPT !.args = Append(t.args, u.e)],
           [s EXCEPT !.args = <<>>], SelectSeq(n.in, LAMBDA src : src.kind # "MISSING"))

\* The arity is compared only with that of a function already lowered, which the
\* function being lowered is.
lower_func_call_expr(s, n) ==
  LET fi == find_func(s, n.name)
      t == collect_call_args(s, n)
  IN  CASE fi = 0 -> sem_error(s)
        [] fi > 0 /\ (\E i \in DOMAIN t.args : t.args[i].kind = "POISON") -> Lowered(t, Poison)
        [] OTHER -> IF fi <= Len(s.arities) /\ s.arities[fi] # Len(t.args) THEN sem_error(t)
                    ELSE Lowered(t, Named("FUNC_CALL", fi, t.args))

lower_expr(s, n) ==
  CASE n.kind = "CONST" /\ n.value[1] # "str" -> Lowered(s, n)
    [] n.kind \in Arithmetic \cup Comparison -> lower_binary_op(s, n)
    [] n.kind \in {"NEG", "NOT"} -> lower_unary_op(s, n)
    [] n.kind = "VAR_REF" -> lower_var_ref(s, n)
    [] n.kind = "FUNC_CALL" -> lower_func_call_expr(s, n)
    [] OTHER -> sem_error(s)

lower_value_from_port(s, src) ==
  IF src.kind = "MISSING" THEN Lowered(s, Missing) ELSE lower_expr(s, src)

-----------------------------------------------------------------------------
(* Statements.                                                             *)

RECURSIVE lower_stmt(_, _)

StmtsOf(members) == SelectSeq(members, LAMBDA m : m.kind # "PARAM" /\ ~ is_expr_node(m.kind))
RegionStmts(members) == SelectSeq(StmtsOf(members), LAMBDA m : m.kind # "FUNC_DEF")
lower_region_stmts(s, members) == FoldLeft(lower_stmt, s, RegionStmts(members))

\* Statements in a scope and a block of their own; the block is left in inner.
Nested(s, stmts) ==
  LET t == FoldLeft(lower_stmt, [s EXCEPT !.block = <<>>], stmts) IN
  [t EXCEPT !.scope = s.scope, !.block = s.block, !.inner = t.block]

lower_stmt_let(s, n) ==
  LET t == arc_scope_add(lower_value_from_port(s, n.in[1]), n.name) IN
  hir_block_add(t, Named("LET", Len(t.scope), <<t.e>>))

lower_stmt_assign(s, n) ==
  LET t == lower_value_from_port(s, n.in[1])
      slot == arc_scope_find(t, n.name)
  IN  IF slot = 0 THEN sem_error(t) ELSE hir_block_add(t, Named("ASSIGN", slot, <<t.e>>))

\* An output without a value is left out.
lower_stmt_simple_value(s, n) ==
  LET t == lower_value_from_port(s, n.in[1]) IN
  CASE n.kind = "ROOT_OUTPUT" /\ t.e.kind = "MISSING" -> t
    [] n.kind = "RETURN" -> hir_block_add(t, Op("RETURN", <<t.e>>))
    [] OTHER -> hir_block_add(t, Op("PRINT", <<t.e>>))

lower_stmt_if(s, n) ==
  LET cond == lower_value_from_port(s, n.in[1])
      then == Nested(cond, RegionStmts(n.regions[1]))
      else == Nested(then, RegionStmts(n.regions[2]))
  IN  IF cond.e.kind = "MISSING" THEN sem_error(s)
      ELSE hir_block_add(else, Block("IF", <<cond.e>>, <<then.inner, else.inner>>))

lower_stmt_while(s, n) ==
  LET cond == lower_value_from_port(s, n.in[1])
      body == Nested(cond, RegionStmts(n.regions[1]))
  IN  IF cond.e.kind = "MISSING" THEN sem_error(s)
      ELSE hir_block_add(body, Block("WHILE", <<cond.e>>, <<body.inner>>))

\* A BREAK_IF that leads the body becomes the loop's condition; any other is
\* left out.  A function defined in the body is an error.
CycleUntil(s, n) ==   \* mutant of lower_stmt_cycle: the condition is not negated
  LET brk == lower_value_from_port(s, n.regions[1][1].in[1])
      body == Nested(brk, StmtsOf(Tail(n.regions[1])))
  IN  hir_block_add(body, Block("WHILE", <<brk.e>>, <<body.inner>>))
lower_stmt_cycle(s, n) ==
  LET members == n.regions[1]
      leads == members # <<>> /\ members[1].kind = "BREAK_IF"
      brk == lower_value_from_port(s, members[1].in[1])
      start == IF leads THEN brk ELSE s
      cond == IF leads /\ brk.e.kind # "MISSING" THEN Op("NOT", <<brk.e>>) ELSE Const(arc_val_bool(TRUE))
      body == Nested(start, StmtsOf(IF leads THEN Tail(members) ELSE members))
  IN  hir_block_add(body, Block("WHILE", <<cond>>, <<body.inner>>))

lower_stmt(s, n) ==
  CASE n.kind = "LET" -> lower_stmt_let(s, n)
    [] n.kind = "ASSIGN" -> lower_stmt_assign(s, n)
    [] n.kind \in {"PRINT", "RETURN", "ROOT_OUTPUT"} -> lower_stmt_simple_value(s, n)
    [] n.kind = "IF" -> lower_stmt_if(s, n)
    [] n.kind = "WHILE" -> lower_stmt_while(s, n)
    [] n.kind = "CYCLE" -> lower_stmt_cycle(s, n)
    [] n.kind \in {"BREAK_IF", "SEQUENCE", "PARAM"} -> s
    [] OTHER -> sem_error(s)

-----------------------------------------------------------------------------
(* Functions and the whole program.                                        *)

\* local_count is taken when the scopes inside the function are closed again.
OnlyParams(start, done) == Len(start.scope)   \* mutant of LocalCount
LocalCount(start, done) == Len(done.scope)
lower_function(s, fn) ==
  LET params == SelectSeq(fn.regions[1], LAMBDA m : m.kind = "PARAM")
      start == [s EXCEPT !.arities = Append(@, fn.value[2]), !.block = <<>>,
                         !.scope = [i \in DOMAIN params |-> params[i].name]]
      done == lower_region_stmts(start, fn.regions[1])
      slots == [i \in DOMAIN params |-> Named("PARAM", i, <<>>)]
      hf == Node("FUNC_DEF", Len(start.arities), fn.value, <<>>, <<slots \o done.block>>)
  IN  [done EXCEPT !.scope = s.scope, !.block = s.block, !.funcs = Append(@, hf),
                   !.locals = Append(@, LocalCount(start, done))]

arc_semantic_lower(p) ==
  LET start == [scope |-> <<>>, func_table |-> [i \in DOMAIN p.funcs |-> p.funcs[i].name],
                arities |-> <<>>, funcs |-> <<>>, locals |-> <<>>, block |-> <<>>, inner |-> <<>>,
                args |-> <<>>, e |-> Missing, had_error |-> FALSE]
      funcs == FoldLeft(lower_function, start, p.funcs)
      root == lower_region_stmts(funcs, SelectSeq(p.root, LAMBDA m : m.kind # "ROOT_OUTPUT"))
      done == IF p.output.kind = "ROOT_OUTPUT" THEN lower_stmt(root, p.output) ELSE root
  IN  [success |-> ~ done.had_error, locals |-> done.locals,
       module |-> [funcs |-> done.funcs, root |-> done.block, output |-> Missing]]

\* Is an expression or statement valid in a function of so many locals?
RECURSIVE hir_valid(_, _, _)
hir_valid(m, n, local_count) ==
  /\ n.kind # "MISSING"
  /\ n.kind \in {"VAR_REF", "LET", "ASSIGN"} => n.name <= local_count
  /\ n.kind = "FUNC_CALL" => n.name <= Len(m.funcs) /\ Len(n.in) = m.funcs[n.name].value[2]
  /\ \A i \in DOMAIN n.in : hir_valid(m, n.in[i], local_count)
  /\ \A k \in DOMAIN n.regions : \A i \in DOMAIN n.regions[k] :
       hir_valid(m, n.regions[k][i], local_count)

\* The variables of main are not looked at.
UINT16_MAX == 65535
hir_validate(lowered) ==
  /\ \A f \in DOMAIN lowered.module.funcs :
       hir_valid(lowered.module, lowered.module.funcs[f], lowered.locals[f])
  /\ \A i \in DOMAIN lowered.module.root :
       hir_valid(lowered.module, lowered.module.root[i], UINT16_MAX)
=============================================================================
