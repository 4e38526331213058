------------------------------ MODULE Compiler ------------------------------
(***************************************************************************)
(* The bytecode compiler (src/compiler): from a program to an image.       *)
(*                                                                         *)
(* The Compiler struct is a record that every operator takes and returns.  *)
(* An instruction is <<opcode, first operand, second operand>>; positions  *)
(* count instructions from 1, and so do function and constant indices.     *)
(* The offset of a jump is relative to the instruction after it.  Node     *)
(* kinds with the code and the opcode effect of another are left to that   *)
(* one: CAST is every cast, by the name of its type.  The debug table is   *)
(* left out: the parser gives no node a source_id, so that none of its     *)
(* programs has an entry.                                                  *)
(***************************************************************************)
EXTENDS Program

NewCompiler ==
  [code |-> <<>>, pool |-> <<>>, funcs |-> <<>>, locals |-> <<>>, depth |-> 0, max |-> 0,
   enclosing |-> <<>>, upvals |-> <<>>, upval_count |-> 0, had_error |-> FALSE,
   trap |-> FALSE]

FuncRecord(name, arity, locals, max, offset, length) ==
  [name_const_idx |-> name, arity |-> arity, local_count |-> locals, max_stack |-> max,
   code_offset |-> offset, code_length |-> length, upvalues |-> <<>>]

cerr(c) == [c EXCEPT !.had_error = TRUE]

\* The opcode table; -1, "depends on an operand", counts as nothing wherever the
\* table is used.
Operators == Arithmetic \cup Comparison \cup Bits \cup {"INDEX_GET", "STR_INDEX"}
Conversions == {"NEG", "NOT", "BIT_NOT", "CAST", "STR_LEN", "LENGTH"}
arc_op_pops(op) ==
  CASE op \in {"INDEX_SET", "STR_SLICE"} -> 3
    [] op \in Operators \cup {"CHAN_SEND", "FIELD_SET"} -> 2
    [] op \in Conversions \cup {"POP", "DUP", "STORE_LOCAL", "JUMP_IF_FALSE", "JUMP_IF_TRUE",
              "THROW", "RETURN", "THREAD_JOIN", "MUTEX_LOCK", "MUTEX_UNLOCK", "CHAN_RECV",
              "FIELD_GET", "SET_UPVAL"} -> 1
    [] OTHER -> 0
arc_op_pushes(op) ==
  CASE op = "DUP" -> 2
    [] op \in Operators \cup Conversions \cup {"CONST", "LOAD_LOCAL", "STR_SLICE",
              "THREAD_JOIN", "MUTEX_NEW", "CHAN_RECV", "CLOSURE", "GET_UPVAL", "CALL", "THREAD_SPAWN",
              "ARRAY_NEW", "MAP_NEW", "RECORD_NEW", "FIELD_GET", "FIELD_SET", "CHAN_NEW"} -> 1
    [] OTHER -> 0

emit(c, op, a, b) == [c EXCEPT !.code = Append(@, <<op, a, b>>)]
LateTrack(c, pops, pushes) ==   \* mutant of track_stack: max before the push
  [c EXCEPT !.depth = @ - pops + pushes, !.max = IF c.depth > @ THEN c.depth ELSE @]
track_stack(c, pops, pushes) ==
  LET d == c.depth - pops + pushes IN [c EXCEPT !.depth = d, !.max = IF d > @ THEN d ELSE @]
emit_op(c, op, a) == track_stack(emit(c, op, a, 0), arc_op_pops(op), arc_op_pushes(op))

\* A constant is in the pool once.
arc_const_pool_add(c, v) == IF Contains(c.pool, v) THEN c ELSE [c EXCEPT !.pool = Append(@, v)]
PoolIndex(c, v) == SelectInSeq(c.pool, LAMBDA e : e = v)
emit_const(c, v) ==
  LET w == arc_const_pool_add(c, v) IN emit_op(w, "CONST", PoolIndex(w, v))

\* A jump emitted last is at the last position; patched, it leads behind what
\* has been emitted since.
emit_jump(c, op) == emit_op(c, op, 0)
patch_jump(c, at) == [c EXCEPT !.code[at][2] = Len(c.code) - at]
JumpBack(c, top) == emit_op(c, "JUMP", top - Len(c.code) - 2)

\* The slot of a local or the index of an upvalue, from 1; 0 if there is none.
\* Slots are numbered in the order of declaration, also across branches.
find_local(c, x) == SelectLastInSeq(c.locals, LAMBDA y : y = x)
add_local(c, x) == [c EXCEPT !.locals = Append(@, x)]

\* The variables of all enclosing functions are in one array; what is captured
\* is always described as a local of the function around.
find_upvalue(c, x) ==
  LET known == SelectInSeq(SubSeq(c.upvals, 1, c.upval_count), LAMBDA u : u[1] = x)
      outer == SelectLastInSeq(c.enclosing, LAMBDA y : y[1] = x)
      desc == <<x, c.enclosing[outer][2]>>
      k == c.upval_count + 1
  IN  CASE known > 0 -> [at |-> known, c |-> c]
        [] known = 0 /\ outer = 0 -> [at |-> 0, c |-> c]
        [] OTHER -> [at |-> k, c |-> [c EXCEPT !.upval_count = k,
                       !.upvals = IF k <= Len(@) THEN [@ EXCEPT ![k] = desc] ELSE Append(@, desc)]]

-----------------------------------------------------------------------------
(* Constant folding.  An f64 constant makes the result an f64; bits are    *)
(* those of integers only, and a shift to the right keeps the sign.        *)

is_const_numeric(n) == n.kind = "CONST" /\ n.value[1] \in {"i64", "f64"}
AsFloat(v) == IF v[1] = "f64" THEN v[2] ELSE 2 * v[2]
AsInt(v) == IF v[1] = "i64" THEN v[2] ELSE Quot(v[2], 2)

\* Both the float and the integer result are computed, and one of them is taken.
Folds(op, l, r) ==
  /\ is_const_numeric(l) /\ is_const_numeric(r)
  /\ op \in Arithmetic \cup Comparison \cup Bits
  /\ op \in Bits => l.value[1] = "i64" /\ r.value[1] = "i64"
  /\ ~ (op \in {"DIV", "MOD"} /\ l.value[1] = "i64" /\ r.value = arc_val_i64(0))
FoldTraps(op, l, r) == Folds(op, l, r) /\ op \in {"DIV", "MOD"} /\ AsInt(r.value) = 0
fold_bits(op, a, b) ==
  IF op = "SHR" THEN a \div 2^Distance(b) ELSE OnBits(op, a, b)
fold_num(op, float, a, b) ==
  CASE op = "ADD" -> a + b
    [] op = "SUB" -> a - b
    [] op = "MUL" -> IF float THEN Quot(a * b, 2) ELSE a * b
    [] op = "DIV" -> IF float THEN Quot(2 * a, b) ELSE Quot(a, b)
    [] op = "MOD" -> Rem(a, b)
    [] OTHER -> fold_bits(op, a, b)
Folded(op, l, r) ==
  LET float == l[1] = "f64" \/ r[1] = "f64"
      a == IF float THEN AsFloat(l) ELSE AsInt(l)
      b == IF float THEN AsFloat(r) ELSE AsInt(r)
  IN  CASE op = "EQ" -> arc_val_bool(a = b)
        [] op = "NEQ" -> arc_val_bool(a # b)
        [] op \in Orders -> arc_val_bool(Ordered(op, a, b))
        [] OTHER -> IF float THEN arc_val_f64(fold_num(op, TRUE, a, b))
                    ELSE arc_val_i64(fold_num(op, FALSE, a, b))
try_fold_binary(c, op, l, r) ==
  IF FoldTraps(op, l, r) THEN [c EXCEPT !.trap = TRUE] ELSE emit_const(c, Folded(op, l.value, r.value))

FoldsUnary(op, s) ==
  /\ s.kind = "CONST"
  /\ \/ op = "NEG" /\ s.value[1] \in {"i64", "f64"}
     \/ op = "NOT" /\ s.value[1] \in {"bool", "i64"}
     \/ op = "BIT_NOT" /\ s.value[1] = "i64"
try_fold_unary(c, op, s) ==
  emit_const(c, CASE op = "NEG" -> <<s.value[1], - s.value[2]>>
                  [] op = "NOT" -> arc_val_bool(~ arc_val_is_truthy(s.value))
                  [] op = "BIT_NOT" -> arc_val_i64(Complement(s.value[2])))

-----------------------------------------------------------------------------
(* Nodes.                                                                  *)

RECURSIVE compile_node(_, _)

compile_value_port(c, src) == IF src.kind = "MISSING" THEN c ELSE compile_node(c, src)
compile_input_ports(c, n) == FoldLeft(compile_value_port, c, n.in)
Connected(n) == Len(SelectSeq(n.in, LAMBDA s : s.kind # "MISSING"))

compile_region(c, members) ==
  FoldLeft(LAMBDA d, m : IF m.kind = "PARAM" \/ is_expr_node(m.kind) THEN d ELSE compile_node(d, m),
           c, members)

compile_binary(c, n) ==
  LET l == n.in[1]
      r == n.in[2]
  IN  CASE l.kind = "MISSING" \/ r.kind = "MISSING" -> cerr(c)
        [] Folds(n.kind, l, r) -> try_fold_binary(c, n.kind, l, r)
        [] OTHER -> emit_op(compile_node(compile_node(c, l), r), n.kind, 0)

compile_unary(c, n) ==
  CASE n.in[1].kind = "MISSING" -> cerr(c)
    [] FoldsUnary(n.kind, n.in[1]) -> try_fold_unary(c, n.kind, n.in[1])
    [] OTHER -> emit_op(compile_node(c, n.in[1]), n.kind, IF n.kind = "CAST" THEN n.name ELSE 0)

NoPopShortcircuit(c, n) ==   \* mutant of compile_shortcircuit
  LET skip == emit_jump(emit_op(compile_node(c, n.in[1]), "DUP", 0),
                        IF n.kind = "OR" THEN "JUMP_IF_TRUE" ELSE "JUMP_IF_FALSE")
  IN  patch_jump(compile_node(skip, n.in[2]), Len(skip.code))
compile_shortcircuit(c, n) ==
  LET tested == emit_op(compile_node(c, n.in[1]), "DUP", 0)
      skip == emit_jump(tested, IF n.kind = "OR" THEN "JUMP_IF_TRUE" ELSE "JUMP_IF_FALSE")
      done == compile_node(emit_op(skip, "POP", 0), n.in[2])
  IN  IF \E i \in 1 .. 2 : n.in[i].kind = "MISSING" THEN cerr(c)
      ELSE patch_jump(done, Len(skip.code))

\* A literal, and a node of three inputs.
compile_collections(c, n) ==
  LET d == compile_input_ports(c, n)
      count == IF n.kind = "ARRAY_LITERAL" THEN Connected(n) ELSE n.value[2]
  IN  CASE n.kind = "ARRAY_LITERAL" -> track_stack(emit(d, "ARRAY_NEW", count, 0), count, 1)
        [] n.kind = "MAP_LITERAL" -> track_stack(emit(d, "MAP_NEW", count, 0), 2 * count, 1)
        [] OTHER -> emit_op(d, n.kind, 0)

compile_record_op(c, n) ==
  LET d == compile_input_ports(arc_const_pool_add(c, <<"str", n.name>>), n)
      pops == CASE n.kind = "RECORD_NEW" -> 0 [] n.kind = "FIELD_GET" -> 1 [] OTHER -> 2
  IN  track_stack(emit(d, n.kind, n.name, 0), pops, 1)

compile_intrinsic_call(c, n) ==
  track_stack(emit(compile_input_ports(c, n), "INTRINSIC", n.name, Connected(n)), Connected(n), 1)

compile_print(c) == [emit(c, "INTRINSIC", "print", 1) EXCEPT !.depth = @ - 1]

\* A function is found by its name among those registered so far.
NameIndex(c, f) == PoolIndex(c, <<"str", f>>)
FuncIndex(c, f) == SelectInSeq(c.funcs, LAMBDA g : g.name_const_idx = NameIndex(c, f))
compile_func_call(c, n, op) ==
  LET d == compile_input_ports(c, n)
      fi == FuncIndex(d, n.name)
  IN  IF fi = 0 THEN cerr(d) ELSE track_stack(emit(d, op, fi, Connected(n)), Connected(n), 1)

compile_concurrency(c, n) ==
  CASE n.kind = "THREAD_SPAWN" -> compile_func_call(c, n, "THREAD_SPAWN")
    [] n.kind = "CHAN_SEND" -> compile_binary(c, n)
    [] n.kind = "CHAN_NEW" -> track_stack(emit(c, "CHAN_NEW", n.value[2], 0), 0, 1)
    [] OTHER -> emit_op(compile_input_ports(c, n), n.kind, 0)

\* A variable: a local, else, inside a closure, an upvalue.
Access(c, x, local, upvalue, pops, pushes) ==
  LET slot == find_local(c, x)
      up == find_upvalue(c, x)
  IN  CASE slot > 0 -> emit_op(c, local, slot)
        [] slot = 0 /\ up.at > 0 -> track_stack(emit(up.c, upvalue, up.at, 0), pops, pushes)
        [] OTHER -> cerr(c)

\* A RETURN whose port is missing returns null; one whose port is there but not
\* connected is left out.
compile_stmts(c, n) ==
  LET d == compile_value_port(c, n.in[1])
      e == add_local(d, n.name)
  IN  CASE n.kind = "LET" -> emit_op(e, "STORE_LOCAL", Len(e.locals))
        [] n.kind = "ASSIGN" -> Access(d, n.name, "STORE_LOCAL", "SET_UPVAL", 1, 0)
        [] n.kind = "PRINT" -> compile_print(d)
        [] n.kind = "ROOT_OUTPUT" -> d
        [] n.kind = "RETURN" ->
             emit_op(IF n.in[1].kind = "MISSING" THEN emit_const(c, arc_val_null) ELSE d, "RETURN", 0)

IfIntoElse(c, n) ==   \* mutant of compile_if: no jump over the else branch
  LET test == emit_jump(compile_value_port(c, n.in[1]), "JUMP_IF_FALSE")
      then == compile_region(test, n.regions[1])
  IN  compile_region(patch_jump(then, Len(test.code)), n.regions[2])
compile_if(c, n) ==
  LET test == emit_jump(compile_value_port(c, n.in[1]), "JUMP_IF_FALSE")
      then == emit_jump(compile_region(test, n.regions[1]), "JUMP")
      else == compile_region(patch_jump(then, Len(test.code)), n.regions[2])
  IN  patch_jump(else, Len(then.code))

compile_while(c, n) ==
  LET test == emit_jump(compile_value_port(c, n.in[1]), "JUMP_IF_FALSE")
      body == compile_region(test, n.regions[1])
  IN  patch_jump(JumpBack(body, Len(c.code) + 1), Len(test.code))

\* The first BREAK_IF of the body is tested at the top of the loop, wherever it
\* stands; the others are not compiled.
InvertedCycle(c, n) ==   \* mutant of compile_cycle: it goes on when it should break
  LET test == emit_jump(compile_value_port(c, n.regions[1][1].in[1]), "JUMP_IF_FALSE")
  IN  patch_jump(JumpBack(compile_region(test, n.regions[1]), Len(c.code) + 1), Len(test.code))
compile_cycle(c, n) ==
  LET brk == SelectInSeq(n.regions[1], LAMBDA m : m.kind = "BREAK_IF")
      test == IF brk = 0 THEN c
              ELSE emit_jump(compile_value_port(c, n.regions[1][brk].in[1]), "JUMP_IF_TRUE")
      body == JumpBack(compile_region(test, n.regions[1]), Len(c.code) + 1)
  IN  IF brk = 0 THEN body ELSE patch_jump(body, Len(test.code))

compile_try(c, n) ==
  LET begin == emit_jump(c, "TRY_BEGIN")
      body == emit_jump(emit_op(compile_region(begin, n.regions[1]), "TRY_END", 0), "JUMP")
      catch == compile_region(patch_jump(body, Len(begin.code)), n.regions[2])
  IN  patch_jump(catch, Len(body.code))

\* The code of a function goes to the end of the one buffer.  It returns null
\* at its end unless its last instruction is a return.
NeverEnds(c, body) == FALSE   \* mutant of OpenEnd
OpenEnd(c, body) == Len(body.code) = Len(c.code) \/ Last(body.code)[1] # "RETURN"
compile_function(c, fn) ==
  LET name == arc_const_pool_add([c EXCEPT !.locals = <<>>, !.depth = 0, !.max = 0], <<"str", fn.name>>)
      known == IF FuncIndex(name, fn.name) > 0 THEN name
               ELSE [name EXCEPT !.funcs = Append(@, FuncRecord(NameIndex(name, fn.name), fn.value[2], 0, 0, 0, 0))]
      params == SelectSeq(fn.regions[1], LAMBDA m : m.kind = "PARAM")
      start == FoldLeft(LAMBDA d, m : add_local(d, m.name), known, params)
      body == compile_region(start, fn.regions[1])
      done == IF OpenEnd(c, body) THEN emit_op(emit_const(body, arc_val_null), "RETURN", 0) ELSE body
  IN  [done EXCEPT !.funcs[FuncIndex(known, fn.name)] =
         FuncRecord(NameIndex(name, fn.name), fn.value[2], Len(done.locals), done.max,
                    Len(c.code) + 1, Len(done.code) - Len(c.code))]

\* The inner function is compiled in the middle of the code of the outer one.
compile_closure(c, n) ==
  LET slots == [i \in DOMAIN c.locals |-> <<c.locals[i], i>>]
      inner == compile_function([c EXCEPT !.enclosing = @ \o slots, !.upval_count = 0], n.in[1])
      fi == Len(inner.funcs)
      caught == [i \in 1 .. inner.upval_count |-> inner.upvals[i][2]]
      outer == [inner EXCEPT !.funcs[fi].upvalues = IF caught = <<>> THEN @ ELSE caught,
                             !.enclosing = c.enclosing, !.upval_count = c.upval_count,
                             !.locals = c.locals, !.depth = c.depth, !.max = c.max]
  IN  IF n.in[1].kind = "MISSING" THEN cerr(c)
      ELSE track_stack(emit(outer, "CLOSURE", fi, 0), 0, 1)

compile_node(c, n) ==
  CASE n.kind \in Operators -> compile_binary(c, n)
    [] n.kind \in Conversions \cup {"THROW"} -> compile_unary(c, n)
    [] n.kind = "CONST" -> emit_const(c, n.value)
    [] n.kind \in {"AND", "OR"} -> compile_shortcircuit(c, n)
    [] n.kind \in {"ARRAY_LITERAL", "MAP_LITERAL", "INDEX_SET", "STR_SLICE"} ->
         compile_collections(c, n)
    [] n.kind = "TRY" -> compile_try(c, n)
    [] n.kind = "CLOSURE" -> compile_closure(c, n)
    [] n.kind = "INTRINSIC_CALL" -> compile_intrinsic_call(c, n)
    [] n.kind \in {"RECORD_NEW", "FIELD_GET", "FIELD_SET"} -> compile_record_op(c, n)
    [] n.kind \in {"THREAD_SPAWN", "THREAD_JOIN", "MUTEX_NEW", "MUTEX_LOCK", "MUTEX_UNLOCK",
                   "CHAN_NEW", "CHAN_SEND", "CHAN_RECV"} -> compile_concurrency(c, n)
    [] n.kind = "VAR_REF" -> Access(c, n.name, "LOAD_LOCAL", "GET_UPVAL", 0, 1)
    [] n.kind \in {"LET", "ASSIGN", "PRINT", "ROOT_OUTPUT", "RETURN"} -> compile_stmts(c, n)
    [] n.kind = "IF" -> compile_if(c, n)
    [] n.kind = "WHILE" -> compile_while(c, n)
    [] n.kind = "CYCLE" -> compile_cycle(c, n)
    [] n.kind = "FUNC_CALL" -> compile_func_call(c, n, "CALL")
    [] n.kind \in {"BREAK_IF", "SEQUENCE", "PARAM"} -> c
    [] OTHER -> cerr(c)

-----------------------------------------------------------------------------
(* The whole program.                                                      *)

is_closure_target(p, f) == \E n \in Nodes(p) : n.kind = "CLOSURE" /\ n.in[1] = f

\* The output is left on the stack and printed.
compile_root_stmts(c, p) ==
  LET stmts == compile_region(c, SelectSeq(p.root, LAMBDA m : m.kind \notin {"FUNC_DEF", "ROOT_OUTPUT"}))
      out == compile_print(emit_op(compile_node(stmts, p.output), "DUP", 0))
  IN  emit_op(IF p.output.kind = "ROOT_OUTPUT" THEN out ELSE stmts, "HALT", 0)

\* main becomes the first function, and every function index moves by one.
patch_calls_for_main(code) ==
  [i \in DOMAIN code |->
     IF code[i][1] \in {"CALL", "CLOSURE", "THREAD_SPAWN"} THEN [code[i] EXCEPT ![2] = @ + 1] ELSE code[i]]

arc_compile(p) ==
  LET tops == SelectSeq(p.funcs, LAMBDA f : ~ is_closure_target(p, f))
      register(c, f) ==
        LET d == arc_const_pool_add(c, <<"str", f.name>>) IN
        [d EXCEPT !.funcs = Append(@, FuncRecord(NameIndex(d, f.name), f.value[2], 0, 0, 0, 0))]
      named == FoldLeft(register, NewCompiler, tops)
      funcs == FoldLeft(compile_function, named, tops)
      start == arc_const_pool_add([funcs EXCEPT !.locals = <<>>, !.depth = 0, !.max = 0], <<"str", "main">>)
      done == compile_root_stmts(start, p)
      main == FuncRecord(NameIndex(start, "main"), 0, Len(done.locals), done.max,
                         Len(start.code) + 1, Len(done.code) - Len(start.code))
  IN  [constants |-> done.pool, functions |-> <<main>> \o done.funcs,
       code |-> IF done.funcs = <<>> THEN done.code ELSE patch_calls_for_main(done.code),
       success |-> ~ done.had_error, trap |-> done.trap]
=============================================================================
