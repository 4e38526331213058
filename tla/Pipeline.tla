------------------------------ MODULE Pipeline ------------------------------
(***************************************************************************)
(* A source text through the whole of Arcana: the stages of Service, with  *)
(* the type checker, the compiler, the lowering and the container format   *)
(* as their modules have them, the verifier as a function of images, and   *)
(* the VM, instruction by instruction.                                     *)
(*                                                                         *)
(* Strings are one value, and collections, closures, threads and the other *)
(* objects another: an instruction that looks into them gives any result   *)
(* of its kind.  Interpret is arc_interpret.                               *)
(***************************************************************************)
EXTENDS Interpreter, Compiler, TypeCheck, Lowering, Service

CONSTANTS ARC_STACK_MAX, ARC_FRAMES_MAX, ARC_HANDLER_MAX, Interpret(_)

-----------------------------------------------------------------------------
(* The verifier on an image; see Verifier for its steps.                   *)

verify_operands(img, f, i, target) ==
  /\ i[1] = "CONST" => i[2] \in DOMAIN img.constants
  /\ i[1] \in {"LOAD_LOCAL", "STORE_LOCAL"} => i[2] <= f.local_count
  /\ i[1] \in {"CALL", "THREAD_SPAWN"} => i[2] \in DOMAIN img.functions
  /\ i[1] \in {"JUMP", "JUMP_IF_FALSE", "JUMP_IF_TRUE"} => target \in 1 .. f.code_length + 1

\* One instruction at position k of the function, with the height h before it
\* and the heights known so far.
verify_instruction(img, f, v, k) ==
  LET i == img.code[f.code_offset + k - 1]
      target == k + 1 + i[2]
      before == IF v.at[k] # -2 THEN v.at[k] ELSE v.h
      popped == before - arc_op_pops(i[1])
      after == (IF popped < 0 THEN 0 ELSE popped) + arc_op_pushes(i[1])
      jumps == i[1] \in {"JUMP", "JUMP_IF_FALSE", "JUMP_IF_TRUE"} /\ target \in DOMAIN v.at
      here == [v.at EXCEPT ![k] = before]
      at == IF jumps /\ here[target] = -2 THEN [here EXCEPT ![target] = after] ELSE here
  IN  [h |-> IF i[1] \in {"JUMP", "HALT", "RETURN"} /\ k < f.code_length
             THEN IF at[k + 1] = -2 THEN 0 ELSE at[k + 1]
             ELSE after,
       at |-> at, ends |-> v.ends \/ i[1] \in {"HALT", "RETURN"},
       valid |-> /\ v.valid /\ before = v.h /\ popped >= 0
                 /\ verify_operands(img, f, i, target)
                 /\ jumps => at[target] = after]

verify_function(img, f) ==
  LET v == FoldLeft(LAMBDA u, k : verify_instruction(img, f, u, k),
                    [h |-> 0, at |-> [k \in 1 .. f.code_length |-> -2], ends |-> FALSE, valid |-> TRUE],
                    [k \in 1 .. f.code_length |-> k])
  IN  v.valid /\ v.ends
arc_verify(img) ==
  img.functions # <<>> /\ \A i \in DOMAIN img.functions : verify_function(img, img.functions[i])

-----------------------------------------------------------------------------
(* The VM.                                                                 *)

vm_error(v, why) == [v EXCEPT !.status = "error", !.why = why]
vm_push(v, x) ==
  IF Len(v.stack) >= ARC_STACK_MAX THEN vm_error(v, "limit") ELSE [v EXCEPT !.stack = Append(@, x)]
Top(k) == vm.stack[Len(vm.stack) - k]
Dropped(v, k) == [v EXCEPT !.stack = SubSeq(@, 1, Len(@) - k)]
Replace(v, k, x) == vm_push(Dropped(v, k), x)

instruction == image.code[vm.ip]
operand == instruction[2]
Frame == Last(vm.frames)

\* An instruction of one of the opcodes, with what it needs on the stack.  next
\* is the VM with ip behind it.
Fetch(ops, needs) ==
  /\ OnlyVm
  /\ vm.ip \in DOMAIN image.code /\ instruction[1] \in ops
  /\ Len(vm.stack) >= needs
next == [vm EXCEPT !.ip = @ + 1]

const_to_val(v) == IF v[1] = "str" THEN arc_val_str ELSE v
vm_exec_stack_local_global ==
  \/ Fetch({"CONST"}, 0) /\ vm' = vm_push(next, const_to_val(image.constants[operand]))
  \/ Fetch({"POP"}, 1) /\ vm' = Dropped(next, 1)
  \/ Fetch({"DUP"}, 1) /\ vm' = vm_push(next, Top(0))
  \/ Fetch({"LOAD_LOCAL"}, 0) /\ vm' = vm_push(next, vm.stack[Frame.base + operand])
  \/ Fetch({"STORE_LOCAL"}, 1) /\ vm' = Dropped([next EXCEPT !.stack[Frame.base + operand] = Top(0)], 1)

\* What an instruction computes from values is a value or, with the tag "error",
\* the reason why it fails.
Outcome(k, r) == IF r[1] = "error" THEN vm_error(next, r[2]) ELSE Replace(next, k, r)
Both(t, a, b) == a[1] = t /\ b[1] = t

\* Integers, floats and, to be concatenated, strings; never one with another.
vm_arith(op, a, b) ==
  CASE Both("i64", a, b) /\ op \in {"DIV", "MOD"} /\ b[2] = 0 -> <<"error", "zero">>
    [] op = "ADD" /\ (Both("i64", a, b) \/ Both("f64", a, b)) -> <<a[1], a[2] + b[2]>>
    [] op = "ADD" /\ Both("str", a, b) -> arc_val_str
    [] op = "SUB" /\ (Both("i64", a, b) \/ Both("f64", a, b)) -> <<a[1], a[2] - b[2]>>
    [] op = "MUL" /\ Both("i64", a, b) -> arc_val_i64(a[2] * b[2])
    [] op = "MUL" /\ Both("f64", a, b) -> arc_val_f64(Quot(a[2] * b[2], 2))
    [] op = "DIV" /\ Both("i64", a, b) /\ b[2] # 0 -> arc_val_i64(Quot(a[2], b[2]))
    [] op = "DIV" /\ Both("f64", a, b) -> arc_val_f64(Quot(2 * a[2], b[2]))
    [] op = "MOD" /\ Both("i64", a, b) /\ b[2] # 0 -> arc_val_i64(Rem(a[2], b[2]))
    [] OTHER -> <<"error", "type">>
vm_neg(a) == IF a[1] \in {"i64", "f64"} THEN <<a[1], - a[2]>> ELSE <<"error", "type">>
vm_exec_arithmetic ==
  \/ Fetch(Arithmetic, 2) /\ vm' = Outcome(2, vm_arith(instruction[1], Top(1), Top(0)))
  \/ Fetch({"NEG"}, 1) /\ vm' = Outcome(1, vm_neg(Top(0)))

\* Two strings, or two other objects, may or may not be equal.
vm_compare(op, a, b) ==
  LET numbers == Both("i64", a, b) \/ Both("f64", a, b)
      equal == IF a = b /\ a[1] \in {"str", "obj"} THEN BOOLEAN ELSE {arc_val_equal(a, b)}
  IN  CASE op = "EQ" -> {arc_val_bool(e) : e \in equal}
        [] op = "NEQ" -> {arc_val_bool(~ e) : e \in equal}
        [] op \in Orders /\ numbers -> {arc_val_bool(Ordered(op, a[2], b[2]))}
        [] OTHER -> {<<"error", "type">>}
vm_exec_comparison ==
  \/ /\ Fetch(Comparison, 2)
     /\ \E r \in vm_compare(instruction[1], Top(1), Top(0)) : vm' = Outcome(2, r)
  \/ /\ Fetch({"NOT"}, 1)
     /\ vm' = Replace(next, 1, arc_val_bool(~ arc_val_is_truthy(Top(0))))

\* A shift to the right fills with zeros.
vm_bits(op, a, b) ==
  CASE ~ Both("i64", a, b) -> <<"error", "type">>
    [] Both("i64", a, b) /\ op = "SHR" -> arc_val_i64(Signed(Word(a[2]) \div 2^Distance(b[2])))
    [] OTHER -> arc_val_i64(OnBits(op, a[2], b[2]))
vm_exec_bitwise ==
  \/ Fetch(Bits, 2) /\ vm' = Outcome(2, vm_bits(instruction[1], Top(1), Top(0)))
  \/ /\ Fetch({"BIT_NOT"}, 1)
     /\ vm' = Outcome(1, IF Top(0)[1] = "i64" THEN arc_val_i64(Complement(Top(0)[2]))
                         ELSE <<"error", "type">>)

\* A length, or the number that a string spells, is one of these; the string
\* may spell none, and an index may be out of bounds.
SomeIntegers == {0, 2}
vm_exec_string_ops ==
  \/ /\ Fetch({"STR_LEN"}, 1)
     /\ \E k \in SomeIntegers :
          vm' = Outcome(1, IF Top(0)[1] = "str" THEN arc_val_i64(k) ELSE <<"error", "type">>)
  \/ /\ Fetch({"STR_SLICE"}, 3)
     /\ vm' = Outcome(3, IF Top(2)[1] = "str" /\ Both("i64", Top(1), Top(0)) THEN arc_val_str
                         ELSE <<"error", "type">>)
  \/ /\ Fetch({"STR_INDEX"}, 2)
     /\ \E r \in {arc_val_str, <<"error", "bounds">>} :
          vm' = Outcome(2, IF Top(1)[1] = "str" /\ Top(0)[1] = "i64" THEN r ELSE <<"error", "type">>)

vm_cast(t, v) ==
  LET whole == IF v[1] = "f64" THEN Quot(v[2], 2) ELSE v[2]
      halves == IF v[1] = "f64" THEN v[2] ELSE 2 * v[2]
  IN  CASE t = "STRING" -> {arc_val_str}
        [] t # "STRING" /\ v[1] = "obj" -> {<<"error", "cast">>}
        [] t # "STRING" /\ v[1] = "str" ->
             {<<"error", "cast">>} \cup {<<IF t = "I64" THEN "i64" ELSE "f64", k>> : k \in SomeIntegers}
        [] OTHER -> {IF t = "I64" THEN arc_val_i64(whole) ELSE arc_val_f64(halves)}
vm_exec_cast ==
  /\ Fetch({"CAST"}, 1)
  /\ \E r \in vm_cast(operand, Top(0)) : vm' = Outcome(1, r)

vm_exec_branch ==
  \/ Fetch({"JUMP"}, 0) /\ vm' = [next EXCEPT !.ip = @ + operand]
  \/ /\ Fetch({"JUMP_IF_FALSE", "JUMP_IF_TRUE"}, 1)
     /\ vm' = LET v == Dropped(next, 1) IN
              IF arc_val_is_truthy(Top(0)) = (instruction[1] = "JUMP_IF_TRUE")
              THEN [v EXCEPT !.ip = @ + operand] ELSE v

vm_exec_exception ==
  \/ /\ Fetch({"TRY_BEGIN"}, 0)
     /\ vm' = IF Len(vm.handlers) >= ARC_HANDLER_MAX THEN vm_error(next, "limit")
              ELSE [next EXCEPT !.handlers = Append(@, [catch_ip |-> vm.ip + 1 + operand,
                                  height |-> Len(vm.stack), depth |-> Len(vm.frames)])]
  \/ /\ Fetch({"TRY_END"}, 0)
     /\ vm' = IF vm.handlers = <<>> THEN vm_error(next, "handler")
              ELSE [next EXCEPT !.handlers = Front(@)]
  \/ /\ Fetch({"THROW"}, 1)
     /\ vm' = IF vm.handlers = <<>> THEN vm_error(next, "unhandled")
              ELSE LET h == Last(vm.handlers) IN
                   vm_push([vm EXCEPT !.handlers = Front(@), !.frames = SubSeq(@, 1, h.depth),
                              !.stack = SubSeq(@, 1, h.height), !.ip = h.catch_ip], Top(0))

\* The locals of the callee are pushed one by one, and the stack may overflow.
vm_exec_call ==
  /\ Fetch({"CALL"}, instruction[3])
  /\ LET argc == instruction[3]
         f == image.functions[operand]
         frame == [func |-> operand, return_ip |-> vm.ip + 1, base |-> Len(vm.stack) - argc]
         locals == [i \in 1 .. f.local_count - argc |-> arc_val_null]
     IN  vm' = CASE Len(vm.frames) >= ARC_FRAMES_MAX -> vm_error(next, "limit")
                 [] Len(vm.frames) < ARC_FRAMES_MAX /\ argc # f.arity -> vm_error(next, "arity")
                 [] OTHER -> IF Len(vm.stack) + Len(locals) > ARC_STACK_MAX THEN vm_error(next, "limit")
                             ELSE [vm EXCEPT !.frames = Append(@, frame), !.ip = f.code_offset,
                                             !.stack = @ \o locals]

vm_exec_return ==
  /\ Fetch({"RETURN"}, 1)
  /\ vm' = IF Len(vm.frames) = 1
           THEN [next EXCEPT !.frames = <<>>, !.stack = <<Top(0)>>, !.status = "halted"]
           ELSE [vm EXCEPT !.frames = Front(@), !.ip = Frame.return_ip,
                           !.stack = Append(SubSeq(@, 1, Frame.base), Top(0))]

\* What a collection, a variable of a closure, a thread, a channel or an
\* intrinsic gives.
AnyValue == {arc_val_null, arc_val_i64(2), arc_val_str, arc_val_obj}

\* Upvalues belong to the closure under the frame; main looks at its slot 0,
\* which may hold an old object when the stack is empty.  The object found may
\* be no closure, or one without that upvalue.
callee_v ==
  LET slot == IF Frame.base > 0 THEN Frame.base ELSE 1 IN
  IF slot <= Len(vm.stack) THEN vm.stack[slot] ELSE arc_val_obj
vm_exec_closure ==
  \/ Fetch({"CLOSURE"}, 0) /\ vm' = vm_push(next, arc_val_obj)
  \/ /\ Fetch({"GET_UPVAL"}, 0)
     /\ \/ vm' = vm_error(next, "closure")
        \/ callee_v = arc_val_obj /\ \E v \in AnyValue : vm' = vm_push(next, v)
  \/ /\ Fetch({"SET_UPVAL"}, 1)
     /\ \/ vm' = vm_error(next, "closure")
        \/ callee_v = arc_val_obj /\ vm' = Dropped(next, 1)

vm_exec_print ==
  /\ Fetch({"INTRINSIC"}, 1)
  /\ instruction[2] = "print"
  /\ vm' = Dropped([next EXCEPT !.out = Append(@, Top(0))], 1)

\* Everything else takes its operands and gives a value of its kind, or fails.
OpaqueOps == {"INDEX_GET", "LENGTH", "INDEX_SET", "ARRAY_NEW", "MAP_NEW", "RECORD_NEW", "FIELD_GET",
              "FIELD_SET", "THREAD_SPAWN", "THREAD_JOIN", "MUTEX_NEW", "MUTEX_LOCK", "MUTEX_UNLOCK",
              "CHAN_NEW", "CHAN_SEND", "CHAN_RECV", "INTRINSIC"}
Takes(i) ==
  CASE i[1] = "ARRAY_NEW" -> i[2] [] i[1] = "MAP_NEW" -> 2 * i[2]
    [] i[1] \in {"THREAD_SPAWN", "INTRINSIC"} -> i[3] [] OTHER -> arc_op_pops(i[1])
Gives(i) ==
  CASE i[1] = "LENGTH" -> {arc_val_i64(k) : k \in SomeIntegers}
    [] i[1] \in {"INDEX_GET", "FIELD_GET", "THREAD_JOIN", "CHAN_RECV", "INTRINSIC"} -> AnyValue
    [] OTHER -> {arc_val_obj}
vm_exec_opaque ==
  /\ Fetch(OpaqueOps, Takes(instruction))
  /\ ~ (instruction[1] = "INTRINSIC" /\ instruction[2] = "print")
  /\ \/ vm' = vm_error(next, "opaque")
     \/ IF arc_op_pushes(instruction[1]) = 1 \/ instruction[1] = "INTRINSIC"
        THEN \E v \in Gives(instruction) : vm' = Replace(next, Takes(instruction), v)
        ELSE vm' = Dropped(next, Takes(instruction))

OP_HALT == Fetch({"HALT"}, 0) /\ vm' = [next EXCEPT !.status = "halted"]

\* The code has ended, or the stack has: both are errors.
Pops(i) == IF i[1] = "INTRINSIC" THEN i[3] ELSE arc_op_pops(i[1])
VmFault ==
  /\ OnlyVm
  /\ vm.ip \notin DOMAIN image.code \/ Len(vm.stack) < Pops(instruction)
  /\ vm' = vm_error(vm, "fault")

VmStep ==
  \/ vm_exec_stack_local_global \/ vm_exec_arithmetic \/ vm_exec_comparison \/ vm_exec_bitwise
  \/ vm_exec_string_ops \/ vm_exec_cast \/ vm_exec_branch \/ vm_exec_exception \/ vm_exec_call
  \/ vm_exec_return \/ vm_exec_closure \/ vm_exec_print \/ vm_exec_opaque \/ OP_HALT \/ VmFault

Next == Stage \/ VmStep

\* A VM that can take a step takes one: arc_vm_run is a loop in one thread.
Spec == Init /\ [][Next]_vars /\ WF_vars(VmStep)
-----------------------------------------------------------------------------
(* Programs on which the interpreter, the compiler and the lowering are    *)
(* meant to agree, and do: they use what the interpreter knows, nothing is *)
(* missing, names are declared once, functions end with a return.          *)

RECURSIVE Declared(_)
Declared(members) ==
  FlattenSeq([i \in DOMAIN members |->
    IF members[i].kind \in {"LET", "PARAM"} THEN <<members[i].name>>
    ELSE FlattenSeq([k \in DOMAIN members[i].regions |-> Declared(members[i].regions[k])])])

StatementKinds ==
  {"LET", "ASSIGN", "PRINT", "RETURN", "IF", "WHILE", "CYCLE", "BREAK_IF", "PARAM", "FUNC_DEF",
   "ROOT_OUTPUT"}

\* A CYCLE breaks at the top of its turns only, and is not returned from.
PlainCycle(n) ==
  /\ \A i \in DOMAIN n.regions[1] : n.regions[1][i].kind = "BREAK_IF" => i = 1
  /\ \A m \in Within(n) : m.kind # "RETURN"

PlainNode(p, n) ==
  /\ is_interp_expr(n.kind) \/ n.kind \in StatementKinds
  /\ n.kind = "CONST" => n.value[1] # "str"
  /\ n.kind = "CYCLE" => PlainCycle(n)
  /\ n.kind = "FUNC_CALL" =>
       Len(n.in) <= MaxArgs /\ \E f \in Range(p.funcs) : f.name = n.name /\ f.value[2] = Len(n.in)
  /\ n.kind = "FUNC_DEF" => Last(n.regions[1]).kind = "RETURN" /\ IsInjective(Declared(n.regions[1]))
  /\ n.kind \in Arithmetic \cup Comparison /\ is_const_numeric(n.in[1]) /\ is_const_numeric(n.in[2]) =>
       n.in[1].value[1] = n.in[2].value[1] /\ (n.kind = "MOD" => n.in[1].value[1] = "i64")
Plain(p) ==
  /\ \A n \in Nodes(p) : PlainNode(p, n)
  /\ IsInjective(Declared(p.root))
  /\ \A i \in DOMAIN p.root : \A m \in Within(p.root[i]) : m.kind # "RETURN"

\* What the interpreter says of the program, if that binds the compiler: it has
\* not run into a limit of its own or an undeclared variable.
Interpreted == Interpret(program)
Binding == Plain(program) /\ Interpreted.err \in {"", "type", "zero"}

-----------------------------------------------------------------------------
(* Properties.                                                             *)

\* What the compiled program computes on the VM, through the service or the
\* file, is what the reference interpreter says: the same output, the same
\* result, the same error at the same point.  (The interpreter then still prints
\* a null for every print around the error.)
CompiledAgrees ==
  pc = "vm" /\ vm.status # "running" /\ vm.why # "limit" /\ Binding =>
    LET says == Interpreted IN
    IF says.err = ""
    THEN /\ vm.status = "halted"
         /\ arc_vm_result = says.result
         /\ vm.out = Append(says.out, says.result)
    ELSE vm.status = "error" /\ vm.why = says.err /\ IsPrefix(vm.out, says.out)

\* The HIR that a program is lowered to computes what the program computes, and
\* a program that is lowered does not meet an undeclared variable.
LoweringPreserves ==
  pc = "compile" /\ hir.success /\ Plain(program) =>
    LET says == Interpreted
        lowered == Interpret(hir.module)
    IN  /\ lowered.err = says.err
        /\ IF says.err = "" THEN lowered.out = Append(says.out, says.result)
           ELSE IsPrefix(says.out, lowered.out)

\* The HIR of a program whose functions declare no variable in a block, and
\* return values only, is valid: slots, functions and arguments are in range.
FlatFunction(f) ==
  Len(Declared(f.regions[1])) =
    Len(SelectSeq(f.regions[1], LAMBDA m : m.kind \in {"LET", "PARAM"}))
LoweredValid ==
  /\ pc = "compile" /\ hir.success
  /\ \A f \in Range(program.funcs) : FlatFunction(f)
  /\ \A n \in Nodes(program) : n.in # <<Missing>> /\ (n.kind = "FUNC_CALL" => PlainNode(program, n))
  => hir_validate(hir)

\* The verifier accepts what the compiler makes of a function that has no
\* branches, or no instruction with a variable number of operands.
Variadic == {"PRINT", "INTRINSIC_CALL", "FUNC_CALL", "ARRAY_LITERAL", "MAP_LITERAL", "THREAD_SPAWN"}
Branching == {"IF", "WHILE", "CYCLE", "TRY", "AND", "OR"}
Regular(members) ==
  LET kinds == {n.kind : n \in UNION {Within(members[i]) : i \in DOMAIN members}} IN
  kinds \cap Variadic = {} \/ kinds \cap Branching = {}
VerifierAccepts ==
  /\ pc = "verify" /\ Regular(program.root \o <<program.output>>)
  /\ \A f \in Range(program.funcs) : Regular(f.regions[1])
  /\ \A n \in Nodes(program) : n.kind # "CLOSURE" /\ n.in # <<Missing>>
  => arc_verify(image)

\* The position in the code belongs to the function of the frame.
RunsOwnCode ==
  \A i \in DOMAIN image.functions \ {Frame.func} :
    LET f == image.functions[i] IN
    vm.ip \notin f.code_offset .. f.code_offset + f.code_length - 1

\* No frame of a running program is higher than its function's record declares,
\* with max_stack as the compiler tracked it; a caught value is not tracked.
StackWithinDeclared ==
  pc = "vm" /\ vm.status = "running" /\ (\A n \in Nodes(program) : n.kind # "TRY") =>
    LET f == image.functions[Frame.func] IN
    Len(vm.stack) - Frame.base <= f.local_count + f.max_stack

\* A frame runs the code of its own function and of no other, where functions
\* make no closures and do not end with a branch.
InOwnCode ==
  /\ pc = "vm" /\ vm.status = "running"
  /\ \A n \in Nodes(program) : n.kind # "CLOSURE"
  /\ \A f \in Range(program.funcs) :
       f.regions[1] # <<>> => Last(f.regions[1]).kind \notin {"IF", "TRY"}
  => RunsOwnCode

\* Folding an operator at compile time gives what the VM computes when it meets
\* it at run time, with three exceptions: a float beside an integer and the
\* remainder of floats, which the VM refuses, and a negative number shifted to
\* the right, which keeps its sign in the compiler and loses it in the VM.
vm_binary(op, a, b) ==
  CASE op \in Arithmetic -> {vm_arith(op, a, b)}
    [] op \in Comparison -> vm_compare(op, a, b)
    [] OTHER -> {vm_bits(op, a, b)}

\* A program that the type checker accepts does not fail on the VM for the type
\* of an operand that the checker looked at, with three exceptions: the operand
\* is of unknown type, a float is beside an integer, or the remainder of floats
\* is taken.  STR_SLICE, STR_INDEX and collections are not looked at.
Checked == Arithmetic \cup Orders \cup Bits \cup {"NEG", "BIT_NOT", "STR_LEN"}
TypeSound ==
  /\ pc = "vm" /\ vm.why = "type" /\ arc_typecheck(program)
  /\ image.code[vm.ip - 1][1] \in Checked
  => \E n \in Nodes(program) :
       /\ n.kind = image.code[vm.ip - 1][1]
       /\ LET types == {infer_type(n.in[i]) : i \in DOMAIN n.in} IN
          \/ "ANY" \in types
          \/ types = {"I64", "F64"} /\ n.kind \in Arithmetic \cup Orders
          \/ types = {"F64"} /\ n.kind = "MOD"

\* A program that the interpreter runs to its end also ends on the VM, unless
\* the VM runs out of stack.
Terminates ==
  (pc = "vm" /\ Binding /\ Interpreted.err = "") ~> (vm.status = "halted" \/ vm.why = "limit")
-----------------------------------------------------------------------------
(* What comments and documents say of every program; the code does not     *)
(* keep it.                                                                *)

\* docs/internals/testing.md: the result of the interpreter is that of the VM.
Differential ==
  vm.status = "halted" /\ Interpreted.err = "" => arc_vm_result = Interpreted.result

\* src/hir/hir.h: local_count is the "total locals including params", so all slots
\* of a function are below it, those of variables declared in blocks too.
CountsAllLocals ==
  /\ pc = "compile" /\ hir.success
  /\ \A n \in Nodes(program) : n.in # <<Missing>> /\ (n.kind = "FUNC_CALL" => PlainNode(program, n))
  => hir_validate(hir)

\* docs/development-direction.md: closures are complete; their code is their own.
FramesInOwnCode == pc = "vm" /\ vm.status = "running" => RunsOwnCode
=============================================================================
