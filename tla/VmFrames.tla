------------------------------ MODULE VmFrames ------------------------------
(***************************************************************************)
(* The stack discipline of one VM (src/vm/vm.c, src/vm/vm_ops.c): operand  *)
(* stack, call frames, exception handlers and open upvalues, which share   *)
(* the array `stack` and are unwound by RETURN and THROW.                  *)
(*                                                                         *)
(* The bytecode is not fixed: at each step the running code executes any   *)
(* instruction that structured code may contain there (operands are popped *)
(* only if the running code pushed them since its locals or since its      *)
(* innermost try; a TRY_END closes a try of its own; upvalues are used     *)
(* only in code that was called through a closure).  What the program      *)
(* means is kept beside the VM's state, in variables the VM does not have: *)
(* the value of every source variable (env), the variables of every        *)
(* activation (scope) and the tries that are open (tries).                 *)
(*                                                                         *)
(* Code addresses are abstracted to the activation whose code they lie in. *)
(* Every function has one local (its parameter if called with an argument) *)
(* and every closure one upvalue.                                          *)
(***************************************************************************)
EXTENDS Integers, Sequences, FiniteSets

CONSTANTS
  ARC_STACK_MAX, ARC_FRAMES_MAX, ARC_HANDLER_MAX,
  Ints,              \* the integers the program computes with
  MaxCalls,          \* bound: activations
  MaxClosures,       \* bound: OP_CLOSURE and OP_CLOSE_UPVAL instructions
  ReturnInTry,       \* may code return from inside a try?
  ThrowPastCapture   \* may a throw unwind a frame whose local is captured?

ASSUME LimitsAssumption ==
  /\ ARC_STACK_MAX \in Nat \ {0}
  /\ ARC_FRAMES_MAX \in Nat \ {0}
  /\ ARC_HANDLER_MAX \in Nat
  /\ MaxCalls \in Nat /\ MaxClosures \in Nat
ASSUME ProgramAssumption ==
  /\ ReturnInTry \in BOOLEAN
  /\ ThrowPastCapture \in BOOLEAN

VARIABLES
  stack, sp,     \* the array and the number of values in use
  frames, fp,    \* the array and the number of frames in use
  ip,            \* the activation whose code runs
  handlers,      \* the handlers in use, innermost last
  upvals,        \* every ArcObjUpvalue allocated
  status,        \* "running", "halted" or "error"
  env, scope,    \* meaning: variable -> value, activation -> its variable
  tries,         \* meaning: the open tries, innermost last
  callee,        \* meaning: activation -> the closure it was called through
  closures       \* the counter MaxClosures bounds

machine == <<stack, sp, frames, fp, ip, handlers, upvals, status>>
meaning == <<env, scope, tries, callee, closures>>
vars == <<machine, meaning>>

arc_val_null == [tag |-> "null"]
arc_val_i64(n) == [tag |-> "int", n |-> n]
Closure(u, x) == [tag |-> "closure", up |-> u, var |-> x]
ARC_IS_CLOSURE(v) == v.tag = "closure"

Frame(base, ret, act) == [base_slot |-> base, return_ip |-> ret, act |-> act]
NoFrame == Frame(0, 0, 0)
top == frames[fp]
base == top.base_slot
local == base            \* the slot of the running code's local
first_operand == base + 1

-----------------------------------------------------------------------------
\* vm_setup_main: the frame of main, its locals null.
vm_setup_main ==
  /\ stack = [i \in 0 .. ARC_STACK_MAX - 1 |-> arc_val_null]
  /\ sp = 1
  /\ frames = [i \in 1 .. ARC_FRAMES_MAX |->
                 IF i = 1 THEN Frame(0, 0, 1) ELSE NoFrame]
  /\ fp = 1
  /\ ip = 1

Init ==
  /\ vm_setup_main
  /\ handlers = <<>>
  /\ upvals = <<>>
  /\ status = "running"
  /\ env = <<arc_val_null>>
  /\ scope = <<1>>
  /\ tries = <<>>
  /\ callee = <<arc_val_null>>
  /\ closures = 0

\* vm_error ends the run.
vm_error == status' = "error"

\* Mutant: no overflow test.
PushUnchecked(h, v) ==
  /\ stack' = [stack EXCEPT ![h] = v]
  /\ sp' = h + 1
  /\ UNCHANGED status

\* vm_push onto the stack cut back to height h, or the overflow error.
vm_push(h, v) ==
  IF h >= ARC_STACK_MAX
  THEN vm_error /\ sp' = h /\ UNCHANGED stack
  ELSE /\ stack' = [stack EXCEPT ![h] = v]
       /\ sp' = h + 1
       /\ UNCHANGED status

\* The lowest stack height the running code may pop to.
Mine == {i \in 1 .. Len(tries) : tries[i].act = ip}
Floor ==
  IF Mine = {} THEN first_operand
  ELSE tries[CHOOSE i \in Mine : \A j \in Mine : j <= i].height

Operands(n) == sp >= Floor + n
peek == stack[sp - 1]
Running == status = "running"

-----------------------------------------------------------------------------
(* Operands and locals.                                                    *)

OP_CONST(n) ==
  /\ Running
  /\ vm_push(sp, arc_val_i64(n))
  /\ UNCHANGED <<frames, fp, ip, handlers, upvals, meaning>>

OP_POP ==
  /\ Running /\ Operands(1)
  /\ sp' = sp - 1
  /\ UNCHANGED <<stack, frames, fp, ip, handlers, upvals, status, meaning>>

OP_LOAD_LOCAL ==
  /\ Running
  /\ vm_push(sp, stack[local])
  /\ UNCHANGED <<frames, fp, ip, handlers, upvals, meaning>>

OP_STORE_LOCAL ==
  /\ Running /\ Operands(1)
  /\ stack' = [stack EXCEPT ![local] = peek]
  /\ sp' = sp - 1
  /\ env' = [env EXCEPT ![scope[ip]] = peek]
  /\ UNCHANGED <<frames, fp, ip, handlers, upvals, status,
                 scope, tries, callee, closures>>

-----------------------------------------------------------------------------
(* Calls.  func_idx 0xFFFF calls the closure below the arguments, which    *)
(* stays on the stack under the callee's frame.                            *)

\* Mutant: the callee's frame starts at the closure instead of above it.
EnterAtCallee(argc, clo) ==
  LET act == Len(scope) + 1
      arg == IF argc = 1 THEN peek ELSE arc_val_null
      below == argc + IF ARC_IS_CLOSURE(clo) THEN 1 ELSE 0
  IN /\ frames' = [frames EXCEPT ![fp + 1] = Frame(sp - below, ip, act)]
     /\ fp' = fp + 1
     /\ IF argc = 1 THEN UNCHANGED <<stack, sp, status>>
                    ELSE vm_push(sp, arc_val_null)
     /\ ip' = IF Running' THEN act ELSE ip
     /\ env' = Append(env, arg)
     /\ scope' = Append(scope, Len(env) + 1)
     /\ callee' = Append(callee, clo)
     /\ UNCHANGED <<handlers, upvals, tries, closures>>

Enter(argc, clo) ==
  LET act == Len(scope) + 1
      arg == IF argc = 1 THEN peek ELSE arc_val_null
  IN /\ frames' = [frames EXCEPT ![fp + 1] = Frame(sp - argc, ip, act)]
     /\ fp' = fp + 1
     /\ IF argc = 1 THEN UNCHANGED <<stack, sp, status>> ELSE vm_push(sp, arc_val_null)
     /\ ip' = IF Running' THEN act ELSE ip
     /\ env' = Append(env, arg)
     /\ scope' = Append(scope, Len(env) + 1)
     /\ callee' = Append(callee, clo)
     /\ UNCHANGED <<handlers, upvals, tries, closures>>

\* "invalid function index" (no closure there), "call stack overflow", "arity
\* mismatch".
CallFails ==
  /\ vm_error
  /\ UNCHANGED <<stack, sp, frames, fp, ip, handlers, upvals, meaning>>

vm_exec_call(argc, by_closure) ==
  LET called == stack[sp - argc - 1] IN
  /\ Running
  /\ Operands(argc + IF by_closure THEN 1 ELSE 0)
  /\ Len(scope) < MaxCalls
  /\ IF by_closure /\ ~ ARC_IS_CLOSURE(called) THEN CallFails
     ELSE IF fp >= ARC_FRAMES_MAX THEN CallFails
     ELSE CallFails \/ Enter(argc, IF by_closure THEN called ELSE arc_val_null)

\* Mutant: the upvalue of the slot itself is left open.
CloseAbove(slot) ==
  upvals' = [u \in DOMAIN upvals |->
               IF upvals[u].open /\ upvals[u].location > slot
               THEN [upvals[u] EXCEPT !.open = FALSE,
                                      !.closed = stack[upvals[u].location]]
               ELSE upvals[u]]

\* Close every open upvalue at or above a stack slot.
CloseFrom(slot) ==
  upvals' = [u \in DOMAIN upvals |->
               IF upvals[u].open /\ upvals[u].location >= slot
               THEN [upvals[u] EXCEPT !.open = FALSE,
                                      !.closed = stack[upvals[u].location]]
               ELSE upvals[u]]

\* Mutant: continues at the return address of the caller's frame.
ReturnToCallersCaller ==
  /\ Running /\ Operands(1)
  /\ ReturnInTry \/ Mine = {}
  /\ CloseFrom(base)
  /\ fp' = fp - 1
  /\ IF fp = 1
     THEN /\ stack' = [stack EXCEPT ![0] = peek]
          /\ sp' = 1
          /\ status' = "halted"
          /\ UNCHANGED ip
     ELSE /\ vm_push(base, peek)
          /\ ip' = frames[fp - 1].return_ip
  /\ tries' = IF Mine = {} THEN tries ELSE SelectSeq(tries, LAMBDA y : y.act # ip)
  /\ UNCHANGED <<frames, handlers, env, scope, callee, closures>>

vm_exec_return ==
  /\ Running /\ Operands(1)
  /\ ReturnInTry \/ Mine = {}
  /\ CloseFrom(base)
  /\ fp' = fp - 1
  /\ IF fp = 1
     THEN /\ stack' = [stack EXCEPT ![0] = peek]
          /\ sp' = 1
          /\ status' = "halted"
          /\ UNCHANGED ip
     ELSE /\ vm_push(base, peek)
          /\ ip' = top.return_ip
  /\ tries' = IF Mine = {} THEN tries ELSE SelectSeq(tries, LAMBDA y : y.act # ip)
  /\ UNCHANGED <<frames, handlers, env, scope, callee, closures>>

OP_HALT ==
  /\ Running
  /\ status' = "halted"
  /\ UNCHANGED <<stack, sp, frames, fp, ip, handlers, upvals, meaning>>

-----------------------------------------------------------------------------
(* Exceptions.                                                             *)

OP_TRY_BEGIN ==
  /\ Running
  /\ IF Len(handlers) >= ARC_HANDLER_MAX
     THEN vm_error /\ UNCHANGED <<handlers, tries>>
     ELSE /\ handlers' = Append(handlers, [catch_ip |-> ip, stack_height |-> sp,
                                           frame_depth |-> fp])
          /\ tries' = Append(tries, [act |-> ip, height |-> sp])
          /\ UNCHANGED status
  /\ UNCHANGED <<stack, sp, frames, fp, ip, upvals, env, scope, callee, closures>>

\* Mutant: the handler stays.
TryEndKeepsHandler ==
  /\ Running /\ Mine # {}
  /\ tries' = SubSeq(tries, 1, Len(tries) - 1)
  /\ UNCHANGED <<machine, env, scope, callee, closures>>

OP_TRY_END ==
  /\ Running /\ Mine # {}
  /\ IF handlers = <<>>
     THEN vm_error /\ UNCHANGED handlers
     ELSE handlers' = SubSeq(handlers, 1, Len(handlers) - 1) /\ UNCHANGED status
  /\ tries' = SubSeq(tries, 1, Len(tries) - 1)
  /\ UNCHANGED <<stack, sp, frames, fp, ip, upvals, env, scope, callee, closures>>

Open(u) == upvals[u].open

\* Mutant: the stack is not cut back to the handler's height.
ThrowKeepsStack ==
  /\ Running /\ Operands(1)
  /\ handlers # <<>>
  /\ LET h == handlers[Len(handlers)] IN
     /\ handlers' = SubSeq(handlers, 1, Len(handlers) - 1)
     /\ fp' = h.frame_depth
     /\ ip' = h.catch_ip
  /\ tries' = SubSeq(tries, 1, Len(tries) - 1)
  /\ UNCHANGED <<stack, sp, status, frames, upvals, env, scope, callee, closures>>

OP_THROW ==
  /\ Running /\ Operands(1)
  /\ IF handlers = <<>>
     THEN /\ vm_error
          /\ sp' = sp - 1
          /\ UNCHANGED <<stack, fp, ip, handlers, tries>>
     ELSE LET h == handlers[Len(handlers)] IN
          /\ \/ ThrowPastCapture
             \/ \A u \in DOMAIN upvals :
                  Open(u) => upvals[u].location < h.stack_height
          /\ handlers' = SubSeq(handlers, 1, Len(handlers) - 1)
          /\ fp' = h.frame_depth
          /\ ip' = h.catch_ip
          /\ vm_push(h.stack_height, peek)
          /\ tries' = IF tries = <<>> THEN tries
                      ELSE SubSeq(tries, 1, Len(tries) - 1)
  /\ UNCHANGED <<frames, upvals, env, scope, callee, closures>>

-----------------------------------------------------------------------------
(* Closures.  Code that was called through a closure finds it in the slot  *)
(* under its frame.                                                        *)

InClosure == ARC_IS_CLOSURE(callee[ip])
callee_v == stack[IF base > 0 THEN base - 1 ELSE 0]

\* The open upvalue of a slot, or a new one.
Located(slot) == {u \in DOMAIN upvals : Open(u) /\ upvals[u].location = slot}

\* is_local: capture the running code's local.
ClosureOverLocal ==
  LET shared == Located(local)
      u == IF shared = {} THEN Len(upvals) + 1 ELSE CHOOSE w \in shared : TRUE
  IN /\ vm_push(sp, Closure(u, scope[ip]))
     /\ IF shared = {}
        THEN upvals' = Append(upvals, [open |-> TRUE, location |-> local,
                                       closed |-> arc_val_null])
        ELSE UNCHANGED upvals

\* not is_local: share the upvalue of the enclosing closure.
ClosureOverUpvalue ==
  /\ InClosure
  /\ ARC_IS_CLOSURE(callee_v)
  /\ vm_push(sp, Closure(callee_v.up, callee[ip].var))
  /\ UNCHANGED upvals

vm_exec_closure_new ==
  /\ Running
  /\ closures < MaxClosures
  /\ closures' = closures + 1
  /\ ClosureOverLocal \/ ClosureOverUpvalue
  /\ UNCHANGED <<frames, fp, ip, handlers, env, scope, tries, callee>>

\* *uv->location
Read(u) == IF Open(u) THEN stack[upvals[u].location] ELSE upvals[u].closed

vm_exec_get_upval ==
  /\ Running /\ InClosure
  /\ IF ARC_IS_CLOSURE(callee_v)
     THEN vm_push(sp, Read(callee_v.up))
     ELSE vm_error /\ UNCHANGED <<stack, sp>>
  /\ UNCHANGED <<frames, fp, ip, handlers, upvals, meaning>>

\* Mutant: always assigns the upvalue's own copy.
SetUpvalCopy ==
  /\ Running /\ InClosure /\ Operands(1)
  /\ ARC_IS_CLOSURE(callee_v)
  /\ sp' = sp - 1
  /\ env' = [env EXCEPT ![callee[ip].var] = peek]
  /\ upvals' = [upvals EXCEPT ![callee_v.up].closed = peek]
  /\ UNCHANGED <<stack, status, frames, fp, ip, handlers, scope, tries, callee,
                 closures>>

vm_exec_set_upval ==
  /\ Running /\ InClosure /\ Operands(1)
  /\ sp' = sp - 1
  /\ env' = [env EXCEPT ![callee[ip].var] = peek]
  /\ IF ~ ARC_IS_CLOSURE(callee_v)
     THEN vm_error /\ UNCHANGED <<stack, upvals>>
     ELSE LET u == callee_v.up IN
          /\ UNCHANGED status
          /\ IF Open(u)
             THEN /\ stack' = [stack EXCEPT ![upvals[u].location] = peek]
                  /\ UNCHANGED upvals
             ELSE /\ upvals' = [upvals EXCEPT ![u].closed = peek]
                  /\ UNCHANGED stack
  /\ UNCHANGED <<frames, fp, ip, handlers, scope, tries, callee, closures>>

\* Ends the scope of the variable in the topmost slot; if that is the local
\* then the code reuses the slot for a new variable.
vm_exec_close_upval ==
  /\ Running
  /\ closures < MaxClosures
  /\ closures' = closures + 1
  /\ CloseFrom(sp - 1)
  /\ IF sp - 1 = local
     THEN /\ env' = Append(env, stack[local])
          /\ scope' = [scope EXCEPT ![ip] = Len(env) + 1]
     ELSE UNCHANGED <<env, scope>>
  /\ UNCHANGED <<stack, sp, frames, fp, ip, handlers, status, tries, callee>>

-----------------------------------------------------------------------------
Next ==
  \/ \E n \in Ints : OP_CONST(n)
  \/ OP_POP \/ OP_LOAD_LOCAL \/ OP_STORE_LOCAL
  \/ \E argc \in {0, 1}, by_closure \in BOOLEAN : vm_exec_call(argc, by_closure)
  \/ vm_exec_return \/ OP_HALT
  \/ OP_TRY_BEGIN \/ OP_TRY_END \/ OP_THROW
  \/ vm_exec_closure_new \/ vm_exec_get_upval \/ vm_exec_set_upval
  \/ vm_exec_close_upval

Spec == Init /\ [][Next]_vars

-----------------------------------------------------------------------------
Live == 1 .. fp

TypeOK ==
  /\ sp \in 0 .. ARC_STACK_MAX
  /\ fp \in 0 .. ARC_FRAMES_MAX
  /\ Len(handlers) <= ARC_HANDLER_MAX
  /\ status \in {"running", "halted", "error"}
  /\ ip \in 1 .. Len(scope)
  /\ Len(scope) = Len(callee)
  /\ \A u \in DOMAIN upvals : upvals[u].location \in 0 .. ARC_STACK_MAX - 1

\* The running code runs in its own frame, and the frames of the live
\* activations lie on the stack one after the other, each above its caller's
\* local; in particular RETURN and THROW never bring a dead frame back.
FramesNested ==
  Running =>
    /\ top.act = ip
    /\ \A i \in Live \ {fp} :
         /\ frames[i + 1].base_slot > frames[i].base_slot
         /\ frames[i + 1].return_ip = frames[i].act
    /\ sp > base

\* The handler stack is the stack of the tries that are open in the program:
\* a throw lands in the innermost one, in its activation's frame.
HandlersMatchTries ==
  Running =>
    /\ Len(handlers) = Len(tries)
    /\ \A i \in DOMAIN handlers :
         /\ handlers[i].catch_ip = tries[i].act
         /\ handlers[i].stack_height = tries[i].height
         /\ handlers[i].frame_depth \in Live
         /\ frames[handlers[i].frame_depth].act = tries[i].act
         /\ handlers[i].stack_height <= sp

\* The slot of each live activation's local holds the value the program last
\* gave that variable, by whatever path: the activation itself, a closure
\* that shares it, through calls, returns and throws in between.
LocalsKeepValues ==
  Running =>
    \A i \in Live : stack[frames[i].base_slot] = env[scope[frames[i].act]]

\* A closure reads the variable it captured, not the slot's next occupant:
\* for every closure in use, the upvalue holds the variable's current value.
CapturesKeepValues ==
  Running =>
    \A i \in 0 .. sp - 1 :
      ARC_IS_CLOSURE(stack[i]) => Read(stack[i].up) = env[stack[i].var]

\* Code called through a closure finds that closure under its frame.
CalleeUnderFrame ==
  Running =>
    \A i \in Live :
      LET f == frames[i] IN
      ARC_IS_CLOSURE(callee[f.act]) => stack[f.base_slot - 1] = callee[f.act]

\* A throw that is caught lands in the innermost try that is open: in its
\* code, in its activation's frame, with the stack as high as it was there and
\* unchanged below, and the thrown value on top.
ThrowUnwinds ==
  [][(OP_THROW /\ status' = "running") =>
       /\ tries # <<>>
       /\ LET y == tries[Len(tries)] IN
          /\ ip' = y.act
          /\ fp' <= fp
          /\ frames[fp'].act = y.act
          /\ sp' = y.height + 1
          /\ \A i \in 0 .. y.height - 1 : stack'[i] = stack[i]
          /\ stack'[y.height] = peek]_vars

-----------------------------------------------------------------------------
(* The inductive invariant: what holds of the control state if no code     *)
(* returns from inside a try ...                                           *)

Values ==
  [tag : {"null"}] \cup [tag : {"int"}, n : Ints]
    \cup [tag : {"closure"}, up : 1 .. Len(upvals), var : 1 .. Len(env)]

Frames == [base_slot : Nat, return_ip : Nat, act : Nat]
Handlers == [catch_ip : Nat, stack_height : Nat, frame_depth : Nat]
Tries == [act : Nat, height : Nat]
Upvalues == [open : BOOLEAN, location : 0 .. ARC_STACK_MAX - 1, closed : Values]

Shapes ==
  /\ stack \in [0 .. ARC_STACK_MAX - 1 -> Values]
  /\ frames \in [1 .. ARC_FRAMES_MAX -> Frames]
  /\ handlers \in Seq(Handlers) /\ tries \in Seq(Tries)
  /\ upvals \in Seq(Upvalues)
  /\ env \in Seq(Values) /\ callee \in Seq(Values)
  /\ scope \in Seq(1 .. Len(env))
  /\ closures \in Nat

\* Live frames and their activations come in the order of the calls.
FrameInv ==
  /\ fp >= 1
  /\ top.act = ip /\ base < sp
  /\ \A i \in Live : frames[i].act \in 1 .. Len(scope)
  /\ \A i, j \in Live : i < j =>
       frames[i].base_slot < frames[j].base_slot /\ frames[i].act < frames[j].act
  /\ \A i \in Live \ {fp} : frames[i + 1].return_ip = frames[i].act

\* A handler belongs to a live frame, above its local and below the frames
\* called from the try; inner handlers lie higher.
HandlerInv ==
  /\ Len(handlers) = Len(tries)
  /\ \A k \in 1 .. Len(tries) :
       /\ handlers[k].catch_ip = tries[k].act
       /\ handlers[k].stack_height = tries[k].height
       /\ handlers[k].frame_depth \in Live
       /\ frames[handlers[k].frame_depth].act = tries[k].act
       /\ tries[k].height > frames[handlers[k].frame_depth].base_slot
       /\ tries[k].height <= sp
       /\ \A j \in Live : j > handlers[k].frame_depth => frames[j].base_slot >= tries[k].height
  /\ \A k, l \in 1 .. Len(tries) : k < l =>
       /\ handlers[k].frame_depth <= handlers[l].frame_depth
       /\ tries[k].height <= tries[l].height

ControlInv ==
  /\ TypeOK
  /\ Shapes
  /\ Running => FrameInv /\ HandlerInv

(* ... and of the values, if no throw unwinds a frame with a captured      *)
(* local.                                                                  *)

\* A variable belongs to one activation, and its slot has its value.
VarInv ==
  /\ \A a, b \in 1 .. Len(scope) : scope[a] = scope[b] => a = b
  /\ \A i \in Live : stack[frames[i].base_slot] = env[scope[frames[i].act]]

\* The closure that was called lies under its frame, in nobody's local.
CalleeInv ==
  \A i \in Live : ARC_IS_CLOSURE(callee[frames[i].act]) =>
    /\ frames[i].base_slot > 0
    /\ stack[frames[i].base_slot - 1] = callee[frames[i].act]
    /\ \A j \in Live : frames[j].base_slot # frames[i].base_slot - 1

\* An open upvalue is that of a live local, the only one it has; a closed one has
\* the value of a variable that no live activation has any more; and a variable
\* that is captured has one upvalue.
ClosuresInUse ==
  {v \in {stack[i] : i \in 0 .. sp - 1} \cup {upvals[u].closed : u \in DOMAIN upvals} :
     ARC_IS_CLOSURE(v)}
UpvalInv ==
  /\ \A u \in DOMAIN upvals : Open(u) => \E j \in Live : upvals[u].location = frames[j].base_slot
  /\ \A u, w \in DOMAIN upvals :
       Open(u) /\ Open(w) /\ upvals[u].location = upvals[w].location => u = w
  /\ \A v \in ClosuresInUse, j \in Live :
       IF Open(v.up)
       THEN upvals[v.up].location = frames[j].base_slot => v.var = scope[frames[j].act]
       ELSE v.var # scope[frames[j].act]
  /\ \A v \in ClosuresInUse : ~ Open(v.up) => upvals[v.up].closed = env[v.var]
  /\ \A v, w \in ClosuresInUse : v.up = w.up <=> v.var = w.var

ValueInv == Running => VarInv /\ CalleeInv /\ UpvalInv
=============================================================================
