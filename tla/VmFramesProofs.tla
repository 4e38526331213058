--------------------------- MODULE VmFramesProofs ---------------------------
(***************************************************************************)
(* Proof of the stack discipline of the VM, for every size of the stack,   *)
(* of the frame array and of the handler array, and for programs of any    *)
(* length.                                                                 *)
(*                                                                         *)
(* First the control state, for programs that do not return from inside a  *)
(* try: frames stay nested, handlers are the open tries, a throw lands in  *)
(* the innermost.  Two facts carry it.  Handlers are sorted by frame, so   *)
(* the try that TRY_END or THROW ends is the innermost one of the running  *)
(* code (InnermostTry); and code pops only what it pushed in its innermost *)
(* try, so everything a handler or a caller relies on lies below Floor     *)
(* (FloorAbove).                                                           *)
(*                                                                         *)
(* Then the values, for programs that moreover throw past no captured      *)
(* local: every variable has one place, its slot while its activation      *)
(* lives and its upvalue afterwards, and every closure that captured it    *)
(* leads there.                                                            *)
(***************************************************************************)
EXTENDS VmFrames, TLAPS

\* Values by their tag.
LEMMA ValueKinds ==
  /\ arc_val_null \in Values /\ ~ ARC_IS_CLOSURE(arc_val_null)
  /\ \A n \in Ints : arc_val_i64(n) \in Values /\ ~ ARC_IS_CLOSURE(arc_val_i64(n))
  /\ \A u \in 1 .. Len(upvals), x \in 1 .. Len(env) : Closure(u, x) \in Values
  /\ \A u, x : /\ ARC_IS_CLOSURE(Closure(u, x))
               /\ Closure(u, x).up = u /\ Closure(u, x).var = x
  /\ \A v \in Values : ARC_IS_CLOSURE(v) => v.up \in 1 .. Len(upvals) /\ v.var \in 1 .. Len(env)
BY DEF Values, arc_val_null, arc_val_i64, Closure, ARC_IS_CLOSURE

\* Upvalues and variables are only ever added, so values stay values.
LEMMA ValuesGrow ==
  ASSUME Len(upvals) \in Nat, Len(upvals') \in Nat, Len(upvals) <= Len(upvals'),
         Len(env) \in Nat, Len(env') \in Nat, Len(env) <= Len(env')
  PROVE  Values \subseteq Values'
BY DEF Values

\* What is in memory keeps its shape when there are more values.
LEMMA ShapesGrow ==
  ASSUME Shapes, Values \subseteq Values'
  PROVE  /\ stack \in [0 .. ARC_STACK_MAX - 1 -> Values']
         /\ upvals \in Seq(Upvalues')
         /\ env \in Seq(Values') /\ callee \in Seq(Values')
<1>1. Upvalues \subseteq Upvalues'
  BY DEF Upvalues
<1>2. stack \in [0 .. ARC_STACK_MAX - 1 -> Values']
  BY DEF Shapes
<1>3. upvals \in Seq(Upvalues')
  BY <1>1 DEF Shapes
<1>4. env \in Seq(Values') /\ callee \in Seq(Values')
  BY DEF Shapes
<1> QED
  BY <1>2, <1>3, <1>4

\* Lengths and domains.
LEMMA Sizes ==
  ASSUME Shapes
  PROVE  /\ Len(upvals) \in Nat /\ DOMAIN upvals = 1 .. Len(upvals)
         /\ Len(env) \in Nat /\ DOMAIN env = 1 .. Len(env)
         /\ Len(callee) \in Nat /\ Len(scope) \in Nat
         /\ Len(handlers) \in Nat /\ Len(tries) \in Nat
         /\ DOMAIN handlers = 1 .. Len(handlers) /\ DOMAIN tries = 1 .. Len(tries)
         /\ \A u \in 1 .. Len(upvals) :
              /\ upvals[u].location \in 0 .. ARC_STACK_MAX - 1
              /\ upvals[u].open \in BOOLEAN
              /\ upvals[u].closed \in Values
         /\ \A x \in 1 .. Len(env) : env[x] \in Values
         /\ \A a \in 1 .. Len(callee) : callee[a] \in Values
<1>1. /\ Len(env) \in Nat /\ DOMAIN env = 1 .. Len(env)
      /\ Len(callee) \in Nat /\ Len(scope) \in Nat
      /\ Len(handlers) \in Nat /\ Len(tries) \in Nat
      /\ DOMAIN handlers = 1 .. Len(handlers) /\ DOMAIN tries = 1 .. Len(tries)
  BY DEF Shapes
<1>2. upvals \in Seq(Upvalues)
  BY DEF Shapes
<1>3. /\ Len(upvals) \in Nat /\ DOMAIN upvals = 1 .. Len(upvals)
      /\ \A u \in 1 .. Len(upvals) : upvals[u] \in Upvalues
  BY <1>2
<1>4. \A r \in Upvalues : /\ r.location \in 0 .. ARC_STACK_MAX - 1
                          /\ r.open \in BOOLEAN
                          /\ r.closed \in Values
  BY DEF Upvalues
<1>5. /\ \A x \in 1 .. Len(env) : env[x] \in Values
      /\ \A a \in 1 .. Len(callee) : callee[a] \in Values
  BY DEF Shapes
<1> QED
  BY <1>1, <1>3, <1>4, <1>5

-----------------------------------------------------------------------------
(* Handlers and the floor.                                                 *)

\* Frames and handlers of the running code in numbers.
LEMMA Numbers ==
  ASSUME ControlInv, Running
  PROVE  /\ sp \in Nat /\ sp <= ARC_STACK_MAX /\ fp \in Nat /\ fp >= 1 /\ fp <= ARC_FRAMES_MAX
         /\ ARC_STACK_MAX \in Nat /\ ARC_FRAMES_MAX \in Nat
         /\ base \in Nat /\ base < sp /\ base = frames[fp].base_slot
         /\ ip \in Nat /\ ip = frames[fp].act /\ ip \in 1 .. Len(scope)
         /\ \A i \in Live : /\ i \in 1 .. ARC_FRAMES_MAX
                            /\ frames[i].base_slot \in Nat /\ frames[i].base_slot <= base
                            /\ frames[i].act \in 1 .. Len(scope) /\ frames[i].return_ip \in Nat
         /\ \A k \in 1 .. Len(tries) :
              tries[k].act \in Nat /\ tries[k].height \in Nat
              /\ handlers[k].catch_ip \in Nat /\ handlers[k].frame_depth \in Nat
              /\ handlers[k].stack_height \in Nat
<1>1. /\ sp \in Nat /\ sp <= ARC_STACK_MAX /\ fp \in Nat /\ fp >= 1 /\ fp <= ARC_FRAMES_MAX
      /\ ARC_STACK_MAX \in Nat /\ ARC_FRAMES_MAX \in Nat
  BY LimitsAssumption DEF ControlInv, TypeOK, FrameInv
<1>2. \A i \in Live : i \in 1 .. ARC_FRAMES_MAX
  BY <1>1 DEF Live
<1>3. \A i \in 1 .. ARC_FRAMES_MAX : frames[i].base_slot \in Nat /\ frames[i].return_ip \in Nat
                                     /\ frames[i].act \in Nat
  <2>1. \A f \in Frames : f.base_slot \in Nat /\ f.return_ip \in Nat /\ f.act \in Nat
    BY DEF Frames
  <2> QED
    BY <2>1 DEF ControlInv, Shapes
<1>4. /\ base \in Nat /\ base < sp /\ base = frames[fp].base_slot
      /\ ip \in Nat /\ ip = frames[fp].act /\ fp \in Live /\ ip \in 1 .. Len(scope)
  BY <1>1, <1>2, <1>3 DEF ControlInv, FrameInv, base, top, Live
<1>5. \A i \in Live : frames[i].base_slot <= base /\ frames[i].act \in 1 .. Len(scope)
  <2> TAKE i \in Live
  <2>1. i = fp \/ i < fp
    BY <1>1 DEF Live
  <2> QED
    BY <1>1, <1>2, <1>3, <1>4, <2>1 DEF ControlInv, FrameInv
<1>6. \A k \in 1 .. Len(tries) :
        tries[k].act \in Nat /\ tries[k].height \in Nat
        /\ handlers[k].catch_ip \in Nat /\ handlers[k].frame_depth \in Nat
        /\ handlers[k].stack_height \in Nat
  <2>1. \A k \in 1 .. Len(tries) : tries[k] \in Tries
    BY DEF ControlInv, Shapes
  <2>2. \A k \in 1 .. Len(handlers) : handlers[k] \in Handlers
    BY DEF ControlInv, Shapes
  <2>3. Len(handlers) = Len(tries)
    BY DEF ControlInv, HandlerInv
  <2> QED
    BY <2>1, <2>2, <2>3 DEF Tries, Handlers
<1> QED
  BY <1>1, <1>2, <1>3, <1>4, <1>5, <1>6

\* If the running code is in a try of its own, that is the innermost one.
LEMMA InnermostTry ==
  ASSUME ControlInv, Running
  PROVE  /\ \A k \in 1 .. Len(tries) : k \in Mine <=> handlers[k].frame_depth = fp
         /\ Mine # {} => /\ Len(tries) \in Mine /\ Len(tries) >= 1
                         /\ Floor = tries[Len(tries)].height
         /\ Mine = {} => Floor = base + 1
<1>1. \A k \in 1 .. Len(tries) : k \in Mine <=> handlers[k].frame_depth = fp
  <2> TAKE k \in 1 .. Len(tries)
  <2>1. handlers[k].frame_depth \in Live /\ frames[handlers[k].frame_depth].act = tries[k].act
    BY DEF ControlInv, HandlerInv
  <2>2. \A i \in Live : frames[i].act = ip => i = fp
    <3> TAKE i \in Live
    <3>1. fp \in Live /\ (i = fp \/ i < fp)
      BY Numbers DEF Live
    <3>2. i < fp => frames[i].act < frames[fp].act
      BY <3>1 DEF ControlInv, FrameInv
    <3> QED
      BY <3>1, <3>2, Numbers
  <2> QED
    BY <2>1, <2>2, Numbers DEF Mine
<1>2. Len(tries) \in Nat
  BY DEF ControlInv, Shapes
<1>3. ASSUME Mine # {}
      PROVE  /\ Len(tries) \in Mine /\ Len(tries) >= 1
             /\ Floor = tries[Len(tries)].height
  <2>1. PICK k \in Mine : TRUE
    BY <1>3
  <2>2. Len(tries) \in 1 .. Len(tries) /\ k \in 1 .. Len(tries) /\ (k = Len(tries) \/ k < Len(tries))
    BY <1>2, <2>1 DEF Mine
  <2>3. handlers[Len(tries)].frame_depth >= fp /\ handlers[Len(tries)].frame_depth \in Live
    BY <1>1, <2>1, <2>2, Numbers DEF ControlInv, HandlerInv
  <2>4. Len(tries) \in Mine
    BY <1>1, <2>2, <2>3, Numbers DEF Live
  <2> DEFINE i == CHOOSE i \in Mine : \A j \in Mine : j <= i
  <2>5. i = Len(tries)
    <3>1. \A j \in Mine : j <= Len(tries)
      BY <1>2 DEF Mine
    <3>2. \E m \in Mine : \A j \in Mine : j <= m
      BY <2>4, <3>1
    <3>3. i \in Mine /\ \A j \in Mine : j <= i
      BY <3>2
    <3> HIDE DEF i
    <3>4. i \in 1 .. Len(tries) /\ Len(tries) <= i
      BY <2>4, <3>3 DEF Mine
    <3> QED
      BY <1>2, <3>4
  <2>6. Floor = tries[i].height
    BY <1>3 DEF Floor
  <2> HIDE DEF i
  <2> QED
    BY <2>2, <2>4, <2>5, <2>6
<1>4. Mine = {} => Floor = base + 1
  BY DEF Floor, first_operand
<1> QED
  BY <1>1, <1>3, <1>4

\* What the running code may pop lies above its local and above the heights of
\* all handlers.
LEMMA FloorAbove ==
  ASSUME ControlInv, Running
  PROVE  /\ Floor \in Nat /\ base < Floor /\ Floor <= sp
         /\ \A k \in 1 .. Len(tries) : tries[k].height <= Floor
<1>1. CASE Mine # {}
  <2>1. Len(tries) \in 1 .. Len(tries) /\ Floor = tries[Len(tries)].height
        /\ handlers[Len(tries)].frame_depth = fp
    BY <1>1, InnermostTry DEF Mine
  <2>2. Floor \in Nat /\ base < Floor /\ Floor <= sp
    BY <2>1, Numbers DEF ControlInv, HandlerInv
  <2>3. ASSUME NEW k \in 1 .. Len(tries) PROVE tries[k].height <= Floor
    <3>1. k = Len(tries) \/ k < Len(tries)
      BY DEF ControlInv, Shapes
    <3> QED
      BY <2>1, <2>2, <3>1 DEF ControlInv, HandlerInv
  <2> QED
    BY <2>2, <2>3
<1>2. CASE Mine = {}
  <2>1. Floor = base + 1
    BY <1>2, InnermostTry
  <2>2. ASSUME NEW k \in 1 .. Len(tries) PROVE tries[k].height <= base
    <3>1. handlers[k].frame_depth # fp /\ handlers[k].frame_depth \in Live
      BY <1>2, InnermostTry DEF ControlInv, HandlerInv
    <3>2. fp \in Live /\ fp > handlers[k].frame_depth
      BY <3>1, Numbers DEF Live
    <3> QED
      BY <3>2, Numbers DEF ControlInv, HandlerInv
  <2>3. base \in Nat /\ sp \in Nat /\ base < sp /\ \A k \in 1 .. Len(tries) : tries[k].height \in Nat
    BY Numbers
  <2> QED
    BY <2>1, <2>2, <2>3
<1> QED
  BY <1>1, <1>2

-----------------------------------------------------------------------------
(* The shapes of the state.                                                *)

\* Dropping the last element of a sequence.
LEMMA SeqFront ==
  ASSUME NEW S, NEW q \in Seq(S), NEW n \in Nat, Len(q) = n + 1
  PROVE  /\ SubSeq(q, 1, Len(q) - 1) \in Seq(S)
         /\ Len(SubSeq(q, 1, Len(q) - 1)) = n
         /\ \A i \in 1 .. n : SubSeq(q, 1, Len(q) - 1)[i] = q[i]
<1>1. Len(q) - 1 = n
  OBVIOUS
<1>2. SubSeq(q, 1, n) \in Seq(S) /\ Len(SubSeq(q, 1, n)) = n
  OBVIOUS
<1>3. \A i \in 1 .. n : SubSeq(q, 1, n)[i] = q[i]
  OBVIOUS
<1> QED
  BY <1>1, <1>2, <1>3

\* The values on the running code's part of the stack.
LEMMA Slots ==
  ASSUME ControlInv, Running
  PROVE  /\ \A i \in 0 .. sp - 1 : i \in 0 .. ARC_STACK_MAX - 1 /\ stack[i] \in Values
         /\ peek \in Values /\ peek = stack[sp - 1]
         /\ local \in 0 .. sp - 1 /\ local = base
         /\ stack[local] \in Values
<1>1. \A i \in 0 .. sp - 1 : i \in 0 .. ARC_STACK_MAX - 1
  BY Numbers
<1>2. \A i \in 0 .. ARC_STACK_MAX - 1 : stack[i] \in Values
  BY DEF ControlInv, Shapes
<1>3. sp - 1 \in 0 .. sp - 1 /\ local \in 0 .. sp - 1 /\ local = base
  BY Numbers DEF local
<1> QED
  BY <1>1, <1>2, <1>3 DEF peek

\* vm_push.
LEMMA Pushed ==
  ASSUME ControlInv, Running, NEW h \in 0 .. ARC_STACK_MAX, NEW v \in Values',
         Values \subseteq Values', vm_push(h, v)
  PROVE  /\ stack' \in [0 .. ARC_STACK_MAX - 1 -> Values']
         /\ sp' \in 0 .. ARC_STACK_MAX
         /\ status' \in {"running", "error"}
         /\ Running' => /\ h < ARC_STACK_MAX /\ sp' = h + 1
                        /\ stack' = [stack EXCEPT ![h] = v]
<1>1. ARC_STACK_MAX \in Nat /\ status = "running"
  BY LimitsAssumption DEF Running
<1>2. stack \in [0 .. ARC_STACK_MAX - 1 -> Values']
  BY ShapesGrow DEF ControlInv
<1>3. CASE h >= ARC_STACK_MAX
  BY <1>1, <1>2, <1>3 DEF vm_push, vm_error, Running
<1>4. CASE h < ARC_STACK_MAX
  <2>1. stack' = [stack EXCEPT ![h] = v] /\ sp' = h + 1 /\ status' = status
    BY <1>1, <1>4 DEF vm_push
  <2> QED
    BY <1>1, <1>2, <1>4, <2>1
<1> QED
  BY <1>1, <1>3, <1>4

\* The lengths decide what the values are.
LEMMA SameValues ==
  ASSUME Len(upvals') = Len(upvals), Len(env') = Len(env)
  PROVE  Values' = Values /\ Upvalues' = Upvalues
BY DEF Values, Upvalues

\* Assigning a variable.
LEMMA Assigned ==
  ASSUME Shapes, NEW x, NEW e \in Values, env' = [env EXCEPT ![x] = e]
  PROVE  /\ env' \in Seq(Values) /\ Len(env') = Len(env)
         /\ \A i \in 1 .. Len(env) : env'[i] = IF i = x THEN e ELSE env[i]
<1>1. env \in Seq(Values)
  BY DEF Shapes
<1>2. Len(env) \in Nat /\ DOMAIN env = 1 .. Len(env) /\ \A i \in 1 .. Len(env) : env[i] \in Values
  BY <1>1
<1>3. env' = [i \in 1 .. Len(env) |-> IF i = x THEN e ELSE env[i]]
  BY <1>2
<1>4. \A i \in 1 .. Len(env) : env'[i] = (IF i = x THEN e ELSE env[i]) /\ env'[i] \in Values
  BY <1>2, <1>3
<1>5. env' \in [1 .. Len(env) -> Values]
  BY <1>3, <1>4
<1>6. env' \in Seq(Values) /\ Len(env') = Len(env)
  BY <1>2, <1>5
<1> QED
  BY <1>4, <1>6

\* Instructions on operands and locals.
LEMMA ShapesOperands ==
  ASSUME ControlInv,
         (\E n \in Ints : OP_CONST(n)) \/ OP_POP \/ OP_LOAD_LOCAL \/ OP_STORE_LOCAL \/ OP_HALT
  PROVE  Shapes' /\ TypeOK'
<1>0. Running /\ status = "running" /\ TypeOK /\ Shapes
  BY DEF OP_CONST, OP_POP, OP_LOAD_LOCAL, OP_STORE_LOCAL, OP_HALT, Running, ControlInv
<1>1. UNCHANGED <<frames, fp, ip, handlers, upvals, scope, tries, callee, closures>>
  BY DEF OP_CONST, OP_POP, OP_LOAD_LOCAL, OP_STORE_LOCAL, OP_HALT, meaning
<1>2. env' \in Seq(Values) /\ Len(env') = Len(env)
  <2>1. CASE OP_STORE_LOCAL
    <3>1. env' = [env EXCEPT ![scope[ip]] = peek] /\ env \in Seq(Values) /\ peek \in Values
      BY <1>0, <2>1, Slots DEF OP_STORE_LOCAL, Shapes
    <3> QED
      BY <1>0, <3>1, Assigned
  <2>2. CASE ~ OP_STORE_LOCAL
    BY <1>0, <2>2 DEF OP_CONST, OP_POP, OP_LOAD_LOCAL, OP_HALT, meaning, Shapes
  <2> QED
    BY <2>1, <2>2
<1>3. Values' = Values /\ Upvalues' = Upvalues
  BY <1>1, <1>2, SameValues
<1> DEFINE Kept == /\ stack' \in [0 .. ARC_STACK_MAX - 1 -> Values']
                   /\ sp' \in 0 .. ARC_STACK_MAX
                   /\ status' \in {"running", "halted", "error"}
<1>4. Kept
  <2>1. sp \in 0 .. ARC_STACK_MAX /\ sp - 1 \in 0 .. ARC_STACK_MAX
    BY <1>0, Numbers
  <2>2. ASSUME NEW n \in Ints, OP_CONST(n)
        PROVE  Kept
    <3>1. arc_val_i64(n) \in Values' /\ vm_push(sp, arc_val_i64(n))
      BY <1>3, <2>2, ValueKinds DEF OP_CONST
    <3> QED
      BY <1>0, <1>3, <2>1, <3>1, Pushed
  <2>3. CASE OP_LOAD_LOCAL
    <3>1. stack[local] \in Values' /\ vm_push(sp, stack[local])
      BY <1>0, <1>3, <2>3, Slots DEF OP_LOAD_LOCAL
    <3> QED
      BY <1>0, <1>3, <2>1, <3>1, Pushed
  <2>4. CASE OP_STORE_LOCAL
    BY <1>0, <1>3, <2>1, <2>4, Slots DEF OP_STORE_LOCAL, Shapes
  <2>5. CASE OP_POP \/ OP_HALT
    BY <1>0, <1>3, <2>1, <2>5 DEF OP_POP, OP_HALT, Shapes
  <2> QED
    BY <2>2, <2>3, <2>4, <2>5
<1> QED
  BY <1>0, <1>1, <1>2, <1>3, <1>4 DEF Shapes, TypeOK

\* Adding an element to a sequence.
LEMMA SeqAppend ==
  ASSUME NEW S, NEW q \in Seq(S), NEW e \in S
  PROVE  /\ Append(q, e) \in Seq(S)
         /\ Len(Append(q, e)) = Len(q) + 1
         /\ \A i \in 1 .. Len(q) : Append(q, e)[i] = q[i]
         /\ Append(q, e)[Len(q) + 1] = e
OBVIOUS

\* The functions of the program and their frames.
LEMMA ShapesEnter ==
  ASSUME ControlInv, Running, NEW argc \in {0, 1}, NEW clo \in Values, Operands(argc),
         fp < ARC_FRAMES_MAX, Enter(argc, clo)
  PROVE  Shapes' /\ TypeOK'
<1>0. TypeOK /\ Shapes /\ status = "running"
  BY DEF ControlInv, Running
<1> DEFINE arg == IF argc = 1 THEN peek ELSE arc_val_null
           act == Len(scope) + 1
<1>1. arg \in Values
  BY Slots, ValueKinds
<1>2. /\ frames' = [frames EXCEPT ![fp + 1] = Frame(sp - argc, ip, act)]
      /\ fp' = fp + 1 /\ ip' \in {ip, act}
      /\ env' = Append(env, arg) /\ scope' = Append(scope, Len(env) + 1)
      /\ callee' = Append(callee, clo)
      /\ UNCHANGED <<handlers, upvals, tries, closures>>
  BY DEF Enter
<1> HIDE DEF arg
<1>3. env' \in Seq(Values) /\ Len(env') = Len(env) + 1 /\ Len(env) \in Nat
  BY <1>0, <1>1, <1>2, SeqAppend DEF Shapes
<1>4. callee' \in Seq(Values) /\ Len(callee') = Len(callee) + 1 /\ Len(callee) = Len(scope)
  BY <1>0, <1>2, SeqAppend DEF Shapes, TypeOK
<1>5. scope' \in Seq(1 .. Len(env')) /\ Len(scope') = Len(scope) + 1 /\ Len(scope) \in Nat
  <2>1. scope \in Seq(1 .. Len(env)) /\ 1 .. Len(env) \subseteq 1 .. Len(env')
        /\ Len(env) + 1 \in 1 .. Len(env')
    BY <1>0, <1>3 DEF Shapes
  <2>2. scope \in Seq(1 .. Len(env'))
    BY <2>1
  <2> QED
    BY <1>2, <2>1, <2>2, SeqAppend
<1>6. Values \subseteq Values'
  BY <1>0, <1>2, <1>3, Sizes, ValuesGrow
<1>7. frames' \in [1 .. ARC_FRAMES_MAX -> Frames]
  <2>1. sp - argc \in Nat /\ ip \in Nat /\ act \in Nat
    BY <1>5, FloorAbove, Numbers DEF Operands
  <2>2. Frame(sp - argc, ip, act) \in Frames
    BY <2>1 DEF Frame, Frames
  <2> QED
    BY <1>0, <1>2, <2>2 DEF Shapes
<1>8. /\ stack' \in [0 .. ARC_STACK_MAX - 1 -> Values']
      /\ sp' \in 0 .. ARC_STACK_MAX
      /\ status' \in {"running", "error"}
  <2>1. CASE argc = 1
    <3>1. UNCHANGED <<stack, sp, status>>
      BY <2>1 DEF Enter
    <3> QED
      BY <1>0, <1>6, <3>1, ShapesGrow DEF TypeOK
  <2>2. CASE argc = 0
    <3>1. vm_push(sp, arc_val_null)
      BY <2>2 DEF Enter
    <3>2. arc_val_null \in Values' /\ sp \in 0 .. ARC_STACK_MAX
      BY <1>0, <1>6, ValueKinds DEF TypeOK
    <3> QED
      BY <1>6, <3>1, <3>2, Pushed
  <2> QED
    BY <2>1, <2>2
<1>9. upvals' \in Seq(Upvalues') /\ env' \in Seq(Values') /\ callee' \in Seq(Values')
  <2>1. upvals' \in Seq(Upvalues')
    BY <1>0, <1>2, <1>6, ShapesGrow
  <2> QED
    BY <1>3, <1>4, <1>6, <2>1
<1>10. Shapes'
  BY <1>0, <1>2, <1>3, <1>5, <1>7, <1>8, <1>9 DEF Shapes
<1>11. fp' \in 0 .. ARC_FRAMES_MAX /\ ip' \in 1 .. Len(scope')
  <2>1. ip \in 1 .. Len(scope)
    BY <1>0 DEF TypeOK
  <2> QED
    BY <1>2, <1>5, <2>1, Numbers
<1> QED
  BY <1>0, <1>2, <1>4, <1>5, <1>8, <1>10, <1>11 DEF TypeOK

LEMMA ShapesCall ==
  ASSUME ControlInv, NEW argc \in {0, 1}, NEW by_closure \in BOOLEAN,
         vm_exec_call(argc, by_closure)
  PROVE  Shapes' /\ TypeOK'
<1>0. Running /\ TypeOK /\ Shapes
  BY DEF ControlInv, vm_exec_call
<1> DEFINE called == stack[sp - argc - 1]
           clo == IF by_closure THEN called ELSE arc_val_null
           n == argc + IF by_closure THEN 1 ELSE 0
<1>1. Operands(n) /\ (CallFails \/ (fp < ARC_FRAMES_MAX /\ Enter(argc, clo)))
  BY <1>0, Numbers DEF vm_exec_call
<1>2. CASE CallFails
  <2>1. Values' = Values /\ Upvalues' = Upvalues
    BY <1>2, SameValues DEF CallFails, meaning
  <2> QED
    BY <1>0, <1>2, <2>1 DEF CallFails, vm_error, meaning, Shapes, TypeOK
<1>3. CASE fp < ARC_FRAMES_MAX /\ Enter(argc, clo)
  <2>1. Operands(argc) /\ (by_closure => sp - argc - 1 \in 0 .. sp - 1)
    <3>1. sp >= Floor + n
      BY <1>1 DEF Operands
    <3> QED
      BY <1>0, <3>1, FloorAbove, Numbers DEF Operands
  <2>2. clo \in Values
    BY <1>0, <2>1, Slots, ValueKinds
  <2> HIDE DEF clo, n
  <2> QED
    BY <1>0, <1>3, <2>1, <2>2, ShapesEnter
<1> QED
  BY <1>1, <1>2, <1>3

\* Closing upvalues.
LEMMA Closed ==
  ASSUME Shapes, NEW slot, CloseFrom(slot)
  PROVE  /\ upvals' \in Seq(Upvalues) /\ Len(upvals') = Len(upvals)
         /\ \A u \in 1 .. Len(upvals) :
              IF Open(u) /\ upvals[u].location >= slot
              THEN /\ ~ upvals'[u].open /\ upvals'[u].location = upvals[u].location
                   /\ upvals'[u].closed = stack[upvals[u].location]
              ELSE upvals'[u] = upvals[u]
<1> DEFINE r(u) == [upvals[u] EXCEPT !.open = FALSE, !.closed = stack[upvals[u].location]]
<1>1. upvals' = [u \in 1 .. Len(upvals) |->
                   IF Open(u) /\ upvals[u].location >= slot THEN r(u) ELSE upvals[u]]
  BY Sizes DEF CloseFrom, Open
<1>2. ASSUME NEW u \in 1 .. Len(upvals)
      PROVE  /\ upvals[u] \in Upvalues
             /\ r(u) \in Upvalues /\ ~ r(u).open /\ r(u).location = upvals[u].location
             /\ r(u).closed = stack[upvals[u].location]
  <2>1. upvals[u] \in Upvalues
    BY DEF Shapes
  <2>2. stack[upvals[u].location] \in Values
    BY Sizes DEF Shapes
  <2> QED
    BY <2>1, <2>2 DEF Upvalues
<1> HIDE DEF r
<1>3. \A u \in 1 .. Len(upvals) :
        /\ upvals'[u] = (IF Open(u) /\ upvals[u].location >= slot THEN r(u) ELSE upvals[u])
        /\ upvals'[u] \in Upvalues
  BY <1>1, <1>2
<1>4. upvals' \in [1 .. Len(upvals) -> Upvalues]
  BY <1>1, <1>3
<1>5. upvals' \in Seq(Upvalues) /\ Len(upvals') = Len(upvals)
  BY <1>4, Sizes
<1> QED
  BY <1>2, <1>3, <1>5

\* The frame that RETURN leaves.
LEMMA ReturnStep ==
  ASSUME ControlInv, ~ ReturnInTry, vm_exec_return
  PROVE  /\ Running /\ Mine = {} /\ UNCHANGED <<tries, frames, handlers, env, scope, callee, closures>>
         /\ CloseFrom(base) /\ fp' = fp - 1
         /\ (fp = 1 /\ status' = "halted" /\ sp' = 1 /\ ip' = ip
               /\ stack' = [stack EXCEPT ![0] = peek])
            \/ (fp > 1 /\ vm_push(base, peek) /\ ip' = frames[fp - 1].act)
<1>1. /\ Running /\ Mine = {} /\ UNCHANGED <<tries, frames, handlers, env, scope, callee, closures>>
      /\ CloseFrom(base) /\ fp' = fp - 1
  BY DEF vm_exec_return
<1>2. CASE fp = 1
  BY <1>1, <1>2 DEF vm_exec_return
<1>3. CASE fp # 1
  <2>1. fp > 1 /\ fp - 1 \in Live \ {fp} /\ (fp - 1) + 1 = fp
    BY <1>1, <1>3, Numbers DEF Live
  <2>2. vm_push(base, peek) /\ ip' = top.return_ip
    BY <1>3 DEF vm_exec_return
  <2>3. frames[(fp - 1) + 1].return_ip = frames[fp - 1].act
    BY <1>1, <2>1 DEF ControlInv, FrameInv
  <2> QED
    BY <1>1, <2>1, <2>2, <2>3 DEF top
<1> QED
  BY <1>1, <1>2, <1>3

LEMMA ShapesReturn ==
  ASSUME ControlInv, ~ ReturnInTry, vm_exec_return
  PROVE  Shapes' /\ TypeOK'
<1>0. Running /\ TypeOK /\ Shapes
  BY ReturnStep DEF ControlInv
<1>1. upvals' \in Seq(Upvalues) /\ Len(upvals') = Len(upvals) /\ Len(env') = Len(env)
  BY <1>0, ReturnStep, Closed
<1>2. Values' = Values /\ Upvalues' = Upvalues
  BY <1>1, SameValues
<1>3. /\ stack' \in [0 .. ARC_STACK_MAX - 1 -> Values]
      /\ sp' \in 0 .. ARC_STACK_MAX
      /\ status' \in {"running", "halted", "error"}
      /\ ip' \in 1 .. Len(scope)
  <2>1. CASE fp = 1
    <3>1. 0 \in 0 .. ARC_STACK_MAX - 1 /\ 1 \in 0 .. ARC_STACK_MAX
      BY LimitsAssumption
    <3>2. /\ stack' = [stack EXCEPT ![0] = peek] /\ peek \in Values /\ sp' = 1
          /\ status' = "halted" /\ ip' = ip /\ ip \in 1 .. Len(scope)
      BY <1>0, <2>1, ReturnStep, Slots, Numbers
    <3> QED
      BY <1>0, <3>1, <3>2 DEF Shapes
  <2>2. CASE fp # 1
    <3>1. vm_push(base, peek) /\ ip' = frames[fp - 1].act /\ fp - 1 \in Live
      BY <1>0, <2>2, ReturnStep, Numbers DEF Live
    <3>2. ip' \in 1 .. Len(scope)
      BY <1>0, <3>1, Numbers
    <3>3. base \in 0 .. ARC_STACK_MAX /\ peek \in Values'
      BY <1>0, <1>2, Numbers, Slots
    <3> QED
      BY <1>0, <1>2, <3>1, <3>2, <3>3, Pushed
  <2> QED
    BY <2>1, <2>2
<1>4. Shapes'
  BY <1>0, <1>1, <1>2, <1>3, ReturnStep DEF Shapes
<1>5. fp' \in 0 .. ARC_FRAMES_MAX
  BY <1>0, ReturnStep, Numbers
<1> QED
  BY <1>0, <1>3, <1>4, <1>5, ReturnStep, Closed DEF TypeOK

\* Handlers come and go with tries.
LEMMA TryEndStep ==
  ASSUME ControlInv, OP_TRY_END
  PROVE  /\ Running /\ Mine # {} /\ Len(tries) \in Mine /\ Len(handlers) = Len(tries)
         /\ Len(tries) - 1 \in Nat /\ Len(tries) = (Len(tries) - 1) + 1
         /\ handlers' = SubSeq(handlers, 1, Len(handlers) - 1)
         /\ tries' = SubSeq(tries, 1, Len(tries) - 1)
         /\ UNCHANGED <<stack, sp, frames, fp, ip, upvals, status, env, scope, callee, closures>>
<1>1. Running /\ Mine # {}
  BY DEF OP_TRY_END
<1>2. Len(tries) \in Mine /\ Len(tries) >= 1 /\ Len(tries) \in Nat /\ Len(handlers) = Len(tries)
  BY <1>1, InnermostTry DEF ControlInv, HandlerInv, Shapes
<1>3. handlers # <<>>
  BY <1>2
<1> QED
  BY <1>1, <1>2, <1>3 DEF OP_TRY_END

\* The handler that catches a throw.
LEMMA ThrowStep ==
  ASSUME ControlInv, OP_THROW, handlers # <<>>
  PROVE  /\ Running /\ Len(handlers) = Len(tries) /\ Len(tries) \in 1 .. Len(tries)
         /\ Len(tries) - 1 \in Nat /\ Len(tries) = (Len(tries) - 1) + 1
         /\ handlers' = SubSeq(handlers, 1, Len(handlers) - 1)
         /\ tries' = SubSeq(tries, 1, Len(tries) - 1)
         /\ fp' = handlers[Len(tries)].frame_depth /\ fp' \in Live
         /\ ip' = tries[Len(tries)].act /\ ip' = frames[fp'].act
         /\ tries[Len(tries)].height \in 0 .. ARC_STACK_MAX
         /\ tries[Len(tries)].height < sp
         /\ tries[Len(tries)].height > frames[fp'].base_slot
         /\ vm_push(tries[Len(tries)].height, peek)
         /\ ThrowPastCapture \/ \A u \in DOMAIN upvals :
              Open(u) => upvals[u].location < tries[Len(tries)].height
         /\ UNCHANGED <<frames, upvals, env, scope, callee, closures>>
<1>1. Running /\ Operands(1)
  BY DEF OP_THROW
<1>2. Len(tries) \in Nat /\ Len(handlers) = Len(tries)
  BY <1>1 DEF ControlInv, HandlerInv, Shapes
<1>3. Len(tries) # 0
  BY <1>2 DEF ControlInv, Shapes
<1>4. Len(tries) \in 1 .. Len(tries) /\ Len(tries) - 1 \in Nat
      /\ Len(tries) = (Len(tries) - 1) + 1 /\ tries # <<>>
  BY <1>2, <1>3
<1> DEFINE h == handlers[Len(tries)]
           y == tries[Len(tries)]
<1>5. /\ h.catch_ip = y.act /\ h.stack_height = y.height /\ h.frame_depth \in Live
      /\ frames[h.frame_depth].act = y.act
      /\ y.height > frames[h.frame_depth].base_slot
      /\ y.height \in Nat /\ y.height <= Floor
  BY <1>1, <1>4, FloorAbove, Numbers DEF ControlInv, HandlerInv
<1>6. y.height \in 0 .. ARC_STACK_MAX /\ y.height < sp
  BY <1>1, <1>5, FloorAbove, Numbers DEF Operands
<1>7. /\ handlers' = SubSeq(handlers, 1, Len(handlers) - 1)
      /\ tries' = SubSeq(tries, 1, Len(tries) - 1)
      /\ fp' = h.frame_depth /\ ip' = h.catch_ip /\ vm_push(h.stack_height, peek)
      /\ ThrowPastCapture \/ \A u \in DOMAIN upvals : Open(u) => upvals[u].location < h.stack_height
      /\ UNCHANGED <<frames, upvals, env, scope, callee, closures>>
  BY <1>2, <1>4 DEF OP_THROW
<1> HIDE DEF h, y
<1>8. vm_push(y.height, peek)
  BY <1>5, <1>7
<1> QED
  BY <1>1, <1>2, <1>4, <1>5, <1>6, <1>7, <1>8 DEF h, y

LEMMA ShapesTries ==
  ASSUME ControlInv, OP_TRY_BEGIN \/ OP_TRY_END \/ OP_THROW
  PROVE  Shapes' /\ TypeOK'
<1>0. Running /\ TypeOK /\ Shapes
  BY DEF ControlInv, OP_TRY_BEGIN, OP_TRY_END, OP_THROW
<1>1. UNCHANGED <<upvals, env, scope, callee, closures, frames>>
  BY DEF OP_TRY_BEGIN, OP_TRY_END, OP_THROW
<1>2. Values' = Values /\ Upvalues' = Upvalues
  BY <1>1, SameValues
<1>3. ARC_HANDLER_MAX \in Nat /\ Len(handlers) \in Nat /\ Len(tries) \in Nat
  BY <1>0, LimitsAssumption, Sizes
<1>4. handlers' \in Seq(Handlers) /\ tries' \in Seq(Tries) /\ Len(handlers') <= ARC_HANDLER_MAX
  <2>1. CASE UNCHANGED <<handlers, tries>>
    BY <1>0, <2>1 DEF Shapes, TypeOK
  <2>2. CASE OP_TRY_BEGIN /\ ~ UNCHANGED <<handlers, tries>>
    <3> DEFINE h == [catch_ip |-> ip, stack_height |-> sp, frame_depth |-> fp]
               y == [act |-> ip, height |-> sp]
    <3>1. handlers' = Append(handlers, h) /\ tries' = Append(tries, y)
          /\ Len(handlers) < ARC_HANDLER_MAX
      BY <1>3, <2>2 DEF OP_TRY_BEGIN
    <3>2. h \in Handlers /\ y \in Tries
      BY <1>0, Numbers DEF Handlers, Tries
    <3> HIDE DEF h, y
    <3>3. handlers' \in Seq(Handlers) /\ Len(handlers') = Len(handlers) + 1
      BY <1>0, <3>1, <3>2, SeqAppend DEF Shapes
    <3>4. tries' \in Seq(Tries)
      BY <1>0, <3>1, <3>2, SeqAppend DEF Shapes
    <3> QED
      BY <1>3, <3>1, <3>3, <3>4
  <2>3. CASE handlers' = SubSeq(handlers, 1, Len(handlers) - 1) /\ tries' = SubSeq(tries, 1, Len(tries) - 1)
             /\ Len(handlers) = Len(tries) /\ Len(tries) - 1 \in Nat /\ Len(tries) = (Len(tries) - 1) + 1
    <3>1. handlers' \in Seq(Handlers) /\ Len(handlers') = Len(tries) - 1
      BY <1>0, <2>3, SeqFront DEF Shapes
    <3>2. tries' \in Seq(Tries)
      BY <1>0, <2>3, SeqFront DEF Shapes
    <3> QED
      BY <1>0, <1>3, <2>3, <3>1, <3>2 DEF TypeOK
  <2>4. OP_THROW /\ handlers = <<>> => UNCHANGED <<handlers, tries>>
    BY DEF OP_THROW
  <2> QED
    BY <2>1, <2>2, <2>3, <2>4, TryEndStep, ThrowStep
<1>5. /\ stack' \in [0 .. ARC_STACK_MAX - 1 -> Values]
      /\ sp' \in 0 .. ARC_STACK_MAX
      /\ status' \in {"running", "halted", "error"}
      /\ fp' \in 0 .. ARC_FRAMES_MAX /\ ip' \in 1 .. Len(scope)
  <2>1. CASE UNCHANGED <<stack, fp, ip>> /\ sp' \in {sp, sp - 1} /\ status' \in {status, "error"}
    BY <1>0, <2>1, Numbers DEF Shapes, TypeOK
  <2>2. CASE OP_THROW /\ handlers # <<>>
    <3>1. fp' \in Live /\ ip' = frames[fp'].act
      BY <2>2, ThrowStep
    <3>2. fp' \in 0 .. ARC_FRAMES_MAX /\ ip' \in 1 .. Len(scope)
      BY <1>0, <3>1, Numbers DEF Live
    <3>3. tries[Len(tries)].height \in 0 .. ARC_STACK_MAX /\ vm_push(tries[Len(tries)].height, peek)
      BY <2>2, ThrowStep
    <3>4. peek \in Values'
      BY <1>0, <1>2, Slots
    <3> QED
      BY <1>0, <1>2, <3>2, <3>3, <3>4, Pushed
  <2> QED
    BY <2>1, <2>2 DEF OP_TRY_BEGIN, OP_TRY_END, OP_THROW, vm_error
<1>6. Shapes'
  BY <1>0, <1>1, <1>2, <1>4, <1>5 DEF Shapes
<1> QED
  BY <1>0, <1>1, <1>4, <1>5, <1>6 DEF TypeOK

\* What the running code's closure leads to.
LEMMA CalleeSlots ==
  ASSUME ControlInv, Running
  PROVE  /\ callee_v \in Values /\ callee[ip] \in Values /\ scope[ip] \in 1 .. Len(env)
         /\ ARC_IS_CLOSURE(callee_v) => callee_v.up \in 1 .. Len(upvals)
         /\ InClosure => callee[ip].var \in 1 .. Len(env)
         /\ \A u \in 1 .. Len(upvals) : Read(u) \in Values
<1>0. Shapes /\ TypeOK
  BY DEF ControlInv
<1>1. callee_v \in Values
  <2>1. (IF base > 0 THEN base - 1 ELSE 0) \in 0 .. sp - 1
    BY Numbers
  <2> QED
    BY <2>1, Slots DEF callee_v
<1>2. ip \in 1 .. Len(scope) /\ ip \in 1 .. Len(callee)
  BY <1>0, Numbers DEF TypeOK
<1>3. callee[ip] \in Values /\ scope[ip] \in 1 .. Len(env)
  BY <1>0, <1>2 DEF Shapes
<1>4. \A u \in 1 .. Len(upvals) : Read(u) \in Values
  BY <1>0, Sizes DEF Read, Shapes
<1> QED
  BY <1>1, <1>3, <1>4, ValueKinds DEF InClosure

\* OP_CLOSURE: an upvalue is added if the local has none yet.
LEMMA ClosureStep ==
  ASSUME ControlInv, vm_exec_closure_new
  PROVE  /\ Running /\ UNCHANGED <<frames, fp, ip, handlers, env, scope, tries, callee>>
         /\ closures' \in Nat
         /\ upvals' \in Seq(Upvalues) /\ Len(upvals) <= Len(upvals') /\ Len(upvals') \in Nat
         /\ \E u \in 1 .. Len(upvals'), x \in 1 .. Len(env) :
              /\ vm_push(sp, Closure(u, x))
              /\ \/ /\ InClosure /\ ARC_IS_CLOSURE(callee_v) /\ UNCHANGED upvals
                    /\ u = callee_v.up /\ x = callee[ip].var
                 \/ /\ UNCHANGED upvals
                    /\ Open(u) /\ upvals[u].location = local /\ x = scope[ip]
                 \/ /\ Located(local) = {} /\ u = Len(upvals) + 1 /\ x = scope[ip]
                    /\ Len(upvals') = Len(upvals) + 1
                    /\ \A w \in 1 .. Len(upvals) : upvals'[w] = upvals[w]
                    /\ upvals'[u] = [open |-> TRUE, location |-> local, closed |-> arc_val_null]
<1>0. Running /\ Shapes /\ UNCHANGED <<frames, fp, ip, handlers, env, scope, tries, callee>>
      /\ closures' \in Nat
  BY DEF ControlInv, vm_exec_closure_new, Shapes
<1>1. Len(upvals) \in Nat /\ upvals \in Seq(Upvalues) /\ DOMAIN upvals = 1 .. Len(upvals)
  BY <1>0, Sizes DEF Shapes
<1> DEFINE
      Made(u, x) ==
        /\ vm_push(sp, Closure(u, x))
        /\ \/ /\ InClosure /\ ARC_IS_CLOSURE(callee_v) /\ UNCHANGED upvals
              /\ u = callee_v.up /\ x = callee[ip].var
           \/ /\ UNCHANGED upvals
              /\ Open(u) /\ upvals[u].location = local /\ x = scope[ip]
           \/ /\ Located(local) = {} /\ u = Len(upvals) + 1 /\ x = scope[ip]
              /\ Len(upvals') = Len(upvals) + 1
              /\ \A w \in 1 .. Len(upvals) : upvals'[w] = upvals[w]
              /\ upvals'[u] = [open |-> TRUE, location |-> local, closed |-> arc_val_null]
      Goal == /\ upvals' \in Seq(Upvalues) /\ Len(upvals) <= Len(upvals') /\ Len(upvals') \in Nat
              /\ \E u \in 1 .. Len(upvals'), x \in 1 .. Len(env) : Made(u, x)
<1>2. ASSUME ClosureOverUpvalue PROVE Goal
  <2>1. vm_push(sp, Closure(callee_v.up, callee[ip].var)) /\ UNCHANGED upvals
        /\ InClosure /\ ARC_IS_CLOSURE(callee_v)
    BY <1>2 DEF ClosureOverUpvalue
  <2>2. callee_v.up \in 1 .. Len(upvals') /\ callee[ip].var \in 1 .. Len(env)
    BY <1>0, <2>1, CalleeSlots
  <2>3. Made(callee_v.up, callee[ip].var)
    BY <2>1
  <2> HIDE DEF Made
  <2> QED
    BY <1>1, <2>1, <2>2, <2>3
<1>3. ASSUME ClosureOverLocal, Located(local) # {} PROVE Goal
  <2> DEFINE u == CHOOSE w \in Located(local) : TRUE
  <2>1. vm_push(sp, Closure(u, scope[ip])) /\ UNCHANGED upvals /\ u \in Located(local)
    BY <1>3 DEF ClosureOverLocal
  <2> HIDE DEF u
  <2>2. u \in 1 .. Len(upvals') /\ Open(u) /\ upvals[u].location = local
    BY <1>1, <2>1 DEF Located
  <2>3. Made(u, scope[ip]) /\ scope[ip] \in 1 .. Len(env)
    BY <1>0, <2>1, <2>2, CalleeSlots
  <2> HIDE DEF Made
  <2> QED
    BY <1>1, <2>1, <2>2, <2>3
<1>4. ASSUME ClosureOverLocal, Located(local) = {} PROVE Goal
  <2> DEFINE u == Len(upvals) + 1
             r == [open |-> TRUE, location |-> local, closed |-> arc_val_null]
  <2>1. vm_push(sp, Closure(u, scope[ip])) /\ upvals' = Append(upvals, r)
    BY <1>4 DEF ClosureOverLocal
  <2>2. r \in Upvalues
    <3>1. local \in 0 .. ARC_STACK_MAX - 1 /\ arc_val_null \in Values
      BY <1>0, Slots, ValueKinds
    <3> QED
      BY <3>1 DEF Upvalues
  <2> HIDE DEF r
  <2>3. /\ upvals' \in Seq(Upvalues) /\ Len(upvals') = Len(upvals) + 1
        /\ \A w \in 1 .. Len(upvals) : upvals'[w] = upvals[w]
        /\ upvals'[u] = r
    BY <1>1, <2>1, <2>2, SeqAppend
  <2>4. u \in 1 .. Len(upvals') /\ scope[ip] \in 1 .. Len(env)
    BY <1>0, <1>1, <2>3, CalleeSlots
  <2>5. Made(u, scope[ip])
    BY <1>4, <2>1, <2>3 DEF r
  <2> HIDE DEF Made, u
  <2> QED
    BY <1>1, <2>3, <2>4, <2>5
<1>5. Goal
  BY <1>2, <1>3, <1>4 DEF vm_exec_closure_new
<1> QED
  BY <1>0, <1>5

LEMMA ShapesClosure ==
  ASSUME ControlInv, vm_exec_closure_new
  PROVE  Shapes' /\ TypeOK'
<1>0. TypeOK /\ Shapes
  BY DEF ControlInv
<1>1. PICK u \in 1 .. Len(upvals'), x \in 1 .. Len(env) : vm_push(sp, Closure(u, x))
  BY ClosureStep
<1>2. /\ Running /\ UNCHANGED <<frames, fp, ip, handlers, env, scope, tries, callee>>
      /\ closures' \in Nat
      /\ upvals' \in Seq(Upvalues) /\ Len(upvals) <= Len(upvals') /\ Len(upvals') \in Nat
  BY ClosureStep
<1>3. Values \subseteq Values' /\ Upvalues \subseteq Upvalues'
  <2>1. Values \subseteq Values'
    BY <1>0, <1>2, Sizes, ValuesGrow
  <2> QED
    BY <2>1 DEF Upvalues
<1>4. Closure(u, x) \in Values' /\ sp \in 0 .. ARC_STACK_MAX
  BY <1>0, <1>2 DEF Values, Closure, TypeOK
<1>5. /\ stack' \in [0 .. ARC_STACK_MAX - 1 -> Values'] /\ sp' \in 0 .. ARC_STACK_MAX
      /\ status' \in {"running", "error"}
  BY <1>1, <1>2, <1>3, <1>4, Pushed
<1>6. upvals' \in Seq(Upvalues') /\ env' \in Seq(Values') /\ callee' \in Seq(Values')
  <2>1. upvals' \in Seq(Upvalues')
    BY <1>2, <1>3
  <2>2. env' \in Seq(Values') /\ callee' \in Seq(Values')
    BY <1>0, <1>2, <1>3, ShapesGrow
  <2> QED
    BY <2>1, <2>2
<1>7. Shapes'
  BY <1>0, <1>2, <1>5, <1>6 DEF Shapes
<1>8. \A w \in DOMAIN upvals' : upvals'[w].location \in 0 .. ARC_STACK_MAX - 1
  <2>1. \A r \in Upvalues : r.location \in 0 .. ARC_STACK_MAX - 1
    BY DEF Upvalues
  <2> QED
    BY <1>2, <2>1
<1>9. /\ sp' \in 0 .. ARC_STACK_MAX /\ fp' \in 0 .. ARC_FRAMES_MAX
      /\ Len(handlers') <= ARC_HANDLER_MAX /\ status' \in {"running", "halted", "error"}
      /\ ip' \in 1 .. Len(scope') /\ Len(scope') = Len(callee')
  BY <1>0, <1>2, <1>5 DEF TypeOK
<1> QED
  BY <1>7, <1>8, <1>9 DEF TypeOK

\* Assigning the copy in an upvalue.
LEMMA UpvalAssigned ==
  ASSUME Shapes, NEW u \in 1 .. Len(upvals), NEW e \in Values,
         upvals' = [upvals EXCEPT ![u].closed = e]
  PROVE  /\ upvals' \in Seq(Upvalues) /\ Len(upvals') = Len(upvals)
         /\ \A w \in 1 .. Len(upvals) :
              /\ upvals'[w].open = upvals[w].open
              /\ upvals'[w].location = upvals[w].location
              /\ upvals'[w].closed = IF w = u THEN e ELSE upvals[w].closed
<1> DEFINE r(w) == [upvals[w] EXCEPT !.closed = e]
<1>1. upvals \in Seq(Upvalues) /\ Len(upvals) \in Nat /\ DOMAIN upvals = 1 .. Len(upvals)
  BY Sizes DEF Shapes
<1>2. upvals' = [w \in 1 .. Len(upvals) |-> IF w = u THEN r(u) ELSE upvals[w]]
  BY <1>1
<1>3. ASSUME NEW w \in 1 .. Len(upvals)
      PROVE  /\ upvals[w] \in Upvalues
             /\ r(w) \in Upvalues /\ r(w).open = upvals[w].open
             /\ r(w).location = upvals[w].location /\ r(w).closed = e
  <2>1. upvals[w] \in Upvalues
    BY <1>1
  <2> QED
    BY <2>1 DEF Upvalues
<1> HIDE DEF r
<1>4. \A w \in 1 .. Len(upvals) :
        upvals'[w] = (IF w = u THEN r(u) ELSE upvals[w]) /\ upvals'[w] \in Upvalues
  BY <1>2, <1>3
<1>5. upvals' \in [1 .. Len(upvals) -> Upvalues]
  BY <1>2, <1>4
<1>6. upvals' \in Seq(Upvalues) /\ Len(upvals') = Len(upvals)
  BY <1>1, <1>5
<1> QED
  BY <1>3, <1>4, <1>6

LEMMA ShapesUpvals ==
  ASSUME ControlInv, vm_exec_get_upval \/ vm_exec_set_upval
  PROVE  Shapes' /\ TypeOK'
<1>0. Running /\ status = "running" /\ TypeOK /\ Shapes
  BY DEF ControlInv, vm_exec_get_upval, vm_exec_set_upval, Running
<1>1. UNCHANGED <<frames, fp, ip, handlers, scope, tries, callee, closures>>
  BY DEF vm_exec_get_upval, vm_exec_set_upval, meaning
<1>2. sp \in 0 .. ARC_STACK_MAX /\ sp - 1 \in 0 .. ARC_STACK_MAX
  BY <1>0, Numbers
<1> DEFINE Kept == /\ stack' \in [0 .. ARC_STACK_MAX - 1 -> Values]
                   /\ sp' \in 0 .. ARC_STACK_MAX
                   /\ status' \in {"running", "halted", "error"}
                   /\ env' \in Seq(Values) /\ Len(env') = Len(env)
                   /\ upvals' \in Seq(Upvalues) /\ Len(upvals') = Len(upvals)
<1>3. ASSUME vm_exec_get_upval PROVE Kept
  <2>1. UNCHANGED <<upvals, env>>
    BY <1>3 DEF vm_exec_get_upval, meaning
  <2>2. Values' = Values
    BY <2>1, SameValues
  <2>3. CASE ARC_IS_CLOSURE(callee_v)
    <3>1. vm_push(sp, Read(callee_v.up)) /\ Read(callee_v.up) \in Values'
      BY <1>0, <1>3, <2>2, <2>3, CalleeSlots DEF vm_exec_get_upval
    <3>2. /\ stack' \in [0 .. ARC_STACK_MAX - 1 -> Values'] /\ sp' \in 0 .. ARC_STACK_MAX
          /\ status' \in {"running", "error"}
      BY <1>0, <1>2, <2>2, <3>1, Pushed
    <3> QED
      BY <1>0, <2>1, <2>2, <3>2 DEF Shapes
  <2>4. CASE ~ ARC_IS_CLOSURE(callee_v)
    BY <1>0, <1>2, <1>3, <2>1, <2>4 DEF vm_exec_get_upval, vm_error, Shapes
  <2> QED
    BY <2>3, <2>4
<1>4. ASSUME vm_exec_set_upval PROVE Kept
  <2>1. env' = [env EXCEPT ![callee[ip].var] = peek] /\ sp' = sp - 1 /\ peek \in Values
    BY <1>0, <1>4, Slots DEF vm_exec_set_upval
  <2>2. env' \in Seq(Values) /\ Len(env') = Len(env)
    BY <1>0, <2>1, Assigned
  <2>3. CASE ~ ARC_IS_CLOSURE(callee_v)
    BY <1>0, <1>2, <1>4, <2>1, <2>2, <2>3 DEF vm_exec_set_upval, vm_error, Shapes
  <2>4. CASE ARC_IS_CLOSURE(callee_v)
    <3> DEFINE u == callee_v.up
    <3>1. u \in 1 .. Len(upvals)
      BY <1>0, <2>4, CalleeSlots
    <3>2. /\ UNCHANGED status
          /\ \/ stack' = [stack EXCEPT ![upvals[u].location] = peek] /\ UNCHANGED upvals
             \/ upvals' = [upvals EXCEPT ![u].closed = peek] /\ UNCHANGED stack
      BY <1>4, <2>4 DEF vm_exec_set_upval
    <3> HIDE DEF u
    <3>3. upvals[u].location \in 0 .. ARC_STACK_MAX - 1
      BY <1>0, <3>1, Sizes
    <3>4. stack' \in [0 .. ARC_STACK_MAX - 1 -> Values]
      BY <1>0, <2>1, <3>2, <3>3 DEF Shapes
    <3>5. upvals' \in Seq(Upvalues) /\ Len(upvals') = Len(upvals)
      <4>1. CASE UNCHANGED upvals
        BY <1>0, <4>1 DEF Shapes
      <4>2. CASE upvals' = [upvals EXCEPT ![u].closed = peek]
        BY <1>0, <2>1, <3>1, <4>2, UpvalAssigned
      <4> QED
        BY <3>2, <4>1, <4>2
    <3> QED
      BY <1>0, <1>2, <2>1, <2>2, <3>2, <3>4, <3>5
  <2> QED
    BY <2>3, <2>4
<1>5. Kept
  BY <1>3, <1>4
<1>6. Values' = Values /\ Upvalues' = Upvalues
  BY <1>5, SameValues
<1>7. Shapes'
  BY <1>0, <1>1, <1>5, <1>6 DEF Shapes
<1>8. \A w \in DOMAIN upvals' : upvals'[w].location \in 0 .. ARC_STACK_MAX - 1
  <2>1. \A r \in Upvalues : r.location \in 0 .. ARC_STACK_MAX - 1
    BY DEF Upvalues
  <2> QED
    BY <1>5, <2>1
<1>9. /\ sp' \in 0 .. ARC_STACK_MAX /\ fp' \in 0 .. ARC_FRAMES_MAX
      /\ Len(handlers') <= ARC_HANDLER_MAX /\ status' \in {"running", "halted", "error"}
      /\ ip' \in 1 .. Len(scope') /\ Len(scope') = Len(callee')
  BY <1>0, <1>1, <1>5 DEF TypeOK
<1> QED
  BY <1>7, <1>8, <1>9 DEF TypeOK

\* The scope that OP_CLOSE_UPVAL ends.
LEMMA CloseStep ==
  ASSUME ControlInv, vm_exec_close_upval
  PROVE  /\ Running /\ CloseFrom(sp - 1) /\ closures' \in Nat
         /\ UNCHANGED <<stack, sp, frames, fp, ip, handlers, status, tries, callee>>
         /\ \/ sp - 1 # local /\ UNCHANGED <<env, scope>>
            \/ /\ sp - 1 = local
               /\ env' \in Seq(Values) /\ Len(env') = Len(env) + 1
               /\ \A x \in 1 .. Len(env) : env'[x] = env[x]
               /\ env'[Len(env) + 1] = stack[local]
               /\ scope' \in Seq(1 .. Len(env')) /\ Len(scope') = Len(scope)
               /\ \A a \in 1 .. Len(scope) : scope'[a] = IF a = ip THEN Len(env) + 1 ELSE scope[a]
<1>1. /\ Running /\ CloseFrom(sp - 1) /\ closures' \in Nat /\ Shapes
      /\ UNCHANGED <<stack, sp, frames, fp, ip, handlers, status, tries, callee>>
  BY DEF vm_exec_close_upval, ControlInv, Shapes
<1>2. CASE sp - 1 # local
  BY <1>1, <1>2 DEF vm_exec_close_upval
<1>3. CASE sp - 1 = local
  <2>1. env' = Append(env, stack[local]) /\ scope' = [scope EXCEPT ![ip] = Len(env) + 1]
    BY <1>3 DEF vm_exec_close_upval
  <2>2. env \in Seq(Values) /\ stack[local] \in Values /\ Len(env) \in Nat
    BY <1>1, Slots DEF Shapes
  <2>3. /\ env' \in Seq(Values) /\ Len(env') = Len(env) + 1
        /\ \A x \in 1 .. Len(env) : env'[x] = env[x]
        /\ env'[Len(env) + 1] = stack[local]
    BY <2>1, <2>2, SeqAppend
  <2>4. /\ Len(scope) \in Nat /\ DOMAIN scope = 1 .. Len(scope)
        /\ \A a \in 1 .. Len(scope) : scope[a] \in 1 .. Len(env)
    BY <1>1 DEF Shapes
  <2>5. scope' = [a \in 1 .. Len(scope) |-> IF a = ip THEN Len(env) + 1 ELSE scope[a]]
    BY <2>1, <2>4
  <2>6. \A a \in 1 .. Len(scope) : scope'[a] = (IF a = ip THEN Len(env) + 1 ELSE scope[a])
                                   /\ scope'[a] \in 1 .. Len(env')
    BY <2>2, <2>3, <2>4, <2>5
  <2>7. scope' \in [1 .. Len(scope) -> 1 .. Len(env')]
    BY <2>5, <2>6
  <2>8. scope' \in Seq(1 .. Len(env')) /\ Len(scope') = Len(scope)
    BY <2>4, <2>7
  <2> QED
    BY <1>1, <1>3, <2>3, <2>6, <2>8
<1> QED
  BY <1>2, <1>3

LEMMA ShapesClose ==
  ASSUME ControlInv, vm_exec_close_upval
  PROVE  Shapes' /\ TypeOK'
<1>0. TypeOK /\ Shapes
  BY DEF ControlInv
<1>1. /\ CloseFrom(sp - 1) /\ closures' \in Nat
      /\ UNCHANGED <<stack, sp, frames, fp, ip, handlers, status, tries, callee>>
  BY CloseStep
<1>2. /\ env' \in Seq(Values) /\ Len(env) <= Len(env') /\ Len(env') \in Nat /\ Len(env) \in Nat
      /\ scope' \in Seq(1 .. Len(env')) /\ Len(scope') = Len(scope)
  <2>1. CASE UNCHANGED <<env, scope>>
    BY <1>0, <2>1 DEF Shapes
  <2>2. CASE ~ UNCHANGED <<env, scope>>
    <3>1. /\ env' \in Seq(Values) /\ Len(env') = Len(env) + 1
          /\ scope' \in Seq(1 .. Len(env')) /\ Len(scope') = Len(scope)
      BY <2>2, CloseStep
    <3> QED
      BY <1>0, <3>1, Sizes
  <2> QED
    BY <2>1, <2>2
<1>3. upvals' \in Seq(Upvalues) /\ Len(upvals') = Len(upvals) /\ Len(upvals) \in Nat
  BY <1>0, <1>1, Closed, Sizes
<1>4. Values \subseteq Values'
  BY <1>2, <1>3, ValuesGrow
<1>5. stack' \in [0 .. ARC_STACK_MAX - 1 -> Values'] /\ callee' \in Seq(Values')
  BY <1>0, <1>1, <1>4, ShapesGrow
<1>6. upvals' \in Seq(Upvalues') /\ env' \in Seq(Values')
  <2>1. Upvalues \subseteq Upvalues'
    BY <1>4 DEF Upvalues
  <2>2. env' \in Seq(Values')
    BY <1>2, <1>4
  <2>3. upvals' \in Seq(Upvalues')
    BY <1>3, <2>1
  <2> QED
    BY <2>2, <2>3
<1>7. Shapes'
  BY <1>0, <1>1, <1>2, <1>5, <1>6 DEF Shapes
<1>8. \A w \in DOMAIN upvals' : upvals'[w].location \in 0 .. ARC_STACK_MAX - 1
  <2>1. \A r \in Upvalues : r.location \in 0 .. ARC_STACK_MAX - 1
    BY DEF Upvalues
  <2> QED
    BY <1>3, <2>1
<1>9. /\ sp' \in 0 .. ARC_STACK_MAX /\ fp' \in 0 .. ARC_FRAMES_MAX
      /\ Len(handlers') <= ARC_HANDLER_MAX /\ status' \in {"running", "halted", "error"}
      /\ ip' \in 1 .. Len(scope') /\ Len(scope') = Len(callee')
  BY <1>0, <1>1, <1>2 DEF TypeOK
<1> QED
  BY <1>7, <1>8, <1>9 DEF TypeOK

\* Every step keeps the shapes.
LEMMA ShapesNext ==
  ASSUME ControlInv, ~ ReturnInTry, [Next]_vars
  PROVE  Shapes' /\ TypeOK'
<1>1. CASE UNCHANGED vars
  <2>1. UNCHANGED <<stack, sp, frames, fp, ip, handlers, upvals, status, env, scope, tries, callee, closures>>
    BY <1>1 DEF vars, machine, meaning
  <2>2. Values' = Values /\ Upvalues' = Upvalues
    BY <2>1, SameValues
  <2> QED
    BY <2>1, <2>2 DEF ControlInv, Shapes, TypeOK
<1>2. CASE Next
  BY <1>2, ShapesOperands, ShapesCall, ShapesReturn, ShapesTries, ShapesClosure, ShapesUpvals,
     ShapesClose DEF Next
<1> QED
  BY <1>1, <1>2

-----------------------------------------------------------------------------
(* Frames and handlers.                                                    *)

\* Instructions that only move operands pop nothing that a frame or a handler
\* relies on.
LEMMA StraightStep ==
  ASSUME ControlInv, Running',
         \/ \E n \in Ints : OP_CONST(n)
         \/ OP_POP \/ OP_LOAD_LOCAL \/ OP_STORE_LOCAL \/ OP_HALT
         \/ vm_exec_closure_new \/ vm_exec_get_upval \/ vm_exec_set_upval \/ vm_exec_close_upval
  PROVE  /\ Running /\ UNCHANGED <<frames, fp, ip, handlers, tries, status>>
         /\ Len(scope') = Len(scope) /\ sp' \in Nat /\ sp' >= Floor
<1>0. Running /\ status = "running" /\ status' = "running"
  BY DEF OP_CONST, OP_POP, OP_LOAD_LOCAL, OP_STORE_LOCAL, OP_HALT, vm_exec_closure_new,
         vm_exec_get_upval, vm_exec_set_upval, vm_exec_close_upval, Running
<1>1. sp \in Nat /\ Floor \in Nat /\ Floor <= sp
  BY <1>0, FloorAbove, Numbers
<1>2. \A h, v : vm_push(h, v) => sp' = h + 1
  BY <1>0 DEF vm_push, vm_error
<1>3. ASSUME NEW n \in Ints, OP_CONST(n)
      PROVE  UNCHANGED <<frames, fp, ip, handlers, tries, scope>> /\ sp' = sp + 1
  BY <1>2, <1>3 DEF OP_CONST, meaning
<1>4. CASE OP_LOAD_LOCAL
  <2>1. UNCHANGED <<frames, fp, ip, handlers, tries, scope>> /\ sp' = sp + 1
    BY <1>2, <1>4 DEF OP_LOAD_LOCAL, meaning
  <2> QED
    BY <1>0, <1>1, <2>1
<1>5. CASE OP_POP \/ OP_STORE_LOCAL \/ vm_exec_set_upval
  <2>1. UNCHANGED <<frames, fp, ip, handlers, tries, scope>> /\ sp' = sp - 1 /\ Operands(1)
    BY <1>5 DEF OP_POP, OP_STORE_LOCAL, vm_exec_set_upval, meaning
  <2> QED
    BY <1>0, <1>1, <2>1 DEF Operands
<1>6. CASE vm_exec_closure_new
  <2>1. UNCHANGED <<frames, fp, ip, handlers, tries, scope>> /\ sp' = sp + 1
    BY <1>2, <1>6, ClosureStep
  <2> QED
    BY <1>0, <1>1, <2>1
<1>7. CASE vm_exec_get_upval
  <2>1. UNCHANGED <<frames, fp, ip, handlers, tries, scope>> /\ sp' = sp + 1
    BY <1>0, <1>2, <1>7 DEF vm_exec_get_upval, vm_error, meaning
  <2> QED
    BY <1>0, <1>1, <2>1
<1>8. CASE vm_exec_close_upval
  <2>1. UNCHANGED <<sp, frames, fp, ip, handlers, tries>> /\ Len(scope') = Len(scope)
    BY <1>8, CloseStep
  <2> QED
    BY <1>0, <1>1, <2>1
<1>9. ~ OP_HALT
  BY <1>0 DEF OP_HALT
<1> QED
  BY <1>0, <1>1, <1>3, <1>4, <1>5, <1>6, <1>7, <1>8, <1>9

\* Running on above the floor keeps frames and handlers.
LEMMA StraightKeeps ==
  ASSUME ControlInv, Running, UNCHANGED <<frames, fp, ip, handlers, tries>>,
         Len(scope') = Len(scope), sp' \in Nat, sp' >= Floor
  PROVE  FrameInv' /\ HandlerInv'
<1>1. base' = base /\ top' = top /\ Live' = Live
  BY DEF base, top, Live
<1>2. base < sp' /\ \A k \in 1 .. Len(tries) : tries[k].height <= sp'
  BY FloorAbove, Numbers
<1>3. FrameInv'
  BY <1>1, <1>2 DEF ControlInv, FrameInv
<1>4. HandlerInv'
  BY <1>1, <1>2 DEF ControlInv, HandlerInv
<1> QED
  BY <1>3, <1>4

\* A call puts its frame above everything that frames and handlers rely on.
LEMMA EnterKeeps ==
  ASSUME ControlInv, Running, Running', NEW argc \in {0, 1}, NEW clo, Operands(argc),
         fp < ARC_FRAMES_MAX, Enter(argc, clo)
  PROVE  FrameInv' /\ HandlerInv'
<1>0. Shapes /\ FrameInv /\ HandlerInv
  BY DEF ControlInv
<1> DEFINE new == Frame(sp - argc, ip, Len(scope) + 1)
<1>1. /\ frames' = [frames EXCEPT ![fp + 1] = new]
      /\ fp' = fp + 1 /\ ip' = Len(scope) + 1
      /\ scope' = Append(scope, Len(env) + 1)
      /\ UNCHANGED <<handlers, tries>>
  BY DEF Enter
<1>2. new.base_slot = sp - argc /\ new.return_ip = ip /\ new.act = Len(scope) + 1
  BY DEF Frame
<1>3. /\ sp - argc \in Nat /\ sp - argc > base
      /\ \A k \in 1 .. Len(tries) : tries[k].height <= sp - argc
  <2>1. sp - argc >= Floor
    BY FloorAbove, Numbers DEF Operands
  <2> QED
    BY <2>1, FloorAbove, Numbers
<1>4. sp' \in Nat /\ sp - argc < sp' /\ sp <= sp'
  <2>1. CASE argc = 1
    BY <2>1, Numbers DEF Enter
  <2>2. CASE argc = 0
    <3>1. vm_push(sp, arc_val_null) /\ status' = "running"
      BY <2>2 DEF Enter, Running
    <3> QED
      BY <2>2, <3>1, Numbers DEF vm_push, vm_error
  <2> QED
    BY <2>1, <2>2
<1>5. Len(scope') = Len(scope) + 1 /\ Len(scope) \in Nat
  BY <1>0, <1>1, Sizes DEF Shapes
<1>6. /\ frames'[fp + 1] = new
      /\ \A i \in Live : frames'[i] = frames[i]
  <2>1. fp + 1 \in 1 .. ARC_FRAMES_MAX /\ \A i \in Live : i \in 1 .. ARC_FRAMES_MAX /\ i # fp + 1
    BY Numbers DEF Live
  <2> QED
    BY <1>0, <1>1, <2>1 DEF Shapes
<1> HIDE DEF new
<1>7. /\ fp \in Nat /\ \A i \in Live' : i \in Live \/ i = fp + 1
      /\ fp \in Live /\ fp >= 1
      /\ \A i \in Live : i \in Live' /\ i \in Nat /\ i <= fp
  BY <1>1, Numbers DEF Live
<1>8. base' = sp - argc /\ (top.act = ip)'
  BY <1>1, <1>2, <1>6 DEF base, top
<1>9. FrameInv'
  <2>1. \A i \in Live' : frames'[i].act \in 1 .. Len(scope')
    <3> TAKE i \in Live'
    <3>1. CASE i \in Live
      <4>1. frames[i].act \in 1 .. Len(scope)
        BY <3>1, Numbers
      <4> QED
        BY <1>5, <1>6, <3>1, <4>1
    <3>2. CASE i = fp + 1
      BY <1>2, <1>5, <1>6, <3>2
    <3> QED
      BY <1>7, <3>1, <3>2
  <2>2. ASSUME NEW i \in Live', NEW j \in Live', i < j
        PROVE  frames'[i].base_slot < frames'[j].base_slot /\ frames'[i].act < frames'[j].act
    <3>1. CASE j \in Live
      <4>1. i \in Live
        BY <1>7, <2>2, <3>1
      <4> QED
        BY <1>0, <1>6, <2>2, <3>1, <4>1 DEF FrameInv
    <3>2. CASE j = fp + 1
      <4>1. i \in Live
        BY <1>7, <2>2, <3>2
      <4>2. frames[i].base_slot \in Nat /\ frames[i].base_slot <= base
            /\ frames[i].act \in 1 .. Len(scope) /\ base \in Nat
        BY <4>1, Numbers
      <4> QED
        BY <1>2, <1>3, <1>5, <1>6, <3>2, <4>1, <4>2
    <3> QED
      BY <1>7, <3>1, <3>2
  <2>3. ASSUME NEW i \in Live' \ {fp'}
        PROVE  frames'[i + 1].return_ip = frames'[i].act
    <3>1. i \in Live
      BY <1>1, <1>7
    <3>2. CASE i = fp
      BY <1>2, <1>6, <3>1, <3>2, Numbers
    <3>3. CASE i # fp
      <4>1. i + 1 \in Live
        BY <3>1, <3>3, <1>7 DEF Live
      <4> QED
        BY <1>0, <1>6, <3>1, <3>3, <4>1 DEF FrameInv
    <3> QED
      BY <3>2, <3>3
  <2>4. fp' >= 1 /\ base' < sp'
    BY <1>1, <1>4, <1>7, <1>8
  <2> QED
    BY <1>8, <2>1, <2>2, <2>3, <2>4 DEF FrameInv
<1>10. HandlerInv'
  <2>1. ASSUME NEW k \in 1 .. Len(tries)
        PROVE  /\ handlers[k].catch_ip = tries[k].act
               /\ handlers[k].stack_height = tries[k].height
               /\ handlers[k].frame_depth \in Live'
               /\ frames'[handlers[k].frame_depth].act = tries[k].act
               /\ tries[k].height > frames'[handlers[k].frame_depth].base_slot
               /\ tries[k].height <= sp'
               /\ \A j \in Live' : j > handlers[k].frame_depth => frames'[j].base_slot >= tries[k].height
    <3>1. /\ handlers[k].frame_depth \in Live
          /\ tries[k].height <= sp /\ tries[k].height <= sp - argc /\ tries[k].height \in Nat
          /\ frames[handlers[k].frame_depth].act = tries[k].act
          /\ tries[k].height > frames[handlers[k].frame_depth].base_slot
          /\ handlers[k].catch_ip = tries[k].act
          /\ handlers[k].stack_height = tries[k].height
      BY <1>0, <1>3, Numbers DEF HandlerInv
    <3>2. ASSUME NEW j \in Live', j > handlers[k].frame_depth
          PROVE  frames'[j].base_slot >= tries[k].height
      <4>1. CASE j \in Live
        BY <1>0, <1>6, <3>2, <4>1 DEF HandlerInv
      <4>2. CASE j = fp + 1
        BY <1>2, <1>3, <1>6, <3>1, <4>2, Numbers
      <4> QED
        BY <1>7, <4>1, <4>2
    <3>3. tries[k].height <= sp'
      BY <1>4, <3>1, Numbers
    <3> QED
      BY <1>6, <1>7, <3>1, <3>2, <3>3
  <2> QED
    BY <1>0, <1>1, <2>1 DEF HandlerInv
<1> QED
  BY <1>9, <1>10

\* A return leaves the frame of no handler.
LEMMA ReturnKeeps ==
  ASSUME ControlInv, ~ ReturnInTry, vm_exec_return, Running'
  PROVE  FrameInv' /\ HandlerInv'
<1>0. Running /\ FrameInv /\ HandlerInv /\ Mine = {}
  BY ReturnStep DEF ControlInv
<1>1. /\ fp > 1 /\ fp' = fp - 1 /\ ip' = frames[fp - 1].act /\ sp' = base + 1
      /\ UNCHANGED <<frames, handlers, tries, scope>>
  <2>1. status' = "running"
    BY DEF Running
  <2> QED
    BY <2>1, ReturnStep DEF vm_push, vm_error
<1>2. /\ \A i \in Live' : i \in Live /\ i < fp /\ i \in Nat
      /\ fp - 1 \in Live' /\ \A i \in Live : i # fp => i \in Live'
  BY <1>0, <1>1, Numbers DEF Live
<1>3. base' = frames[fp - 1].base_slot /\ top' = frames[fp - 1]
  BY <1>1 DEF base, top
<1>4. frames[fp - 1].base_slot < base /\ frames[fp - 1].base_slot \in Nat /\ base \in Nat
  <2>1. fp \in Live /\ fp - 1 \in Live /\ fp - 1 < fp
    BY <1>0, <1>1, Numbers DEF Live
  <2> QED
    BY <1>0, <2>1, Numbers DEF FrameInv
<1>5. FrameInv'
  <2>1. fp' >= 1 /\ base' < sp' /\ (top.act = ip)'
    BY <1>0, <1>1, <1>3, <1>4, Numbers
  <2>2. \A i \in Live' : frames'[i].act \in 1 .. Len(scope')
    BY <1>0, <1>1, <1>2 DEF FrameInv
  <2>3. \A i, j \in Live' : i < j =>
          frames'[i].base_slot < frames'[j].base_slot /\ frames'[i].act < frames'[j].act
    BY <1>0, <1>1, <1>2 DEF FrameInv
  <2>4. \A i \in Live' \ {fp'} : frames'[i + 1].return_ip = frames'[i].act
    BY <1>0, <1>1, <1>2 DEF FrameInv
  <2> QED
    BY <2>1, <2>2, <2>3, <2>4 DEF FrameInv
<1>6. HandlerInv'
  <2>1. ASSUME NEW k \in 1 .. Len(tries)
        PROVE  handlers[k].frame_depth \in Live' /\ tries[k].height <= sp'
    <3>1. handlers[k].frame_depth \in Live /\ handlers[k].frame_depth # fp
      BY <1>0, InnermostTry DEF HandlerInv
    <3>2. tries[k].height <= Floor /\ Floor = base + 1 /\ tries[k].height \in Nat
      BY <1>0, FloorAbove, InnermostTry, Numbers
    <3> QED
      BY <1>1, <1>2, <3>1, <3>2
  <2> QED
    BY <1>0, <1>1, <1>2, <2>1 DEF HandlerInv
<1> QED
  BY <1>5, <1>6

\* TRY_BEGIN adds the innermost handler.
LEMMA TryBeginKeeps ==
  ASSUME ControlInv, OP_TRY_BEGIN, Running'
  PROVE  FrameInv' /\ HandlerInv'
<1>0. Running /\ Shapes /\ FrameInv /\ HandlerInv
  BY DEF ControlInv, OP_TRY_BEGIN
<1> DEFINE h == [catch_ip |-> ip, stack_height |-> sp, frame_depth |-> fp]
           y == [act |-> ip, height |-> sp]
<1>1. /\ handlers' = Append(handlers, h) /\ tries' = Append(tries, y)
      /\ UNCHANGED <<stack, sp, frames, fp, ip, scope>>
  BY DEF OP_TRY_BEGIN, vm_error, Running
<1>2. base' = base /\ top' = top /\ Live' = Live
  BY <1>1 DEF base, top, Live
<1>3. FrameInv'
  BY <1>0, <1>1, <1>2 DEF FrameInv
<1>4. /\ h.catch_ip = ip /\ h.stack_height = sp /\ h.frame_depth = fp
      /\ y.act = ip /\ y.height = sp
  OBVIOUS
<1>5. h \in Handlers /\ y \in Tries
  BY <1>0, Numbers DEF Handlers, Tries
<1> HIDE DEF h, y
<1> DEFINE n == Len(tries)
<1>6. n \in Nat /\ Len(handlers) = n /\ Len(handlers') = n + 1 /\ Len(tries') = n + 1
  BY <1>0, <1>1, <1>5, SeqAppend DEF Shapes, HandlerInv
<1>7. /\ \A k \in 1 .. n : handlers'[k] = handlers[k]
      /\ handlers'[n + 1] = h
  BY <1>0, <1>1, <1>5, <1>6, SeqAppend DEF Shapes
<1>8. /\ \A k \in 1 .. n : tries'[k] = tries[k]
      /\ tries'[n + 1] = y
  BY <1>0, <1>1, <1>5, <1>6, SeqAppend DEF Shapes
<1>9. /\ \A k \in 1 .. n : tries[k].height <= sp /\ handlers[k].frame_depth <= fp
      /\ sp \in Nat /\ fp \in Live /\ fp \in Nat
  BY <1>0, Numbers DEF HandlerInv, Live
<1>10. ASSUME NEW k \in 1 .. n + 1
       PROVE  /\ handlers'[k].catch_ip = tries'[k].act
              /\ handlers'[k].stack_height = tries'[k].height
              /\ handlers'[k].frame_depth \in Live'
              /\ frames'[handlers'[k].frame_depth].act = tries'[k].act
              /\ tries'[k].height > frames'[handlers'[k].frame_depth].base_slot
              /\ tries'[k].height <= sp'
              /\ \A j \in Live' : j > handlers'[k].frame_depth => frames'[j].base_slot >= tries'[k].height
  <2>1. CASE k \in 1 .. n
    BY <1>0, <1>1, <1>2, <1>7, <1>8, <2>1 DEF HandlerInv
  <2>2. CASE k = n + 1
    <3>1. frames[fp].act = ip /\ sp > frames[fp].base_slot /\ \A j \in Live : ~ j > fp
      BY <1>0, Numbers DEF Live
    <3>2. handlers'[k] = h /\ tries'[k] = y
      BY <1>7, <1>8, <2>2
    <3>3. /\ handlers'[k].catch_ip = ip /\ handlers'[k].stack_height = sp
          /\ handlers'[k].frame_depth = fp /\ tries'[k].act = ip /\ tries'[k].height = sp
      BY <1>4, <3>2
    <3>4. frames' = frames /\ sp' = sp /\ Live' = Live
      BY <1>1, <1>2
    <3>5. \A j \in Live' : ~ j > handlers'[k].frame_depth
      BY <3>1, <3>3, <3>4
    <3> QED
      BY <1>9, <3>1, <3>3, <3>4, <3>5
  <2> QED
    BY <1>6, <2>1, <2>2
<1>11. ASSUME NEW k \in 1 .. n + 1, NEW l \in 1 .. n + 1, k < l
       PROVE  /\ handlers'[k].frame_depth <= handlers'[l].frame_depth
              /\ tries'[k].height <= tries'[l].height
  <2>1. k \in 1 .. n
    BY <1>6, <1>11
  <2>2. CASE l \in 1 .. n
    BY <1>0, <1>7, <1>8, <1>11, <2>1, <2>2 DEF HandlerInv
  <2>3. CASE l = n + 1
    BY <1>4, <1>7, <1>8, <1>9, <2>1, <2>3
  <2> QED
    BY <1>6, <2>2, <2>3
<1>12. HandlerInv'
  BY <1>6, <1>10, <1>11 DEF HandlerInv
<1> QED
  BY <1>3, <1>12

\* Without its innermost handler the handler stack is as before.
LEMMA InnerHandlers ==
  ASSUME ControlInv, Running, NEW n \in Nat, Len(tries) = n + 1,
         handlers' = SubSeq(handlers, 1, Len(handlers) - 1),
         tries' = SubSeq(tries, 1, Len(tries) - 1)
  PROVE  /\ Len(handlers') = n /\ Len(tries') = n
         /\ \A k \in 1 .. n : /\ handlers'[k] = handlers[k] /\ tries'[k] = tries[k]
                              /\ k \in 1 .. Len(tries) /\ k < Len(tries)
<1>1. handlers \in Seq(Handlers) /\ tries \in Seq(Tries) /\ Len(handlers) = n + 1
  BY DEF ControlInv, Shapes, HandlerInv
<1>2. Len(handlers') = n /\ \A k \in 1 .. n : handlers'[k] = handlers[k]
  BY <1>1, SeqFront
<1>3. Len(tries') = n /\ \A k \in 1 .. n : tries'[k] = tries[k]
  BY <1>1, SeqFront
<1> QED
  BY <1>2, <1>3

LEMMA TryEndKeeps ==
  ASSUME ControlInv, OP_TRY_END
  PROVE  FrameInv' /\ HandlerInv'
<1>0. Running /\ FrameInv /\ HandlerInv
  BY TryEndStep DEF ControlInv
<1>1. UNCHANGED <<stack, sp, frames, fp, ip, scope>>
  BY TryEndStep
<1>2. base' = base /\ top' = top /\ Live' = Live
  BY <1>1 DEF base, top, Live
<1>3. FrameInv'
  BY <1>0, <1>1, <1>2 DEF FrameInv
<1>4. PICK n \in Nat : Len(tries) = n + 1
  BY TryEndStep
<1>5. /\ Len(handlers') = n /\ Len(tries') = n
      /\ \A k \in 1 .. n : /\ handlers'[k] = handlers[k] /\ tries'[k] = tries[k]
                           /\ k \in 1 .. Len(tries) /\ k < Len(tries)
  BY <1>0, <1>4, TryEndStep, InnerHandlers
<1>6. HandlerInv'
  BY <1>0, <1>1, <1>2, <1>5 DEF HandlerInv
<1> QED
  BY <1>3, <1>6

\* A throw lands in the frame of the innermost handler, above all the others.
LEMMA ThrowKeeps ==
  ASSUME ControlInv, OP_THROW, Running'
  PROVE  FrameInv' /\ HandlerInv'
<1>0. Running /\ FrameInv /\ HandlerInv /\ handlers # <<>> /\ status' = "running"
  BY DEF ControlInv, OP_THROW, vm_error, Running
<1> DEFINE y == tries[Len(tries)]
<1>1. /\ fp' = handlers[Len(tries)].frame_depth /\ fp' \in Live
      /\ ip' = y.act /\ ip' = frames[fp'].act
      /\ y.height > frames[fp'].base_slot
      /\ vm_push(y.height, peek) /\ y.height \in 0 .. ARC_STACK_MAX
      /\ Len(tries) \in 1 .. Len(tries)
      /\ UNCHANGED <<frames, scope>>
  BY <1>0, ThrowStep
<1> HIDE DEF y
<1>2. sp' = y.height + 1 /\ y.height \in Nat
  BY <1>0, <1>1, LimitsAssumption DEF vm_push, vm_error
<1>3. /\ fp \in Nat /\ fp' \in Nat /\ fp' >= 1 /\ fp' <= fp
      /\ \A i \in Live' : i \in Live /\ i <= fp' /\ (i # fp' => i # fp)
      /\ \A i \in Live : i <= fp' => i \in Live'
  BY <1>0, <1>1, Numbers DEF Live
<1>4. base' = frames[fp'].base_slot /\ top' = frames[fp'] /\ base' \in Nat
  BY <1>0, <1>1, Numbers DEF base, top
<1>5. FrameInv'
  <2>1. base' < sp' /\ (top.act = ip)'
    BY <1>1, <1>2, <1>4
  <2>2. \A i \in Live' : frames'[i].act \in 1 .. Len(scope')
    BY <1>0, <1>1, <1>3 DEF FrameInv
  <2>3. \A i, j \in Live' : i < j =>
          frames'[i].base_slot < frames'[j].base_slot /\ frames'[i].act < frames'[j].act
    BY <1>0, <1>1, <1>3 DEF FrameInv
  <2>4. \A i \in Live' \ {fp'} : frames'[i + 1].return_ip = frames'[i].act
    BY <1>0, <1>1, <1>3 DEF FrameInv
  <2> QED
    BY <1>3, <2>1, <2>2, <2>3, <2>4 DEF FrameInv
<1>6. PICK n \in Nat : Len(tries) = n + 1
  BY <1>0, ThrowStep
<1>7. /\ Len(handlers') = n /\ Len(tries') = n
      /\ \A k \in 1 .. n : /\ handlers'[k] = handlers[k] /\ tries'[k] = tries[k]
                           /\ k \in 1 .. Len(tries) /\ k < Len(tries)
  BY <1>0, <1>6, ThrowStep, InnerHandlers
<1>8. ASSUME NEW k \in 1 .. n
      PROVE  handlers[k].frame_depth \in Live' /\ tries[k].height <= sp'
  <2>1. handlers[k].frame_depth \in Live /\ handlers[k].frame_depth <= fp' /\ tries[k].height <= y.height
    BY <1>0, <1>1, <1>7 DEF HandlerInv, y
  <2>2. tries[k].height \in Nat
    BY <1>0, <1>7, Numbers
  <2> QED
    BY <1>2, <1>3, <2>1, <2>2
<1>9. HandlerInv'
  BY <1>0, <1>1, <1>3, <1>7, <1>8 DEF HandlerInv
<1> QED
  BY <1>5, <1>9

-----------------------------------------------------------------------------
(* The control state.                                                      *)

LEMMA ControlNext ==
  ASSUME ControlInv, ~ ReturnInTry, [Next]_vars
  PROVE  ControlInv'
<1>1. Shapes' /\ TypeOK'
  BY ShapesNext
<1>2. ASSUME Running' PROVE FrameInv' /\ HandlerInv'
  <2>1. CASE UNCHANGED vars
    <3>1. UNCHANGED <<stack, sp, frames, fp, ip, handlers, upvals, status, env, scope, tries>>
      BY <2>1 DEF vars, machine, meaning
    <3>2. base' = base /\ top' = top /\ Live' = Live /\ Running
      BY <1>2, <3>1 DEF base, top, Live, Running
    <3> QED
      BY <3>1, <3>2 DEF ControlInv, FrameInv, HandlerInv
  <2>2. CASE \/ \E n \in Ints : OP_CONST(n)
             \/ OP_POP \/ OP_LOAD_LOCAL \/ OP_STORE_LOCAL \/ OP_HALT
             \/ vm_exec_closure_new \/ vm_exec_get_upval \/ vm_exec_set_upval
             \/ vm_exec_close_upval
    <3>1. /\ Running /\ UNCHANGED <<frames, fp, ip, handlers, tries>>
          /\ Len(scope') = Len(scope) /\ sp' \in Nat /\ sp' >= Floor
      BY <1>2, <2>2, StraightStep
    <3> QED
      BY <3>1, StraightKeeps
  <2>3. ASSUME NEW argc \in {0, 1}, NEW by_closure \in BOOLEAN, vm_exec_call(argc, by_closure)
        PROVE  FrameInv' /\ HandlerInv'
    <3> DEFINE clo == IF by_closure THEN stack[sp - argc - 1] ELSE arc_val_null
    <3>1. Running /\ Operands(argc + IF by_closure THEN 1 ELSE 0) /\ ~ CallFails
      BY <1>2, <2>3 DEF vm_exec_call, CallFails, vm_error, Running
    <3>2. fp < ARC_FRAMES_MAX /\ Enter(argc, clo)
      BY <2>3, <3>1, Numbers DEF vm_exec_call
    <3>3. Operands(argc)
      BY <3>1, FloorAbove, Numbers DEF Operands
    <3> HIDE DEF clo
    <3> QED
      BY <1>2, <3>1, <3>2, <3>3, EnterKeeps
  <2> QED
    BY <1>2, <2>1, <2>2, <2>3, ReturnKeeps, TryBeginKeeps, TryEndKeeps, ThrowKeeps DEF Next
<1> QED
  BY <1>1, <1>2 DEF ControlInv

LEMMA ControlInit == Init => ControlInv
<1> SUFFICES ASSUME Init PROVE ControlInv
  OBVIOUS
<1>1. ARC_STACK_MAX \in Nat \ {0} /\ ARC_FRAMES_MAX \in Nat \ {0} /\ ARC_HANDLER_MAX \in Nat
  BY LimitsAssumption
<1>2. /\ stack = [i \in 0 .. ARC_STACK_MAX - 1 |-> arc_val_null] /\ sp = 1
      /\ frames = [i \in 1 .. ARC_FRAMES_MAX |-> IF i = 1 THEN Frame(0, 0, 1) ELSE NoFrame]
      /\ fp = 1 /\ ip = 1 /\ handlers = <<>> /\ upvals = <<>> /\ status = "running"
      /\ env = <<arc_val_null>> /\ scope = <<1>> /\ tries = <<>> /\ callee = <<arc_val_null>>
      /\ closures = 0
  BY DEF Init, vm_setup_main
<1>3. Frame(0, 0, 1) \in Frames /\ NoFrame \in Frames
      /\ Frame(0, 0, 1).base_slot = 0 /\ Frame(0, 0, 1).act = 1
  BY DEF Frame, NoFrame, Frames
<1>4. frames \in [1 .. ARC_FRAMES_MAX -> Frames] /\ frames[1] = Frame(0, 0, 1)
  BY <1>1, <1>2, <1>3
<1>5. /\ Len(scope) = 1 /\ Len(callee) = 1 /\ Len(env) = 1
      /\ Len(handlers) = 0 /\ Len(tries) = 0 /\ Len(upvals) = 0 /\ DOMAIN upvals = {}
      /\ scope[1] = 1
  BY <1>2
<1>6. TypeOK
  BY <1>1, <1>2, <1>5 DEF TypeOK
<1>7. Shapes
  <2>1. arc_val_null \in Values
    BY ValueKinds
  <2>2. env \in Seq(Values) /\ callee \in Seq(Values)
    BY <1>2, <2>1
  <2>3. scope \in Seq(1 .. Len(env))
    BY <1>2, <1>5
  <2>4. handlers \in Seq(Handlers) /\ tries \in Seq(Tries) /\ upvals \in Seq(Upvalues)
    BY <1>2
  <2>5. stack \in [0 .. ARC_STACK_MAX - 1 -> Values]
    BY <1>2, <2>1
  <2> QED
    BY <1>2, <1>4, <2>2, <2>3, <2>4, <2>5 DEF Shapes
<1>8. FrameInv
  <2>1. top.act = ip /\ base = 0 /\ \A i \in Live : i = 1
    BY <1>2, <1>3, <1>4 DEF top, base, Live
  <2>2. \A i \in Live : frames[i].act \in 1 .. Len(scope)
    BY <1>3, <1>4, <1>5, <2>1
  <2>3. \A i, j \in Live : ~ i < j
    BY <2>1
  <2>4. Live \ {fp} = {}
    BY <1>2, <2>1
  <2>5. fp >= 1 /\ base < sp
    BY <1>2, <2>1
  <2> QED
    BY <2>1, <2>2, <2>3, <2>4, <2>5 DEF FrameInv
<1>9. HandlerInv
  BY <1>5 DEF HandlerInv
<1> QED
  BY <1>6, <1>7, <1>8, <1>9 DEF ControlInv

\* The control invariant holds in every state.
LEMMA ControlInvariant ==
  ASSUME ~ ReturnInTry
  PROVE  Spec => []ControlInv
<1>1. ControlInv /\ [Next]_vars => ControlInv'
  BY ControlNext
<1> QED
  BY <1>1, ControlInit, PTL DEF Spec

\* Type correctness: stack pointer, frame count and handler count stay within
\* their arrays (vm_push, vm_exec_call and OP_TRY_BEGIN test before they write,
\* and a throw restores only what a live frame saved).
THEOREM FramesTyped ==
  ASSUME ~ ReturnInTry
  PROVE  Spec => []TypeOK
<1>1. ControlInv => TypeOK
  BY DEF ControlInv
<1> QED
  BY <1>1, ControlInvariant, PTL

\* Calls, returns and throws in any order keep the frames nested: the running
\* code runs in its own frame, above its caller's local, and RETURN goes back
\* to the code that called.
THEOREM NestingSafe ==
  ASSUME ~ ReturnInTry
  PROVE  Spec => []FramesNested
<1>1. ControlInv => FramesNested
  <2> SUFFICES ASSUME ControlInv, Running PROVE FramesNested
    BY DEF FramesNested
  <2>1. FrameInv /\ base \in Nat /\ sp \in Nat /\ fp \in Nat
    BY Numbers DEF ControlInv
  <2>2. ASSUME NEW i \in Live \ {fp}
        PROVE  /\ frames[i + 1].base_slot > frames[i].base_slot
               /\ frames[i + 1].return_ip = frames[i].act
    <3>1. i \in Live /\ i + 1 \in Live /\ i < i + 1
      BY <2>1 DEF Live
    <3>2. frames[i].base_slot < frames[i + 1].base_slot
      BY <2>1, <3>1 DEF FrameInv
    <3>3. frames[i].base_slot \in Nat /\ frames[i + 1].base_slot \in Nat
      BY <3>1, Numbers
    <3> QED
      BY <2>1, <3>2, <3>3 DEF FrameInv
  <2>3. top.act = ip /\ sp > base
    BY <2>1 DEF FrameInv
  <2> QED
    BY <2>2, <2>3 DEF FramesNested
<1> QED
  BY <1>1, ControlInvariant, PTL

\* The handler array is the stack of the tries that are open in the program,
\* each with its frame and the height of the stack at its TRY_BEGIN.
THEOREM HandlersSafe ==
  ASSUME ~ ReturnInTry
  PROVE  Spec => []HandlersMatchTries
<1>1. ControlInv => HandlersMatchTries
  <2> SUFFICES ASSUME ControlInv, Running PROVE HandlersMatchTries
    BY DEF HandlersMatchTries
  <2>1. HandlerInv /\ Shapes
    BY DEF ControlInv
  <2>2. DOMAIN handlers = 1 .. Len(tries) /\ Len(handlers) = Len(tries)
    BY <2>1, Sizes DEF HandlerInv
  <2> QED
    BY <2>1, <2>2 DEF HandlersMatchTries, HandlerInv
<1> QED
  BY <1>1, ControlInvariant, PTL

\* What a step of OP_THROW does in a state of the control invariant.
LEMMA ThrowLands ==
  ASSUME ControlInv, OP_THROW, status' = "running"
  PROVE  /\ tries # <<>>
         /\ LET y == tries[Len(tries)] IN
            /\ ip' = y.act
            /\ fp' <= fp
            /\ frames[fp'].act = y.act
            /\ sp' = y.height + 1
            /\ \A i \in 0 .. y.height - 1 : stack'[i] = stack[i]
            /\ stack'[y.height] = peek
<1>1. Running /\ Running' /\ handlers # <<>>
  BY DEF OP_THROW, vm_error, Running
<1> DEFINE y == tries[Len(tries)]
<1>2. /\ fp' \in Live /\ ip' = y.act /\ ip' = frames[fp'].act
      /\ vm_push(y.height, peek) /\ y.height \in 0 .. ARC_STACK_MAX
      /\ Len(tries) \in 1 .. Len(tries)
  BY <1>1, ThrowStep
<1> HIDE DEF y
<1>3. /\ stack' = [stack EXCEPT ![y.height] = peek] /\ sp' = y.height + 1
      /\ y.height < ARC_STACK_MAX /\ y.height \in Nat
  BY <1>1, <1>2, LimitsAssumption DEF vm_push, vm_error, Running
<1>4. /\ stack'[y.height] = peek
      /\ \A i \in 0 .. y.height - 1 : stack'[i] = stack[i]
  BY <1>3, LimitsAssumption DEF ControlInv, Shapes
<1>5. fp' <= fp
  BY <1>1, <1>2, Numbers DEF Live
<1>6. tries # <<>>
  BY <1>2
<1> QED
  BY <1>2, <1>3, <1>4, <1>5, <1>6 DEF y

\* A throw that is caught lands in the innermost open try, in its activation's
\* frame, with the stack of that moment and the thrown value on top.
THEOREM ThrowSafe ==
  ASSUME ~ ReturnInTry
  PROVE  Spec => ThrowUnwinds
<1>1. ControlInv /\ [Next]_vars =>
        [(OP_THROW /\ status' = "running") =>
           /\ tries # <<>>
           /\ LET y == tries[Len(tries)] IN
              /\ ip' = y.act
              /\ fp' <= fp
              /\ frames[fp'].act = y.act
              /\ sp' = y.height + 1
              /\ \A i \in 0 .. y.height - 1 : stack'[i] = stack[i]
              /\ stack'[y.height] = peek]_vars
  BY ThrowLands
<1> QED
  BY <1>1, ControlInvariant, PTL DEF Spec, ThrowUnwinds

-----------------------------------------------------------------------------
(* Variables, their slots and their upvalues.                              *)

\* The slots of locals, and those below, are in use.
LEMMA LiveSlots ==
  ASSUME ControlInv, Running
  PROVE  \A i \in Live : /\ frames[i].base_slot \in 0 .. sp - 1
                         /\ frames[i].base_slot > 0 => frames[i].base_slot - 1 \in 0 .. sp - 1
<1> TAKE i \in Live
<1>1. frames[i].base_slot \in Nat /\ frames[i].base_slot <= base /\ base < sp /\ base \in Nat /\ sp \in Nat
  BY Numbers
<1> QED
  BY <1>1

\* Where a closure in use comes from.
LEMMA InUse ==
  ASSUME ControlInv, Running
  PROVE  /\ \A v \in ClosuresInUse : /\ ARC_IS_CLOSURE(v) /\ v \in Values
                                     /\ v.up \in 1 .. Len(upvals) /\ v.var \in 1 .. Len(env)
         /\ \A i \in 0 .. sp - 1 : ARC_IS_CLOSURE(stack[i]) => stack[i] \in ClosuresInUse
         /\ \A u \in 1 .. Len(upvals) :
              ARC_IS_CLOSURE(upvals[u].closed) => upvals[u].closed \in ClosuresInUse
<1>1. DOMAIN upvals = 1 .. Len(upvals) /\ \A u \in 1 .. Len(upvals) : upvals[u].closed \in Values
  BY Sizes DEF ControlInv
<1>2. \A i \in 0 .. sp - 1 : stack[i] \in Values
  BY Slots
<1>3. \A v \in ClosuresInUse : ARC_IS_CLOSURE(v) /\ v \in Values
  BY <1>1, <1>2 DEF ClosuresInUse
<1>4. /\ \A i \in 0 .. sp - 1 : ARC_IS_CLOSURE(stack[i]) => stack[i] \in ClosuresInUse
      /\ \A u \in 1 .. Len(upvals) :
           ARC_IS_CLOSURE(upvals[u].closed) => upvals[u].closed \in ClosuresInUse
  BY <1>1 DEF ClosuresInUse
<1> QED
  BY <1>3, <1>4, ValueKinds

\* Where a closure in use after a step comes from.
LEMMA InUseNext ==
  ASSUME Shapes', NEW v \in ClosuresInUse'
  PROVE  /\ ARC_IS_CLOSURE(v)
         /\ \/ \E i \in 0 .. sp' - 1 : v = stack'[i]
            \/ \E u \in 1 .. Len(upvals') : v = upvals'[u].closed
<1>1. upvals' \in Seq(Upvalues')
  BY DEF Shapes
<1>2. DOMAIN upvals' = 1 .. Len(upvals')
  BY <1>1
<1> QED
  BY <1>2 DEF ClosuresInUse, ARC_IS_CLOSURE

\* Live activations differ in frame and variable; a closure whose upvalue is
\* open captured the variable of a live activation.
LEMMA Places ==
  ASSUME ControlInv, ValueInv, Running
  PROVE  /\ \A i, j \in Live : frames[i].base_slot = frames[j].base_slot => i = j
         /\ \A i, j \in Live : scope[frames[i].act] = scope[frames[j].act] => i = j
         /\ \A i \in Live : scope[frames[i].act] \in 1 .. Len(env)
         /\ \A v \in ClosuresInUse : Open(v.up) =>
              \E k \in Live : /\ upvals[v.up].location = frames[k].base_slot
                              /\ v.var = scope[frames[k].act]
<1>0. FrameInv /\ VarInv /\ UpvalInv /\ Shapes
  BY DEF ControlInv, ValueInv
<1>1. ASSUME NEW i \in Live, NEW j \in Live, i < j
      PROVE  frames[i].base_slot # frames[j].base_slot /\ frames[i].act # frames[j].act
  <2>1. frames[i].base_slot < frames[j].base_slot /\ frames[i].act < frames[j].act
    BY <1>0, <1>1 DEF FrameInv
  <2> QED
    BY <2>1, Numbers
<1>2. \A i, j \in Live : i = j \/ i < j \/ j < i
  BY Numbers DEF Live
<1>3. \A i, j \in Live : frames[i].base_slot = frames[j].base_slot => i = j
  BY <1>1, <1>2
<1>4. \A i, j \in Live : scope[frames[i].act] = scope[frames[j].act] => i = j
  <2> SUFFICES ASSUME NEW i \in Live, NEW j \in Live, scope[frames[i].act] = scope[frames[j].act]
               PROVE  i = j
    OBVIOUS
  <2>1. frames[i].act \in 1 .. Len(scope) /\ frames[j].act \in 1 .. Len(scope)
    BY Numbers
  <2>2. frames[i].act = frames[j].act
    BY <1>0, <2>1 DEF VarInv
  <2> QED
    BY <1>1, <1>2, <2>2
<1>5. \A i \in Live : scope[frames[i].act] \in 1 .. Len(env)
  <2>1. scope \in Seq(1 .. Len(env))
    BY <1>0 DEF Shapes
  <2>2. \A a \in 1 .. Len(scope) : scope[a] \in 1 .. Len(env)
    BY <2>1
  <2> QED
    BY <2>2, Numbers
<1>6. \A v \in ClosuresInUse : Open(v.up) =>
        \E k \in Live : /\ upvals[v.up].location = frames[k].base_slot
                        /\ v.var = scope[frames[k].act]
  <2> SUFFICES ASSUME NEW v \in ClosuresInUse, Open(v.up)
               PROVE  \E k \in Live : /\ upvals[v.up].location = frames[k].base_slot
                                      /\ v.var = scope[frames[k].act]
    OBVIOUS
  <2>1. v.up \in DOMAIN upvals
    BY <1>0, InUse, Sizes
  <2>2. PICK k \in Live : upvals[v.up].location = frames[k].base_slot
    BY <1>0, <2>1 DEF UpvalInv
  <2> QED
    BY <1>0, <2>2 DEF UpvalInv
<1> QED
  BY <1>3, <1>4, <1>5, <1>6

\* Steps that assign no variable and close no upvalue, and perhaps leave frames.
LEMMA KeepValues ==
  ASSUME ControlInv, ValueInv, Running, Shapes',
         UNCHANGED <<frames, upvals, env, scope, callee>>, Live' \subseteq Live,
         \A u \in DOMAIN upvals : Open(u) => \E j \in Live' : upvals[u].location = frames[j].base_slot,
         \A i \in Live' : stack'[frames[i].base_slot] = stack[frames[i].base_slot],
         \A i \in Live' : frames[i].base_slot > 0 =>
            stack'[frames[i].base_slot - 1] = stack[frames[i].base_slot - 1],
         \A v \in ClosuresInUse' : \E w \in ClosuresInUse : v.up = w.up /\ v.var = w.var
  PROVE  VarInv' /\ CalleeInv' /\ UpvalInv'
<1>0. VarInv /\ CalleeInv /\ UpvalInv
  BY DEF ValueInv
<1>1. VarInv'
  BY <1>0 DEF VarInv
<1>2. CalleeInv'
  BY <1>0 DEF CalleeInv, ARC_IS_CLOSURE
<1>3. \A u : Open(u)' = Open(u)
  BY DEF Open
<1>4. UpvalInv'
  <2>1. (\A u \in DOMAIN upvals : Open(u) => \E j \in Live : upvals[u].location = frames[j].base_slot)'
    BY <1>3
  <2>2. (\A u, w \in DOMAIN upvals :
           Open(u) /\ Open(w) /\ upvals[u].location = upvals[w].location => u = w)'
    BY <1>0, <1>3 DEF UpvalInv
  <2>3. ASSUME NEW v \in ClosuresInUse', NEW j \in Live'
        PROVE  (IF Open(v.up)
                THEN upvals[v.up].location = frames[j].base_slot => v.var = scope[frames[j].act]
                ELSE v.var # scope[frames[j].act])'
    <3>1. PICK w \in ClosuresInUse : v.up = w.up /\ v.var = w.var
      OBVIOUS
    <3> QED
      BY <1>0, <1>3, <3>1 DEF UpvalInv
  <2>4. ASSUME NEW v \in ClosuresInUse', ~ Open(v.up)'
        PROVE  (upvals[v.up].closed = env[v.var])'
    <3>1. PICK w \in ClosuresInUse : v.up = w.up /\ v.var = w.var
      OBVIOUS
    <3> QED
      BY <1>0, <1>3, <2>4, <3>1 DEF UpvalInv
  <2>5. ASSUME NEW v \in ClosuresInUse', NEW w \in ClosuresInUse'
        PROVE  v.up = w.up <=> v.var = w.var
    BY <1>0 DEF UpvalInv
  <2> QED
    BY <2>1, <2>2, <2>3, <2>4, <2>5 DEF UpvalInv
<1> QED
  BY <1>1, <1>2, <1>4

\* Pushing a value that is no closure, or leads where one in use leads.
LEMMA PushKeeps ==
  ASSUME ControlInv, ValueInv, Running, Shapes', Running', NEW val, vm_push(sp, val),
         UNCHANGED <<frames, fp, upvals, env, scope, callee>>,
         ARC_IS_CLOSURE(val) => \E w \in ClosuresInUse : val.up = w.up /\ val.var = w.var
  PROVE  VarInv' /\ CalleeInv' /\ UpvalInv'
<1>0. Live' = Live /\ UpvalInv /\ Shapes
  BY DEF Live, ValueInv, ControlInv
<1>1. stack' = [stack EXCEPT ![sp] = val] /\ sp' = sp + 1
  BY DEF vm_push, vm_error, Running
<1>2. \A i \in 0 .. sp - 1 : stack'[i] = stack[i]
  BY <1>0, <1>1, Numbers DEF Shapes
<1>3. sp < ARC_STACK_MAX /\ sp \in Nat /\ stack'[sp] = val
  <2>1. sp < ARC_STACK_MAX
    BY Numbers DEF vm_push, vm_error, Running
  <2> QED
    BY <1>0, <1>1, <2>1, Numbers DEF Shapes
<1>4. \A i \in Live : stack'[frames[i].base_slot] = stack[frames[i].base_slot]
  BY <1>2, Numbers
<1>5. \A i \in Live : frames[i].base_slot > 0 =>
        stack'[frames[i].base_slot - 1] = stack[frames[i].base_slot - 1]
  <2> TAKE i \in Live
  <2>1. frames[i].base_slot > 0 => frames[i].base_slot - 1 \in 0 .. sp - 1
    BY Numbers
  <2> QED
    BY <1>2, <2>1
<1>6. ASSUME NEW v \in ClosuresInUse'
      PROVE  \E w \in ClosuresInUse : v.up = w.up /\ v.var = w.var
  <2>1. ARC_IS_CLOSURE(v)
    BY InUseNext
  <2>2. CASE \E u \in 1 .. Len(upvals') : v = upvals'[u].closed
    BY <2>1, <2>2, InUse
  <2>3. CASE \E i \in 0 .. sp' - 1 : v = stack'[i]
    <3>1. PICK i \in 0 .. sp' - 1 : v = stack'[i]
      BY <2>3
    <3>2. i \in 0 .. sp - 1 \/ i = sp
      BY <1>1, <1>3
    <3> QED
      BY <1>2, <1>3, <2>1, <3>1, <3>2, InUse
  <2> QED
    BY <2>2, <2>3, InUseNext
<1>7. \A u \in DOMAIN upvals : Open(u) => \E j \in Live : upvals[u].location = frames[j].base_slot
  BY <1>0 DEF UpvalInv
<1> QED
  BY <1>0, <1>4, <1>5, <1>6, <1>7, KeepValues

\* Steps that leave the stack alone except for popping.
LEMMA PopKeeps ==
  ASSUME ControlInv, ValueInv, Running, Shapes', sp' \in Nat, sp' <= sp,
         UNCHANGED <<stack, frames, fp, upvals, env, scope, callee>>
  PROVE  VarInv' /\ CalleeInv' /\ UpvalInv'
<1>0. Live' = Live /\ UpvalInv
  BY DEF Live, ValueInv
<1>1. ASSUME NEW v \in ClosuresInUse'
      PROVE  \E w \in ClosuresInUse : v.up = w.up /\ v.var = w.var
  <2>1. ARC_IS_CLOSURE(v)
    BY InUseNext
  <2>2. \A i \in 0 .. sp' - 1 : i \in 0 .. sp - 1
    <3>1. \A a, b \in Nat : a <= b => 0 .. a - 1 \subseteq 0 .. b - 1
      OBVIOUS
    <3>2. sp \in Nat /\ sp' \in Nat /\ sp' <= sp
      BY Numbers
    <3> QED
      BY <3>1, <3>2
  <2>3. v \in ClosuresInUse
    BY <2>1, <2>2, InUseNext, InUse
  <2> QED
    BY <2>3
<1>2. \A u \in DOMAIN upvals : Open(u) => \E j \in Live : upvals[u].location = frames[j].base_slot
  BY <1>0 DEF UpvalInv
<1> QED
  BY <1>0, <1>1, <1>2, KeepValues

\* OP_STORE_LOCAL, and OP_SET_UPVAL through an open upvalue: a live activation's
\* variable and its slot get the value on top of the stack.
LEMMA AssignKeeps ==
  ASSUME ControlInv, ValueInv, Running, Shapes', Operands(1), NEW k \in Live,
         stack' = [stack EXCEPT ![frames[k].base_slot] = peek],
         env' = [env EXCEPT ![scope[frames[k].act]] = peek],
         sp' = sp - 1, UNCHANGED <<frames, fp, upvals, scope, callee>>
  PROVE  VarInv' /\ CalleeInv' /\ UpvalInv'
<1>0. Live' = Live /\ VarInv /\ CalleeInv /\ UpvalInv /\ Shapes
  BY DEF Live, ValueInv, ControlInv
<1>1. \A x \in 1 .. Len(env) : env'[x] = IF x = scope[frames[k].act] THEN peek ELSE env[x]
  BY <1>0, Slots, Assigned
<1>2. \A i \in 0 .. sp - 1 : stack'[i] = IF i = frames[k].base_slot THEN peek ELSE stack[i]
  BY <1>0, Slots DEF Shapes
<1>3. \A i \in Live : /\ frames[i].base_slot \in 0 .. sp - 1
                      /\ frames[i].base_slot > 0 => frames[i].base_slot - 1 \in 0 .. sp - 1
  BY LiveSlots
<1>4. VarInv'
  <2>1. ASSUME NEW i \in Live
        PROVE  stack'[frames[i].base_slot] = env'[scope[frames[i].act]]
    <3>1. scope[frames[i].act] \in 1 .. Len(env)
      BY Places
    <3>2. CASE i = k
      BY <1>1, <1>2, <1>3, <3>1, <3>2
    <3>3. CASE i # k
      <4>1. frames[i].base_slot # frames[k].base_slot /\ scope[frames[i].act] # scope[frames[k].act]
        BY <3>3, Places
      <4> QED
        BY <1>0, <1>1, <1>2, <1>3, <3>1, <4>1 DEF VarInv
    <3> QED
      BY <3>2, <3>3
  <2> QED
    BY <1>0, <2>1 DEF VarInv
<1>5. CalleeInv'
  BY <1>0, <1>2, <1>3 DEF CalleeInv, ARC_IS_CLOSURE
<1>6. \A v \in ClosuresInUse' : v \in ClosuresInUse
  <2> TAKE v \in ClosuresInUse'
  <2>1. ARC_IS_CLOSURE(v)
    BY InUseNext
  <2>2. \A i \in 0 .. sp' - 1 : i \in 0 .. sp - 1
    BY Numbers
  <2>3. sp - 1 \in 0 .. sp - 1 /\ peek = stack[sp - 1]
    BY Numbers, Slots
  <2>4. CASE \E u \in 1 .. Len(upvals') : v = upvals'[u].closed
    BY <2>1, <2>4, InUse
  <2>5. CASE \E i \in 0 .. sp' - 1 : v = stack'[i]
    BY <1>2, <2>1, <2>2, <2>3, <2>5, InUse
  <2> QED
    BY <2>4, <2>5, InUseNext
<1>7. \A u : Open(u)' = Open(u)
  BY DEF Open
<1>8. UpvalInv'
  <2>1. ASSUME NEW v \in ClosuresInUse', ~ Open(v.up)'
        PROVE  upvals'[v.up].closed = env'[v.var]
    <3>1. v \in ClosuresInUse /\ v.var \in 1 .. Len(env) /\ v.var # scope[frames[k].act]
          /\ upvals[v.up].closed = env[v.var]
      BY <1>0, <1>6, <1>7, <2>1, InUse DEF UpvalInv
    <3> QED
      BY <1>1, <3>1
  <2> QED
    BY <1>0, <1>6, <1>7, <2>1 DEF UpvalInv
<1> QED
  BY <1>4, <1>5, <1>8

\* The closure that the running code was called through.
LEMMA OwnClosure ==
  ASSUME ControlInv, ValueInv, Running, InClosure
  PROVE  callee_v = callee[ip] /\ callee_v \in ClosuresInUse
<1>1. fp \in Live /\ frames[fp].act = ip /\ frames[fp].base_slot = base
  BY Numbers DEF Live
<1>2. base > 0 /\ stack[base - 1] = callee[ip]
  BY <1>1 DEF ValueInv, CalleeInv, InClosure
<1>3. base - 1 \in 0 .. sp - 1
  BY <1>1, <1>2, LiveSlots
<1> QED
  BY <1>2, <1>3, InUse DEF callee_v, InClosure

LEMMA SetUpvalKeeps ==
  ASSUME ControlInv, ValueInv, Shapes', Running', vm_exec_set_upval
  PROVE  VarInv' /\ CalleeInv' /\ UpvalInv'
<1> DEFINE c == callee_v
<1>0. Running /\ InClosure /\ Operands(1)
  BY DEF vm_exec_set_upval
<1>1. c = callee[ip] /\ c \in ClosuresInUse /\ ARC_IS_CLOSURE(c)
  BY <1>0, OwnClosure DEF InClosure
<1>2. /\ sp' = sp - 1 /\ env' = [env EXCEPT ![c.var] = peek]
      /\ UNCHANGED <<frames, fp, scope, callee>>
      /\ \/ Open(c.up) /\ stack' = [stack EXCEPT ![upvals[c.up].location] = peek] /\ UNCHANGED upvals
         \/ ~ Open(c.up) /\ upvals' = [upvals EXCEPT ![c.up].closed = peek] /\ UNCHANGED stack
  BY <1>1 DEF vm_exec_set_upval
<1> HIDE DEF c
<1>3. CASE Open(c.up)
  <2>1. PICK k \in Live : /\ upvals[c.up].location = frames[k].base_slot
                          /\ c.var = scope[frames[k].act]
    BY <1>0, <1>1, <1>3, Places
  <2>2. /\ stack' = [stack EXCEPT ![frames[k].base_slot] = peek]
        /\ env' = [env EXCEPT ![scope[frames[k].act]] = peek] /\ UNCHANGED upvals
    BY <1>2, <1>3, <2>1
  <2> QED
    BY <1>0, <1>2, <2>2, AssignKeeps
<1>4. CASE ~ Open(c.up)
  <2>0. Live' = Live /\ VarInv /\ CalleeInv /\ UpvalInv /\ Shapes
    BY <1>0, <1>2 DEF Live, ValueInv, ControlInv
  <2>1. c.up \in 1 .. Len(upvals) /\ c.var \in 1 .. Len(env)
    BY <1>0, <1>1, InUse
  <2>2. \A x \in 1 .. Len(env) : env'[x] = IF x = c.var THEN peek ELSE env[x]
    BY <1>0, <1>2, <2>0, Slots, Assigned
  <2>3. /\ Len(upvals') = Len(upvals)
        /\ \A w \in 1 .. Len(upvals) :
              /\ upvals'[w].open = upvals[w].open
              /\ upvals'[w].location = upvals[w].location
              /\ upvals'[w].closed = IF w = c.up THEN peek ELSE upvals[w].closed
    BY <1>0, <1>2, <1>4, <2>0, <2>1, Slots, UpvalAssigned
  <2>4. \A j \in Live : scope[frames[j].act] # c.var /\ scope[frames[j].act] \in 1 .. Len(env)
    BY <1>0, <1>1, <1>4, <2>0, Places DEF UpvalInv
  <2>5. UNCHANGED stack
    BY <1>2, <1>4
  <2>6. VarInv'
    BY <1>2, <2>0, <2>2, <2>4, <2>5 DEF VarInv
  <2>7. CalleeInv'
    BY <1>2, <2>0, <2>5 DEF CalleeInv, ARC_IS_CLOSURE
  <2>8. \A v \in ClosuresInUse' : v \in ClosuresInUse
    <3> TAKE v \in ClosuresInUse'
    <3>1. ARC_IS_CLOSURE(v)
      BY InUseNext
    <3>2. (\A i \in 0 .. sp' - 1 : i \in 0 .. sp - 1) /\ sp - 1 \in 0 .. sp - 1 /\ peek = stack[sp - 1]
      BY <1>0, <1>2, Numbers, Slots
    <3>3. CASE \E u \in 1 .. Len(upvals') : v = upvals'[u].closed
      BY <1>0, <2>3, <3>1, <3>2, <3>3, InUse
    <3>4. CASE \E i \in 0 .. sp' - 1 : v = stack'[i]
      BY <1>0, <2>5, <3>1, <3>2, <3>4, InUse
    <3> QED
      BY <3>3, <3>4, InUseNext
  <2>9. DOMAIN upvals' = 1 .. Len(upvals) /\ DOMAIN upvals = 1 .. Len(upvals)
    BY <1>2, <1>4, <2>0, Sizes
  <2>10. \A u \in 1 .. Len(upvals) : Open(u)' <=> Open(u)
    BY <2>3 DEF Open
  <2>11. UpvalInv'
    <3>1. (\A u \in DOMAIN upvals : Open(u) => \E j \in Live : upvals[u].location = frames[j].base_slot)'
      BY <1>2, <2>0, <2>3, <2>9, <2>10 DEF UpvalInv
    <3>2. (\A u, w \in DOMAIN upvals :
             Open(u) /\ Open(w) /\ upvals[u].location = upvals[w].location => u = w)'
      BY <2>0, <2>3, <2>9, <2>10 DEF UpvalInv
    <3>3. ASSUME NEW v \in ClosuresInUse', NEW j \in Live'
          PROVE  (IF Open(v.up)
                  THEN upvals[v.up].location = frames[j].base_slot => v.var = scope[frames[j].act]
                  ELSE v.var # scope[frames[j].act])'
      <4>1. v \in ClosuresInUse /\ v.up \in 1 .. Len(upvals)
        BY <1>0, <2>8, InUse
      <4> QED
        BY <1>2, <2>0, <2>3, <2>10, <4>1 DEF UpvalInv
    <3>4. ASSUME NEW v \in ClosuresInUse', ~ Open(v.up)'
          PROVE  (upvals[v.up].closed = env[v.var])'
      <4>1. v \in ClosuresInUse /\ v.up \in 1 .. Len(upvals) /\ v.var \in 1 .. Len(env)
        BY <1>0, <2>8, InUse
      <4>2. v.up = c.up <=> v.var = c.var
        BY <1>1, <2>0, <4>1 DEF UpvalInv
      <4>3. upvals[v.up].closed = env[v.var]
        BY <2>0, <2>10, <3>4, <4>1 DEF UpvalInv
      <4> QED
        BY <2>2, <2>3, <4>1, <4>2, <4>3
    <3>5. \A v, w \in ClosuresInUse' : v.up = w.up <=> v.var = w.var
      BY <2>0, <2>8 DEF UpvalInv
    <3> QED
      BY <3>1, <3>2, <3>3, <3>4, <3>5 DEF UpvalInv
  <2> QED
    BY <2>6, <2>7, <2>11
<1> QED
  BY <1>3, <1>4

\* Closing the upvalue of the running code's local: it gets the variable's value.
LEMMA Closing ==
  ASSUME ControlInv, ValueInv, Running, NEW slot \in Nat, slot >= base, CloseFrom(slot)
  PROVE  /\ Len(upvals') = Len(upvals) /\ DOMAIN upvals' = 1 .. Len(upvals)
         /\ \A u \in 1 .. Len(upvals) : upvals'[u].open =>
              upvals'[u] = upvals[u] /\ Open(u) /\ upvals[u].location < slot
         /\ \A u \in 1 .. Len(upvals) :
              slot > base \/ ~ Open(u) => upvals'[u] = upvals[u]
         /\ \A u \in 1 .. Len(upvals) :
              ARC_IS_CLOSURE(upvals'[u].closed) => upvals'[u].closed \in ClosuresInUse
         /\ \A v \in ClosuresInUse : ~ upvals'[v.up].open =>
              /\ upvals'[v.up].closed = env[v.var]
              /\ \A j \in Live \ {fp} : v.var # scope[frames[j].act]
<1>0. VarInv /\ UpvalInv /\ Shapes
  BY DEF ValueInv, ControlInv
<1>1. /\ upvals' \in Seq(Upvalues) /\ Len(upvals') = Len(upvals)
      /\ \A u \in 1 .. Len(upvals) :
           IF Open(u) /\ upvals[u].location >= slot
           THEN /\ ~ upvals'[u].open /\ upvals'[u].location = upvals[u].location
                /\ upvals'[u].closed = stack[upvals[u].location]
           ELSE upvals'[u] = upvals[u]
  BY <1>0, Closed
<1>2. DOMAIN upvals' = 1 .. Len(upvals) /\ DOMAIN upvals = 1 .. Len(upvals)
  BY <1>0, <1>1, Sizes
<1>3. \A u \in 1 .. Len(upvals) : upvals[u].location \in Nat
  BY <1>0, Sizes
<1>4. fp \in Live /\ frames[fp].base_slot = base /\ frames[fp].act = ip /\ base \in Nat /\ sp \in Nat
  BY Numbers DEF Live
<1>5. ASSUME NEW u \in 1 .. Len(upvals), Open(u), upvals[u].location >= slot
      PROVE  upvals[u].location = base /\ slot = base
  <2>1. PICK j \in Live : upvals[u].location = frames[j].base_slot
    BY <1>0, <1>2, <1>5 DEF UpvalInv
  <2>2. frames[j].base_slot \in Nat /\ frames[j].base_slot <= base
    BY Numbers
  <2> QED
    BY <1>4, <1>5, <2>1, <2>2
<1>6. \A u \in 1 .. Len(upvals) : upvals'[u].open =>
        upvals'[u] = upvals[u] /\ Open(u) /\ upvals[u].location < slot
  BY <1>1, <1>3 DEF Open
<1>7. \A u \in 1 .. Len(upvals) : slot > base \/ ~ Open(u) => upvals'[u] = upvals[u]
  BY <1>1, <1>4, <1>5
<1>8. ASSUME NEW u \in 1 .. Len(upvals), ARC_IS_CLOSURE(upvals'[u].closed)
      PROVE  upvals'[u].closed \in ClosuresInUse
  <2>1. CASE Open(u) /\ upvals[u].location >= slot
    <3>1. upvals'[u].closed = stack[base] /\ base \in 0 .. sp - 1
      BY <1>1, <1>4, <1>5, <2>1, LiveSlots
    <3> QED
      BY <1>8, <3>1, InUse
  <2>2. CASE ~ (Open(u) /\ upvals[u].location >= slot)
    <3>1. upvals'[u] = upvals[u]
      BY <1>1, <2>2
    <3> QED
      BY <1>8, <3>1, InUse
  <2> QED
    BY <2>1, <2>2
<1>9. ASSUME NEW v \in ClosuresInUse, ~ upvals'[v.up].open
      PROVE  /\ upvals'[v.up].closed = env[v.var]
             /\ \A j \in Live \ {fp} : v.var # scope[frames[j].act]
  <2>0. v.up \in 1 .. Len(upvals)
    BY InUse
  <2>1. CASE Open(v.up)
    <3>1. upvals[v.up].location >= slot
      BY <1>1, <1>9, <2>0, <2>1 DEF Open
    <3>2. upvals[v.up].location = base /\ upvals'[v.up].closed = stack[base]
      BY <1>1, <1>5, <2>0, <2>1, <3>1
    <3>3. v.var = scope[frames[fp].act]
      BY <1>0, <1>4, <2>1, <3>2 DEF UpvalInv
    <3>4. stack[base] = env[v.var]
      BY <1>0, <1>4, <3>3 DEF VarInv
    <3>5. \A j \in Live \ {fp} : v.var # scope[frames[j].act]
      BY <1>4, <3>3, Places
    <3> QED
      BY <3>2, <3>4, <3>5
  <2>2. CASE ~ Open(v.up)
    BY <1>0, <1>7, <2>0, <2>2 DEF UpvalInv
  <2> QED
    BY <2>1, <2>2
<1> QED
  BY <1>1, <1>2, <1>6, <1>7, <1>8, <1>9

\* RETURN: the variable of the activation that ends lives on in its upvalue.
LEMMA ReturnValues ==
  ASSUME ControlInv, ValueInv, ~ ReturnInTry, Shapes', Running', vm_exec_return
  PROVE  VarInv' /\ CalleeInv' /\ UpvalInv'
<1>0. Running /\ CloseFrom(base) /\ UNCHANGED <<frames, env, scope, callee>>
      /\ VarInv /\ CalleeInv /\ UpvalInv /\ Shapes
  BY ReturnStep DEF ControlInv, ValueInv
<1>1. fp > 1 /\ fp' = fp - 1 /\ stack' = [stack EXCEPT ![base] = peek] /\ sp' = base + 1
  <2>1. status' = "running"
    BY DEF Running
  <2> QED
    BY <2>1, ReturnStep DEF vm_push, vm_error
<1>2. /\ \A i \in Live' : i \in Live \ {fp}
      /\ \A i \in Live : i # fp => i \in Live'
  BY <1>0, <1>1, Numbers DEF Live
<1>3. /\ sp \in Nat /\ base \in Nat /\ base < sp /\ frames[fp].base_slot = base /\ fp \in Live
      /\ base >= base
  BY <1>0, Numbers DEF Live
<1>4. /\ Len(upvals') = Len(upvals) /\ DOMAIN upvals' = 1 .. Len(upvals)
      /\ DOMAIN upvals = 1 .. Len(upvals)
      /\ \A u \in 1 .. Len(upvals) : Open(u)' =>
           upvals'[u] = upvals[u] /\ Open(u) /\ upvals[u].location < base
      /\ \A u \in 1 .. Len(upvals) :
           ARC_IS_CLOSURE(upvals'[u].closed) => upvals'[u].closed \in ClosuresInUse
      /\ \A v \in ClosuresInUse : ~ Open(v.up)' =>
           /\ upvals'[v.up].closed = env[v.var]
           /\ \A j \in Live \ {fp} : v.var # scope[frames[j].act]
  BY <1>0, <1>3, Closing, Sizes DEF Open
<1>5. \A i \in 0 .. base - 1 : stack'[i] = stack[i]
  BY <1>0, <1>1, <1>3, Slots DEF Shapes
<1>6. stack'[base] = peek
  <2>1. base \in 0 .. ARC_STACK_MAX - 1
    BY <1>0, <1>3, Slots
  <2> QED
    BY <1>0, <1>1, <2>1 DEF Shapes
<1>7. ASSUME NEW i \in Live'
      PROVE  /\ frames[i].base_slot \in 0 .. base - 1
             /\ frames[i].base_slot > 0 => frames[i].base_slot - 1 \in 0 .. base - 1
  <2>1. frames[i].base_slot \in Nat /\ frames[i].base_slot <= base /\ i \in Live /\ i # fp
    BY <1>0, <1>2, Numbers
  <2>2. frames[i].base_slot # base
    BY <1>0, <1>3, <2>1, Places
  <2> QED
    BY <1>3, <2>1, <2>2
<1>8. VarInv'
  BY <1>0, <1>2, <1>5, <1>7 DEF VarInv
<1>9. CalleeInv'
  BY <1>0, <1>2, <1>5, <1>7 DEF CalleeInv, ARC_IS_CLOSURE
<1>10. \A v \in ClosuresInUse' : v \in ClosuresInUse
  <2> TAKE v \in ClosuresInUse'
  <2>1. ARC_IS_CLOSURE(v)
    BY InUseNext
  <2>2. sp - 1 \in 0 .. sp - 1 /\ peek = stack[sp - 1] /\ \A i \in 0 .. base - 1 : i \in 0 .. sp - 1
    BY <1>0, <1>3, Slots
  <2>3. CASE \E u \in 1 .. Len(upvals') : v = upvals'[u].closed
    BY <1>4, <2>1, <2>3
  <2>4. CASE \E i \in 0 .. sp' - 1 : v = stack'[i]
    <3>1. PICK i \in 0 .. sp' - 1 : v = stack'[i]
      BY <2>4
    <3>2. i \in 0 .. base - 1 \/ i = base
      BY <1>1, <1>3
    <3> QED
      BY <1>0, <1>5, <1>6, <2>1, <2>2, <3>1, <3>2, InUse
  <2> QED
    BY <2>3, <2>4, InUseNext
<1>11. UpvalInv'
  <2>1. ASSUME NEW u \in 1 .. Len(upvals), Open(u)'
        PROVE  \E j \in Live' : upvals'[u].location = frames'[j].base_slot
    <3>1. upvals'[u] = upvals[u] /\ Open(u) /\ upvals[u].location < base
      BY <1>4, <2>1
    <3>2. PICK j \in Live : upvals[u].location = frames[j].base_slot
      BY <1>0, <1>4, <3>1 DEF UpvalInv
    <3>3. j # fp
      BY <1>3, <3>1, <3>2
    <3> QED
      BY <1>0, <1>2, <3>1, <3>2, <3>3
  <2>2. \A u, w \in 1 .. Len(upvals) :
          Open(u)' /\ Open(w)' /\ upvals'[u].location = upvals'[w].location => u = w
    BY <1>0, <1>4 DEF UpvalInv
  <2>3. ASSUME NEW v \in ClosuresInUse', NEW j \in Live'
        PROVE  (IF Open(v.up)
                THEN upvals[v.up].location = frames[j].base_slot => v.var = scope[frames[j].act]
                ELSE v.var # scope[frames[j].act])'
    <3>1. v \in ClosuresInUse /\ v.up \in 1 .. Len(upvals) /\ j \in Live \ {fp}
      BY <1>0, <1>2, <1>10, InUse
    <3>2. CASE Open(v.up)'
      BY <1>0, <1>4, <3>1, <3>2 DEF UpvalInv
    <3>3. CASE ~ Open(v.up)'
      BY <1>0, <1>4, <3>1, <3>3
    <3> QED
      BY <3>2, <3>3
  <2>4. \A v \in ClosuresInUse' : ~ Open(v.up)' => upvals'[v.up].closed = env'[v.var]
    BY <1>0, <1>4, <1>10
  <2>5. \A v, w \in ClosuresInUse' : v.up = w.up <=> v.var = w.var
    BY <1>0, <1>10 DEF UpvalInv
  <2> QED
    BY <1>4, <2>1, <2>2, <2>3, <2>4, <2>5 DEF UpvalInv
<1> QED
  BY <1>8, <1>9, <1>11

\* OP_CLOSE_UPVAL: so does a variable whose scope ends, and the local's next
\* variable is a new one.
LEMMA CloseValues ==
  ASSUME ControlInv, ValueInv, Shapes', vm_exec_close_upval
  PROVE  VarInv' /\ CalleeInv' /\ UpvalInv'
<1>0. /\ Running /\ CloseFrom(sp - 1) /\ UNCHANGED <<stack, sp, frames, fp, ip, callee>>
      /\ VarInv /\ CalleeInv /\ UpvalInv /\ Shapes
  BY CloseStep DEF ControlInv, ValueInv
<1>1. Live' = Live
  BY <1>0 DEF Live
<1>2. sp - 1 \in Nat /\ sp - 1 >= base /\ base \in Nat /\ sp \in Nat /\ local = base
  BY <1>0, Numbers, Slots
<1>3. /\ Len(upvals') = Len(upvals) /\ DOMAIN upvals' = 1 .. Len(upvals)
      /\ DOMAIN upvals = 1 .. Len(upvals)
      /\ \A u \in 1 .. Len(upvals) : Open(u)' =>
           upvals'[u] = upvals[u] /\ Open(u) /\ upvals[u].location < sp - 1
      /\ \A u \in 1 .. Len(upvals) :
           ARC_IS_CLOSURE(upvals'[u].closed) => upvals'[u].closed \in ClosuresInUse
      /\ \A v \in ClosuresInUse : ~ Open(v.up)' =>
           /\ upvals'[v.up].closed = env[v.var]
           /\ \A j \in Live \ {fp} : v.var # scope[frames[j].act]
  BY <1>0, <1>2, Closing, Sizes DEF Open
<1>4. \A v \in ClosuresInUse' : v \in ClosuresInUse
  <2> TAKE v \in ClosuresInUse'
  <2>1. ARC_IS_CLOSURE(v)
    BY InUseNext
  <2> QED
    BY <1>0, <1>3, <2>1, InUse, InUseNext
<1>5. CalleeInv'
  BY <1>0, <1>1 DEF CalleeInv, ARC_IS_CLOSURE
<1>6. /\ (\A u \in DOMAIN upvals : Open(u) => \E j \in Live : upvals[u].location = frames[j].base_slot)'
      /\ (\A u, w \in DOMAIN upvals :
            Open(u) /\ Open(w) /\ upvals[u].location = upvals[w].location => u = w)'
  BY <1>0, <1>1, <1>3 DEF UpvalInv
<1>7. \A v, w \in ClosuresInUse' : v.up = w.up <=> v.var = w.var
  BY <1>0, <1>4 DEF UpvalInv
<1>8. CASE sp - 1 # local
  <2>1. UNCHANGED <<env, scope>> /\ sp - 1 > base
    BY <1>2, <1>8, CloseStep
  <2>2. \A u \in 1 .. Len(upvals) : upvals'[u] = upvals[u]
    BY <1>0, <1>2, <2>1, Closing
  <2>3. VarInv'
    BY <1>0, <1>1, <2>1 DEF VarInv
  <2>4. UpvalInv'
    <3>1. \A v \in ClosuresInUse' : v \in ClosuresInUse /\ v.up \in 1 .. Len(upvals)
      BY <1>0, <1>4, InUse
    <3>2. \A u \in 1 .. Len(upvals) : Open(u)' = Open(u)
      BY <2>2 DEF Open
    <3>3. \A v \in ClosuresInUse', j \in Live' :
            (IF Open(v.up)
             THEN upvals[v.up].location = frames[j].base_slot => v.var = scope[frames[j].act]
             ELSE v.var # scope[frames[j].act])'
      BY <1>0, <1>1, <2>1, <2>2, <3>1, <3>2 DEF UpvalInv
    <3>4. \A v \in ClosuresInUse' : ~ Open(v.up)' => upvals'[v.up].closed = env'[v.var]
      BY <1>0, <2>1, <2>2, <3>1, <3>2 DEF UpvalInv
    <3> QED
      BY <1>6, <1>7, <3>3, <3>4 DEF UpvalInv
  <2> QED
    BY <1>5, <2>3, <2>4
<1>9. CASE sp - 1 = local
  <2> DEFINE x == Len(env) + 1
  <2>1. /\ Len(env) \in Nat /\ \A y \in 1 .. Len(env) : env'[y] = env[y]
        /\ env'[x] = stack[local]
        /\ Len(scope') = Len(scope)
        /\ \A a \in 1 .. Len(scope) : scope'[a] = IF a = ip THEN x ELSE scope[a]
    BY <1>0, <1>9, CloseStep, Sizes
  <2>2. \A a \in 1 .. Len(scope) : scope[a] \in 1 .. Len(env) /\ scope[a] # x
    <3>1. \A a \in 1 .. Len(scope) : scope[a] \in 1 .. Len(env)
      BY <1>0 DEF Shapes
    <3> QED
      BY <2>1, <3>1
  <2>3. \A y \in 1 .. Len(env) : y # x
    BY <2>1
  <2> HIDE DEF x
  <2>4. fp \in Live /\ frames[fp].base_slot = base /\ frames[fp].act = ip
        /\ \A i \in Live : frames[i].act \in 1 .. Len(scope) /\ (i # fp => frames[i].act # ip)
    <3>1. /\ fp \in Live /\ frames[fp].base_slot = base /\ frames[fp].act = ip
          /\ \A i \in Live : frames[i].act \in 1 .. Len(scope)
      BY <1>0, Numbers DEF Live
    <3> QED
      BY <1>0, <3>1, Places
  <2>5. scope'[ip] = x /\ \A i \in Live \ {fp} : scope'[frames[i].act] = scope[frames[i].act]
    BY <2>1, <2>4
  <2>6. VarInv'
    <3>1. \A a, b \in 1 .. Len(scope') : scope'[a] = scope'[b] => a = b
      BY <1>0, <2>1, <2>2 DEF VarInv
    <3>2. ASSUME NEW i \in Live
          PROVE  stack[frames[i].base_slot] = env'[scope'[frames[i].act]]
      <4>1. CASE i = fp
        BY <1>2, <2>1, <2>4, <2>5, <4>1
      <4>2. CASE i # fp
        BY <1>0, <2>1, <2>2, <2>4, <2>5, <4>2 DEF VarInv
      <4> QED
        BY <4>1, <4>2
    <3> QED
      BY <1>0, <1>1, <3>1, <3>2 DEF VarInv
  <2>7. UpvalInv'
    <3>1. ASSUME NEW v \in ClosuresInUse', NEW j \in Live'
          PROVE  (IF Open(v.up)
                  THEN upvals[v.up].location = frames[j].base_slot => v.var = scope[frames[j].act]
                  ELSE v.var # scope[frames[j].act])'
      <4>1. v \in ClosuresInUse /\ v.up \in 1 .. Len(upvals) /\ v.var # x /\ j \in Live
        BY <1>0, <1>1, <1>4, <2>3, InUse
      <4>2. CASE j = fp
        <5>1. Open(v.up)' => upvals'[v.up].location # frames[j].base_slot
          <6>1. Open(v.up)' => upvals'[v.up].location < base
            BY <1>2, <1>3, <1>9, <4>1
          <6>2. upvals[v.up].location \in Nat
            BY <1>0, <4>1, Sizes
          <6> QED
            BY <1>2, <1>3, <2>4, <4>1, <4>2, <6>1, <6>2
        <5> QED
          BY <1>0, <2>4, <2>5, <4>1, <4>2, <5>1
      <4>3. CASE j # fp
        BY <1>0, <1>3, <2>5, <4>1, <4>3 DEF UpvalInv
      <4> QED
        BY <4>2, <4>3
    <3>2. \A v \in ClosuresInUse' : ~ Open(v.up)' => upvals'[v.up].closed = env'[v.var]
      BY <1>0, <1>3, <1>4, <2>1, InUse
    <3> QED
      BY <1>6, <1>7, <3>1, <3>2 DEF UpvalInv
  <2> QED
    BY <1>5, <2>6, <2>7
<1> QED
  BY <1>8, <1>9

\* OP_CLOSURE over the running code's local: the closure leads to the one
\* upvalue of that slot, an existing one or a new one.
LEMMA CaptureKeeps ==
  ASSUME ControlInv, ValueInv, Running, Shapes', Running',
         UNCHANGED <<frames, fp, env, scope, callee>>,
         NEW u \in 1 .. Len(upvals'), vm_push(sp, Closure(u, scope[ip])),
         Len(upvals) <= Len(upvals'),
         \A w \in 1 .. Len(upvals) : upvals'[w] = upvals[w],
         \A w \in 1 .. Len(upvals') : w \in 1 .. Len(upvals) \/ w = u,
         upvals'[u].open, upvals'[u].location = local,
         u \in 1 .. Len(upvals) \/ (Located(local) = {} /\ ~ ARC_IS_CLOSURE(upvals'[u].closed))
  PROVE  VarInv' /\ CalleeInv' /\ UpvalInv'
<1> DEFINE c == Closure(u, scope[ip])
<1>0. Live' = Live /\ VarInv /\ CalleeInv /\ UpvalInv /\ Shapes
  BY DEF Live, ValueInv, ControlInv
<1>1. ARC_IS_CLOSURE(c) /\ c.up = u /\ c.var = scope[ip]
  BY ValueKinds
<1>2. stack' = [stack EXCEPT ![sp] = c] /\ sp' = sp + 1 /\ sp < ARC_STACK_MAX
  BY Numbers DEF vm_push, vm_error, Running
<1> HIDE DEF c
<1>3. sp \in Nat /\ stack'[sp] = c /\ \A i \in 0 .. sp - 1 : stack'[i] = stack[i]
  BY <1>0, <1>2, Numbers DEF Shapes
<1>4. /\ fp \in Live /\ frames[fp].base_slot = local /\ frames[fp].act = ip
      /\ DOMAIN upvals = 1 .. Len(upvals) /\ DOMAIN upvals' = 1 .. Len(upvals')
  <2>1. fp \in Live /\ frames[fp].base_slot = local /\ frames[fp].act = ip
    BY Numbers, Slots DEF Live
  <2>2. upvals' \in Seq(Upvalues')
    BY DEF Shapes
  <2>3. DOMAIN upvals' = 1 .. Len(upvals')
    BY <2>2
  <2> QED
    BY <1>0, <2>1, <2>3, Sizes
<1>5. \A w \in 1 .. Len(upvals) : Open(w)' <=> Open(w)
  BY DEF Open
<1>6. Open(u)'
  BY DEF Open
<1>7. VarInv'
  BY <1>0, <1>3, LiveSlots DEF VarInv
<1>8. CalleeInv'
  BY <1>0, <1>3, LiveSlots DEF CalleeInv, ARC_IS_CLOSURE
<1>9. \A v \in ClosuresInUse' : v \in ClosuresInUse \/ v = c
  <2> TAKE v \in ClosuresInUse'
  <2>1. ARC_IS_CLOSURE(v)
    BY InUseNext
  <2>2. ASSUME NEW w \in 1 .. Len(upvals'), v = upvals'[w].closed PROVE v \in ClosuresInUse
    <3>1. w \in 1 .. Len(upvals)
      BY <2>1, <2>2
    <3> QED
      BY <2>1, <2>2, <3>1, InUse
  <2>3. ASSUME NEW i \in 0 .. sp' - 1, v = stack'[i] PROVE v \in ClosuresInUse \/ v = c
    <3>1. i \in 0 .. sp - 1 \/ i = sp
      BY <1>2, <1>3
    <3> QED
      BY <1>3, <2>1, <2>3, <3>1, InUse
  <2> QED
    BY <2>2, <2>3, InUseNext
<1>10. \A v \in ClosuresInUse : v.up \in 1 .. Len(upvals) /\ v.var \in 1 .. Len(env)
  BY InUse
\* The other open upvalues are those of other locals.
<1>11. ASSUME NEW w \in 1 .. Len(upvals), Open(w), upvals[w].location = local
       PROVE  w = u
  <2>1. w \in Located(local)
    BY <1>4, <1>11 DEF Located
  <2>2. u \in 1 .. Len(upvals) /\ Open(u) /\ upvals[u].location = local
    BY <1>5, <1>6, <2>1
  <2> QED
    BY <1>0, <1>4, <1>11, <2>2 DEF UpvalInv
<1>12. ASSUME NEW v \in ClosuresInUse
       PROVE  v.up = u <=> v.var = scope[ip]
  <2>1. ASSUME v.up = u PROVE v.var = scope[ip]
    <3>1. Open(v.up) /\ upvals[v.up].location = frames[fp].base_slot
      BY <1>4, <1>5, <1>6, <1>10, <2>1
    <3> QED
      BY <1>0, <1>4, <3>1 DEF UpvalInv
  <2>2. ASSUME v.var = scope[ip] PROVE v.up = u
    <3>1. Open(v.up)
      BY <1>0, <1>4, <2>2 DEF UpvalInv
    <3>2. PICK k \in Live : upvals[v.up].location = frames[k].base_slot /\ v.var = scope[frames[k].act]
      BY <3>1, Places
    <3>3. k = fp
      <4>1. scope[frames[k].act] = scope[frames[fp].act]
        BY <1>4, <2>2, <3>2
      <4>2. \A i, j \in Live : scope[frames[i].act] = scope[frames[j].act] => i = j
        BY Places
      <4> QED
        BY <1>4, <4>1, <4>2
    <3> QED
      BY <1>4, <1>10, <1>11, <3>1, <3>2, <3>3
  <2> QED
    BY <2>1, <2>2
<1>13. UpvalInv'
  <2>1. ASSUME NEW w \in 1 .. Len(upvals'), Open(w)'
        PROVE  \E j \in Live' : upvals'[w].location = frames'[j].base_slot
    <3>1. CASE w = u
      BY <1>0, <1>4, <3>1
    <3>2. CASE w \in 1 .. Len(upvals)
      BY <1>0, <1>4, <1>5, <2>1, <3>2 DEF UpvalInv
    <3> QED
      BY <3>1, <3>2
  <2>2. ASSUME NEW w \in 1 .. Len(upvals'), NEW z \in 1 .. Len(upvals'), Open(w)', Open(z)',
               upvals'[w].location = upvals'[z].location
        PROVE  w = z
    <3>1. CASE w \in 1 .. Len(upvals) /\ z \in 1 .. Len(upvals)
      BY <1>0, <1>4, <1>5, <2>2, <3>1 DEF UpvalInv
    <3>2. CASE w = u /\ z \in 1 .. Len(upvals)
      BY <1>5, <1>11, <2>2, <3>2
    <3>3. CASE z = u /\ w \in 1 .. Len(upvals)
      BY <1>5, <1>11, <2>2, <3>3
    <3> QED
      BY <3>1, <3>2, <3>3
  <2>3. ASSUME NEW v \in ClosuresInUse', NEW j \in Live'
        PROVE  (IF Open(v.up)
                THEN upvals[v.up].location = frames[j].base_slot => v.var = scope[frames[j].act]
                ELSE v.var # scope[frames[j].act])'
    <3>1. CASE v \in ClosuresInUse
      BY <1>0, <1>5, <1>10, <3>1 DEF UpvalInv
    <3>2. CASE v = c
      <4>1. upvals'[v.up].location = frames[j].base_slot => j = fp
        BY <1>0, <1>1, <1>4, <3>2, Places
      <4> QED
        BY <1>0, <1>1, <1>4, <1>6, <3>2, <4>1
    <3> QED
      BY <1>9, <3>1, <3>2
  <2>4. ASSUME NEW v \in ClosuresInUse', ~ Open(v.up)'
        PROVE  upvals'[v.up].closed = env'[v.var]
    <3>1. v \in ClosuresInUse /\ v.up \in 1 .. Len(upvals) /\ ~ Open(v.up)
      BY <1>1, <1>5, <1>6, <1>9, <1>10, <2>4
    <3> QED
      BY <1>0, <3>1 DEF UpvalInv
  <2>5. ASSUME NEW v \in ClosuresInUse', NEW w \in ClosuresInUse'
        PROVE  v.up = w.up <=> v.var = w.var
    <3>1. CASE v \in ClosuresInUse /\ w \in ClosuresInUse
      BY <1>0, <3>1 DEF UpvalInv
    <3>2. CASE v = c
      BY <1>1, <1>9, <1>12, <3>2
    <3>3. CASE w = c
      BY <1>1, <1>9, <1>12, <3>3
    <3> QED
      BY <1>9, <3>1, <3>2, <3>3
  <2> QED
    BY <1>4, <2>1, <2>2, <2>3, <2>4, <2>5 DEF UpvalInv
<1> QED
  BY <1>7, <1>8, <1>13

LEMMA ClosureValues ==
  ASSUME ControlInv, ValueInv, Shapes', Running', vm_exec_closure_new
  PROVE  VarInv' /\ CalleeInv' /\ UpvalInv'
<1>0. /\ Running /\ UNCHANGED <<frames, fp, env, scope, callee>> /\ Shapes
      /\ Len(upvals) <= Len(upvals') /\ Len(upvals) \in Nat
  BY ClosureStep, Sizes DEF ControlInv
<1>1. PICK u \in 1 .. Len(upvals'), x \in 1 .. Len(env) :
        /\ vm_push(sp, Closure(u, x))
        /\ \/ /\ InClosure /\ ARC_IS_CLOSURE(callee_v) /\ UNCHANGED upvals
              /\ u = callee_v.up /\ x = callee[ip].var
           \/ /\ UNCHANGED upvals
              /\ Open(u) /\ upvals[u].location = local /\ x = scope[ip]
           \/ /\ Located(local) = {} /\ u = Len(upvals) + 1 /\ x = scope[ip]
              /\ Len(upvals') = Len(upvals) + 1
              /\ \A w \in 1 .. Len(upvals) : upvals'[w] = upvals[w]
              /\ upvals'[u] = [open |-> TRUE, location |-> local, closed |-> arc_val_null]
  BY ClosureStep
<1>2. CASE InClosure /\ UNCHANGED upvals /\ u = callee_v.up /\ x = callee[ip].var
  <2>1. callee_v = callee[ip] /\ callee_v \in ClosuresInUse
    BY <1>0, <1>2, OwnClosure
  <2>2. Closure(u, x).up = callee_v.up /\ Closure(u, x).var = callee_v.var
    BY <1>2, <2>1, ValueKinds
  <2> QED
    BY <1>0, <1>1, <1>2, <2>1, <2>2, PushKeeps
<1>3. CASE UNCHANGED upvals /\ Open(u) /\ upvals[u].location = local /\ x = scope[ip]
  <2>1. upvals'[u].open /\ upvals'[u].location = local /\ u \in 1 .. Len(upvals)
    BY <1>3 DEF Open
  <2>2. \A w \in 1 .. Len(upvals') : w \in 1 .. Len(upvals)
    BY <1>3
  <2>3. vm_push(sp, Closure(u, scope[ip])) /\ \A w \in 1 .. Len(upvals) : upvals'[w] = upvals[w]
    BY <1>1, <1>3
  <2> QED
    BY <1>0, <2>1, <2>2, <2>3, CaptureKeeps
<1>4. CASE /\ Located(local) = {} /\ u = Len(upvals) + 1 /\ x = scope[ip]
           /\ Len(upvals') = Len(upvals) + 1
           /\ \A w \in 1 .. Len(upvals) : upvals'[w] = upvals[w]
           /\ upvals'[u] = [open |-> TRUE, location |-> local, closed |-> arc_val_null]
  <2>1. upvals'[u].open /\ upvals'[u].location = local /\ upvals'[u].closed = arc_val_null
    BY <1>4
  <2>2. ~ ARC_IS_CLOSURE(upvals'[u].closed)
    BY <2>1, ValueKinds
  <2>3. \A w \in 1 .. Len(upvals') : w \in 1 .. Len(upvals) \/ w = u
    BY <1>0, <1>4
  <2>4. vm_push(sp, Closure(u, scope[ip])) /\ \A w \in 1 .. Len(upvals) : upvals'[w] = upvals[w]
    BY <1>1, <1>4
  <2> QED
    BY <1>0, <1>4, <2>1, <2>2, <2>3, <2>4, CaptureKeeps
<1> QED
  BY <1>1, <1>2, <1>3, <1>4

\* A call: the argument becomes a new variable, in the slot where it lies.
LEMMA EnterValues ==
  ASSUME ControlInv, ValueInv, Running, Running', Shapes', NEW argc \in {0, 1},
         NEW clo \in Values, Operands(argc),
         ARC_IS_CLOSURE(clo) => Operands(argc + 1) /\ clo = stack[sp - argc - 1],
         fp < ARC_FRAMES_MAX, Enter(argc, clo)
  PROVE  VarInv' /\ CalleeInv' /\ UpvalInv'
<1>0. VarInv /\ CalleeInv /\ UpvalInv /\ Shapes /\ TypeOK
  BY DEF ValueInv, ControlInv
<1> DEFINE arg == IF argc = 1 THEN peek ELSE arc_val_null
           new == Frame(sp - argc, ip, Len(scope) + 1)
           x == Len(env) + 1
           a == Len(scope) + 1
           slot == sp - argc
<1>1. /\ frames' = [frames EXCEPT ![fp + 1] = new]
      /\ fp' = fp + 1 /\ env' = Append(env, arg) /\ scope' = Append(scope, x)
      /\ callee' = Append(callee, clo) /\ UNCHANGED upvals
  BY DEF Enter
<1>2. new.base_slot = slot /\ new.act = a
  BY DEF Frame
<1>3. slot \in Nat /\ slot > base /\ base \in Nat /\ sp \in Nat /\ slot <= sp
  BY FloorAbove, Numbers DEF Operands
<1>4. ARC_IS_CLOSURE(clo) => slot - 1 > base /\ clo = stack[slot - 1]
  <2>1. ARC_IS_CLOSURE(clo) => slot - 1 >= Floor
    BY FloorAbove, Numbers DEF Operands
  <2> QED
    BY <1>3, <2>1, FloorAbove
\* The stack.
<1>5. /\ \A i \in 0 .. sp - 1 : stack'[i] = stack[i]
      /\ stack'[slot] = arg
      /\ \A v : ARC_IS_CLOSURE(v) /\ (\E i \in 0 .. sp' - 1 : v = stack'[i]) =>
           \E i \in 0 .. sp - 1 : v = stack[i]
  <2>1. CASE argc = 1
    <3>1. UNCHANGED <<stack, sp>> /\ slot = sp - 1 /\ arg = stack[sp - 1]
      BY <2>1 DEF Enter, peek
    <3> QED
      BY <3>1
  <2>2. CASE argc = 0
    <3>1. stack' = [stack EXCEPT ![sp] = arc_val_null] /\ sp' = sp + 1 /\ sp < ARC_STACK_MAX
      BY <2>2, Numbers DEF Enter, vm_push, vm_error, Running
    <3>2. stack'[sp] = arc_val_null /\ \A i \in 0 .. sp - 1 : stack'[i] = stack[i]
      <4>1. /\ stack \in [0 .. ARC_STACK_MAX - 1 -> Values] /\ sp \in 0 .. ARC_STACK_MAX - 1
            /\ \A i \in 0 .. sp - 1 : i \in 0 .. ARC_STACK_MAX - 1 /\ i # sp
        BY <1>0, <1>3, <3>1, Slots DEF Shapes
      <4> QED
        BY <3>1, <4>1
    <3>3. slot = sp /\ arg = arc_val_null
      BY <1>3, <2>2
    <3>4. ASSUME NEW v, ARC_IS_CLOSURE(v), NEW i \in 0 .. sp' - 1, v = stack'[i]
          PROVE  \E k \in 0 .. sp - 1 : v = stack[k]
      <4>1. i \in 0 .. sp - 1 \/ i = sp
        BY <1>3, <3>1
      <4>2. i # sp
        BY <3>2, <3>4, ValueKinds
      <4> QED
        BY <3>2, <3>4, <4>1, <4>2
    <3> QED
      BY <3>2, <3>3, <3>4
  <2> QED
    BY <2>1, <2>2
<1>6. arg \in Values
  BY Slots, ValueKinds
<1> HIDE DEF arg, new, slot
<1>7. /\ Len(env) \in Nat /\ Len(env') = Len(env) + 1
      /\ \A y \in 1 .. Len(env) : env'[y] = env[y]
      /\ env'[x] = arg
  BY <1>0, <1>1, <1>6, SeqAppend DEF Shapes
<1>8. /\ Len(scope) \in Nat /\ Len(scope') = Len(scope) + 1
      /\ \A b \in 1 .. Len(scope) : scope'[b] = scope[b] /\ scope[b] \in 1 .. Len(env)
      /\ scope'[a] = x
  <2>0. scope \in Seq(1 .. Len(env))
    BY <1>0 DEF Shapes
  <2>1. scope \in Seq(Nat) /\ x \in Nat /\ \A b \in 1 .. Len(scope) : scope[b] \in 1 .. Len(env)
    BY <1>7, <2>0
  <2> QED
    BY <1>1, <2>1, SeqAppend
<1>9. /\ \A b \in 1 .. Len(scope) : callee'[b] = callee[b]
      /\ callee'[a] = clo
  BY <1>0, <1>1, SeqAppend DEF Shapes, TypeOK
<1>10. /\ frames'[fp + 1] = new
       /\ \A i \in Live : frames'[i] = frames[i]
       /\ \A i \in Live' : i \in Live \/ i = fp + 1
       /\ \A i \in Live : i \in Live'
  <2>1. fp + 1 \in 1 .. ARC_FRAMES_MAX /\ \A i \in Live : i \in 1 .. ARC_FRAMES_MAX /\ i # fp + 1
    BY Numbers DEF Live
  <2>2. /\ \A i \in Live' : i \in Live \/ i = fp + 1
        /\ \A i \in Live : i \in Live'
    BY <1>1, Numbers DEF Live
  <2> QED
    BY <1>0, <1>1, <2>1, <2>2 DEF Shapes
<1>11. /\ \A y \in 1 .. Len(env) : y # x
       /\ \A b \in 1 .. Len(scope) : b # a
       /\ \A b \in 1 .. Len(scope') : b \in 1 .. Len(scope) \/ b = a
  BY <1>7, <1>8
<1> HIDE DEF x, a
<1>12. \A i \in Live : /\ frames[i].base_slot \in Nat /\ frames[i].base_slot <= base
                       /\ frames[i].act \in 1 .. Len(scope) /\ frames[i].base_slot # slot
  <2> TAKE i \in Live
  <2>1. frames[i].base_slot \in Nat /\ frames[i].base_slot <= base /\ frames[i].act \in 1 .. Len(scope)
    BY Numbers
  <2> QED
    BY <1>3, <2>1
<1>13. VarInv'
  <2>1. \A b, c \in 1 .. Len(scope') : scope'[b] = scope'[c] => b = c
    BY <1>0, <1>8, <1>11 DEF VarInv
  <2>2. ASSUME NEW i \in Live'
        PROVE  stack'[frames'[i].base_slot] = env'[scope'[frames'[i].act]]
    <3>1. CASE i \in Live
      <4>1. frames'[i] = frames[i] /\ scope'[frames[i].act] = scope[frames[i].act]
            /\ scope[frames[i].act] \in 1 .. Len(env)
        BY <1>8, <1>10, <1>12, <3>1
      <4>2. stack'[frames[i].base_slot] = stack[frames[i].base_slot]
        BY <1>5, <3>1, LiveSlots
      <4>3. stack[frames[i].base_slot] = env[scope[frames[i].act]]
        BY <1>0, <3>1 DEF VarInv
      <4> QED
        BY <1>7, <4>1, <4>2, <4>3
    <3>2. CASE i = fp + 1
      BY <1>2, <1>5, <1>7, <1>8, <1>10, <3>2
    <3> QED
      BY <1>10, <3>1, <3>2
  <2> QED
    BY <2>1, <2>2 DEF VarInv
<1>14. CalleeInv'
  <2> SUFFICES ASSUME NEW i \in Live', ARC_IS_CLOSURE(callee'[frames'[i].act])
               PROVE  /\ frames'[i].base_slot > 0
                      /\ stack'[frames'[i].base_slot - 1] = callee'[frames'[i].act]
                      /\ \A j \in Live' : frames'[j].base_slot # frames'[i].base_slot - 1
    BY DEF CalleeInv, ARC_IS_CLOSURE
  <2>1. CASE i \in Live
    <3>1. /\ frames'[i] = frames[i] /\ callee'[frames'[i].act] = callee[frames[i].act]
          /\ frames[i].base_slot \in Nat /\ frames[i].base_slot <= base
      BY <1>9, <1>10, <1>12, <2>1
    <3>2. /\ frames[i].base_slot > 0
          /\ stack[frames[i].base_slot - 1] = callee[frames[i].act]
          /\ \A j \in Live : frames[j].base_slot # frames[i].base_slot - 1
      BY <1>0, <2>1, <3>1 DEF CalleeInv
    <3>3. stack'[frames[i].base_slot - 1] = stack[frames[i].base_slot - 1]
      BY <1>5, <2>1, <3>2, LiveSlots
    <3>4. slot # frames[i].base_slot - 1
      BY <1>3, <3>1
    <3> QED
      BY <1>2, <1>10, <3>1, <3>2, <3>3, <3>4
  <2>2. CASE i = fp + 1
    <3>1. frames'[i].base_slot = slot /\ callee'[frames'[i].act] = clo /\ ARC_IS_CLOSURE(clo)
      BY <1>2, <1>9, <1>10, <2>2
    <3>2. slot > 0 /\ slot - 1 \in 0 .. sp - 1 /\ clo = stack[slot - 1]
      BY <1>3, <1>4, <3>1
    <3>3. stack'[slot - 1] = clo
      BY <1>5, <3>2
    <3>4. ASSUME NEW j \in Live' PROVE frames'[j].base_slot # slot - 1
      <4>1. CASE j \in Live
        BY <1>3, <1>4, <1>10, <1>12, <3>1, <4>1
      <4>2. CASE j = fp + 1
        BY <1>2, <1>3, <1>10, <4>2
      <4> QED
        BY <1>10, <4>1, <4>2
    <3> QED
      BY <3>1, <3>2, <3>3, <3>4
  <2> QED
    BY <1>10, <2>1, <2>2
<1>15. \A v \in ClosuresInUse' : v \in ClosuresInUse
  <2> TAKE v \in ClosuresInUse'
  <2>1. ARC_IS_CLOSURE(v)
    BY InUseNext
  <2>2. CASE \E u \in 1 .. Len(upvals') : v = upvals'[u].closed
    BY <1>1, <2>1, <2>2, InUse
  <2>3. CASE \E i \in 0 .. sp' - 1 : v = stack'[i]
    BY <1>5, <2>1, <2>3, InUse
  <2> QED
    BY <2>2, <2>3, InUseNext
<1>16. \A u : Open(u)' = Open(u)
  BY <1>1 DEF Open
<1>17. UpvalInv'
  <2>1. (\A u \in DOMAIN upvals : Open(u) => \E j \in Live : upvals[u].location = frames[j].base_slot)'
    BY <1>0, <1>1, <1>10, <1>16 DEF UpvalInv
  <2>2. (\A u, w \in DOMAIN upvals :
           Open(u) /\ Open(w) /\ upvals[u].location = upvals[w].location => u = w)'
    BY <1>0, <1>1, <1>16 DEF UpvalInv
  <2>3. ASSUME NEW v \in ClosuresInUse', NEW j \in Live'
        PROVE  (IF Open(v.up)
                THEN upvals[v.up].location = frames[j].base_slot => v.var = scope[frames[j].act]
                ELSE v.var # scope[frames[j].act])'
    <3>1. v \in ClosuresInUse /\ v.var # x
      BY <1>11, <1>15, InUse
    <3>2. CASE j \in Live
      BY <1>0, <1>1, <1>8, <1>10, <1>12, <1>16, <3>1, <3>2 DEF UpvalInv
    <3>3. CASE j = fp + 1
      <4>1. frames'[j].base_slot = slot /\ scope'[frames'[j].act] = x
        BY <1>2, <1>8, <1>10, <3>3
      <4>2. Open(v.up) => upvals[v.up].location # slot
        BY <1>12, <3>1, Places
      <4> QED
        BY <1>1, <1>16, <3>1, <4>1, <4>2
    <3> QED
      BY <1>10, <3>2, <3>3
  <2>4. \A v \in ClosuresInUse' : ~ Open(v.up)' => upvals'[v.up].closed = env'[v.var]
    BY <1>0, <1>1, <1>7, <1>15, <1>16, InUse DEF UpvalInv
  <2>5. \A v, w \in ClosuresInUse' : v.up = w.up <=> v.var = w.var
    BY <1>0, <1>15 DEF UpvalInv
  <2> QED
    BY <2>1, <2>2, <2>3, <2>4, <2>5 DEF UpvalInv
<1> QED
  BY <1>13, <1>14, <1>17

\* A throw leaves no frame whose local an open upvalue still points to.
LEMMA ThrowValues ==
  ASSUME ControlInv, ValueInv, ~ ThrowPastCapture, Shapes', Running', OP_THROW
  PROVE  VarInv' /\ CalleeInv' /\ UpvalInv'
<1>0. Running /\ HandlerInv /\ FrameInv /\ UpvalInv /\ Shapes /\ handlers # <<>> /\ status' = "running"
  BY DEF ControlInv, ValueInv, OP_THROW, vm_error, Running
<1> DEFINE h == tries[Len(tries)].height
<1>1. /\ fp' = handlers[Len(tries)].frame_depth /\ fp' \in Live
      /\ Len(tries) \in 1 .. Len(tries)
      /\ h > frames[fp'].base_slot /\ h \in 0 .. ARC_STACK_MAX /\ h < sp
      /\ vm_push(h, peek)
      /\ \A u \in DOMAIN upvals : Open(u) => upvals[u].location < h
      /\ UNCHANGED <<frames, upvals, env, scope, callee>>
  BY <1>0, ThrowStep
<1>2. \A j \in Live : j > fp' => frames[j].base_slot >= h
  BY <1>0, <1>1 DEF HandlerInv
<1> HIDE DEF h
<1>3. stack' = [stack EXCEPT ![h] = peek] /\ sp' = h + 1 /\ h \in Nat /\ sp \in Nat
  BY <1>0, <1>1, Numbers DEF vm_push, vm_error
<1>4. /\ \A i \in Live' : i \in Live /\ (i = fp' \/ i < fp')
      /\ \A i \in Live : i \in Live' \/ i > fp'
  BY <1>0, <1>1, Numbers DEF Live
<1>5. stack'[h] = peek /\ \A i \in 0 .. h - 1 : stack'[i] = stack[i]
  <2>1. h \in 0 .. ARC_STACK_MAX - 1 /\ \A i \in 0 .. h - 1 : i \in 0 .. ARC_STACK_MAX - 1
    BY <1>0, <1>1, <1>3, Numbers
  <2> QED
    BY <1>0, <1>3, <2>1 DEF Shapes
<1>6. ASSUME NEW i \in Live'
      PROVE  /\ frames[i].base_slot \in 0 .. h - 1
             /\ frames[i].base_slot > 0 => frames[i].base_slot - 1 \in 0 .. h - 1
  <2>1. frames[i].base_slot \in Nat /\ frames[fp'].base_slot \in Nat
    BY <1>0, <1>1, <1>4, Numbers
  <2>2. frames[i].base_slot <= frames[fp'].base_slot
    <3>1. i < fp' => frames[i].base_slot < frames[fp'].base_slot
      BY <1>0, <1>1, <1>4 DEF FrameInv
    <3> QED
      BY <1>4, <2>1, <3>1
  <2> QED
    BY <1>1, <1>3, <2>1, <2>2
<1>7. \A v \in ClosuresInUse' : \E w \in ClosuresInUse : v.up = w.up /\ v.var = w.var
  <2> TAKE v \in ClosuresInUse'
  <2>1. ARC_IS_CLOSURE(v)
    BY InUseNext
  <2>2. sp - 1 \in 0 .. sp - 1 /\ peek = stack[sp - 1] /\ \A i \in 0 .. h - 1 : i \in 0 .. sp - 1
    BY <1>0, <1>1, <1>3, Slots
  <2>3. CASE \E u \in 1 .. Len(upvals') : v = upvals'[u].closed
    BY <1>0, <1>1, <2>1, <2>3, InUse
  <2>4. CASE \E i \in 0 .. sp' - 1 : v = stack'[i]
    <3>1. PICK i \in 0 .. sp' - 1 : v = stack'[i]
      BY <2>4
    <3>2. i \in 0 .. h - 1 \/ i = h
      BY <1>3
    <3> QED
      BY <1>0, <1>5, <2>1, <2>2, <3>1, <3>2, InUse
  <2> QED
    BY <2>3, <2>4, InUseNext
<1>8. ASSUME NEW u \in DOMAIN upvals, Open(u)
      PROVE  \E j \in Live' : upvals[u].location = frames[j].base_slot
  <2>1. PICK j \in Live : upvals[u].location = frames[j].base_slot
    BY <1>0, <1>8 DEF UpvalInv
  <2>2. ~ j > fp'
    <3>1. upvals[u].location < h /\ frames[j].base_slot \in Nat
      BY <1>0, <1>1, <1>8, Numbers
    <3> QED
      BY <1>2, <1>3, <2>1, <3>1
  <2> QED
    BY <1>4, <2>1, <2>2
<1>9. Live' \subseteq Live
  BY <1>4
<1>10. /\ \A i \in Live' : stack'[frames[i].base_slot] = stack[frames[i].base_slot]
       /\ \A i \in Live' : frames[i].base_slot > 0 =>
            stack'[frames[i].base_slot - 1] = stack[frames[i].base_slot - 1]
  BY <1>5, <1>6
<1> QED
  BY <1>0, <1>1, <1>7, <1>8, <1>9, <1>10, KeepValues

LEMMA ValueNext ==
  ASSUME ControlInv, ValueInv, ~ ReturnInTry, ~ ThrowPastCapture, [Next]_vars
  PROVE  ValueInv'
<1> SUFFICES ASSUME Running' PROVE VarInv' /\ CalleeInv' /\ UpvalInv'
  BY DEF ValueInv
<1>0. Shapes'
  BY ShapesNext
<1>1. CASE UNCHANGED vars
  <2>1. UNCHANGED <<stack, sp, frames, fp, upvals, status, env, scope, callee>>
    BY <1>1 DEF vars, machine, meaning
  <2>2. Running
    BY <2>1 DEF Running
  <2>3. sp' \in Nat /\ sp' <= sp
    BY <2>1, <2>2, Numbers
  <2> QED
    BY <1>0, <2>1, <2>2, <2>3, PopKeeps
<1>2. ASSUME NEW n \in Ints, OP_CONST(n)
      PROVE  VarInv' /\ CalleeInv' /\ UpvalInv'
  <2>1. Running /\ vm_push(sp, arc_val_i64(n)) /\ UNCHANGED <<frames, fp, upvals, env, scope, callee>>
    BY <1>2 DEF OP_CONST, meaning
  <2>2. ~ ARC_IS_CLOSURE(arc_val_i64(n))
    BY ValueKinds
  <2> QED
    BY <1>0, <2>1, <2>2, PushKeeps
<1>3. CASE OP_LOAD_LOCAL
  <2>1. Running /\ vm_push(sp, stack[local]) /\ UNCHANGED <<frames, fp, upvals, env, scope, callee>>
    BY <1>3 DEF OP_LOAD_LOCAL, meaning
  <2>2. ARC_IS_CLOSURE(stack[local]) => stack[local] \in ClosuresInUse
    BY <2>1, InUse, Slots
  <2> QED
    BY <1>0, <2>1, <2>2, PushKeeps
<1>4. CASE vm_exec_get_upval
  <2>1. /\ Running /\ InClosure /\ vm_push(sp, Read(callee_v.up))
        /\ UNCHANGED <<frames, fp, upvals, env, scope, callee>>
    BY <1>4 DEF vm_exec_get_upval, vm_error, meaning, Running
  <2>2. callee_v \in ClosuresInUse /\ callee_v.up \in 1 .. Len(upvals)
    BY <2>1, OwnClosure, InUse
  <2>3. ARC_IS_CLOSURE(Read(callee_v.up)) => Read(callee_v.up) \in ClosuresInUse
    <3>1. CASE Open(callee_v.up)
      <4>1. PICK k \in Live : upvals[callee_v.up].location = frames[k].base_slot
        BY <2>1, <2>2, <3>1, Places
      <4>2. upvals[callee_v.up].location \in 0 .. sp - 1
        BY <2>1, <4>1, LiveSlots
      <4> QED
        BY <2>1, <3>1, <4>2, InUse DEF Read
    <3>2. CASE ~ Open(callee_v.up)
      BY <2>1, <2>2, <3>2, InUse DEF Read
    <3> QED
      BY <3>1, <3>2
  <2> QED
    BY <1>0, <2>1, <2>3, PushKeeps
<1>5. CASE OP_POP \/ OP_TRY_BEGIN \/ OP_TRY_END
  <2>1. Running /\ UNCHANGED <<stack, frames, fp, upvals, env, scope, callee>>
        /\ (sp' = sp \/ (sp' = sp - 1 /\ Operands(1)))
    BY <1>5 DEF OP_POP, OP_TRY_BEGIN, OP_TRY_END, meaning
  <2>2. sp' \in Nat /\ sp' <= sp
    BY <2>1, FloorAbove, Numbers DEF Operands
  <2> QED
    BY <1>0, <2>1, <2>2, PopKeeps
<1>6. CASE OP_STORE_LOCAL
  <2>1. /\ Running /\ Operands(1) /\ stack' = [stack EXCEPT ![local] = peek] /\ sp' = sp - 1
        /\ env' = [env EXCEPT ![scope[ip]] = peek] /\ UNCHANGED <<frames, fp, upvals, scope, callee>>
    BY <1>6 DEF OP_STORE_LOCAL
  <2>2. fp \in Live /\ frames[fp].base_slot = local /\ frames[fp].act = ip
    BY <2>1, Numbers, Slots DEF Live
  <2>3. /\ stack' = [stack EXCEPT ![frames[fp].base_slot] = peek]
        /\ env' = [env EXCEPT ![scope[frames[fp].act]] = peek]
    BY <2>1, <2>2
  <2> QED
    BY <1>0, <2>1, <2>2, <2>3, AssignKeeps
<1>7. ASSUME NEW argc \in {0, 1}, NEW by_closure \in BOOLEAN, vm_exec_call(argc, by_closure)
      PROVE  VarInv' /\ CalleeInv' /\ UpvalInv'
  <2> DEFINE called == stack[sp - argc - 1]
             clo == IF by_closure THEN called ELSE arc_val_null
  <2>1. Running /\ Operands(argc + IF by_closure THEN 1 ELSE 0) /\ ~ CallFails
    BY <1>7 DEF vm_exec_call, CallFails, vm_error, Running
  <2>2. fp < ARC_FRAMES_MAX /\ Enter(argc, clo)
    BY <1>7, <2>1, Numbers DEF vm_exec_call
  <2>3. Operands(argc)
    BY <2>1, FloorAbove, Numbers DEF Operands
  <2>4. CASE by_closure
    <3>1. clo = called /\ Operands(argc + 1)
      BY <2>1, <2>4
    <3>2. sp - argc - 1 \in 0 .. sp - 1
      BY <2>1, <3>1, FloorAbove, Numbers DEF Operands
    <3>3. clo \in Values
      BY <2>1, <3>1, <3>2, Slots
    <3> HIDE DEF clo
    <3> QED
      BY <1>0, <2>1, <2>2, <2>3, <3>1, <3>3, EnterValues
  <2>5. CASE ~ by_closure
    <3>1. clo = arc_val_null
      BY <2>5
    <3>2. clo \in Values /\ ~ ARC_IS_CLOSURE(clo)
      BY <3>1, ValueKinds
    <3> HIDE DEF clo
    <3> QED
      BY <1>0, <2>1, <2>2, <2>3, <3>2, EnterValues
  <2> QED
    BY <2>4, <2>5
<1>8. ~ OP_HALT
  BY DEF OP_HALT, Running
<1> QED
  BY <1>0, <1>1, <1>2, <1>3, <1>4, <1>5, <1>6, <1>7, <1>8, ReturnValues, ThrowValues, ClosureValues,
     SetUpvalKeeps, CloseValues DEF Next

LEMMA ValueInit == Init => ValueInv
<1> SUFFICES ASSUME Init PROVE VarInv /\ CalleeInv /\ UpvalInv
  BY DEF ValueInv
<1>1. /\ stack = [i \in 0 .. ARC_STACK_MAX - 1 |-> arc_val_null] /\ sp = 1
      /\ frames = [i \in 1 .. ARC_FRAMES_MAX |-> IF i = 1 THEN Frame(0, 0, 1) ELSE NoFrame]
      /\ fp = 1 /\ upvals = <<>> /\ env = <<arc_val_null>> /\ scope = <<1>>
      /\ callee = <<arc_val_null>>
  BY DEF Init, vm_setup_main
<1>2. ARC_STACK_MAX \in Nat \ {0} /\ ARC_FRAMES_MAX \in Nat \ {0}
  BY LimitsAssumption
<1>3. Frame(0, 0, 1).base_slot = 0 /\ Frame(0, 0, 1).act = 1
  BY DEF Frame
<1>4. frames[1] = Frame(0, 0, 1) /\ stack[0] = arc_val_null
  BY <1>1, <1>2
<1>5. /\ Len(scope) = 1 /\ scope[1] = 1 /\ env[1] = arc_val_null /\ callee[1] = arc_val_null
      /\ DOMAIN upvals = {} /\ \A i \in Live : i = 1
  BY <1>1 DEF Live
<1>6. ~ ARC_IS_CLOSURE(arc_val_null)
  BY ValueKinds
<1>7. VarInv
  BY <1>3, <1>4, <1>5 DEF VarInv
<1>8. CalleeInv
  BY <1>3, <1>4, <1>5, <1>6 DEF CalleeInv
<1>9. ClosuresInUse = {}
  <2>1. \A i \in 0 .. sp - 1 : stack[i] = arc_val_null
    BY <1>1, <1>4
  <2> QED
    BY <1>5, <1>6, <2>1 DEF ClosuresInUse
<1>10. UpvalInv
  BY <1>5, <1>9 DEF UpvalInv
<1> QED
  BY <1>7, <1>8, <1>10

\* The value invariant holds in every state.
LEMMA ValueInvariant ==
  ASSUME ~ ReturnInTry, ~ ThrowPastCapture
  PROVE  Spec => [](ControlInv /\ ValueInv)
<1>1. ControlInv /\ ValueInv /\ [Next]_vars => ControlInv' /\ ValueInv'
  BY ControlNext, ValueNext
<1>2. Init => ControlInv /\ ValueInv
  BY ControlInit, ValueInit
<1> QED
  BY <1>1, <1>2, PTL DEF Spec

\* The slot of a live local holds the value the program last gave the variable,
\* whoever assigned it: its own code (OP_STORE_LOCAL) or a closure that shares it
\* (OP_SET_UPVAL), with any calls, returns and throws in between.
THEOREM LocalsSafe ==
  ASSUME ~ ReturnInTry, ~ ThrowPastCapture
  PROVE  Spec => []LocalsKeepValues
<1>1. ControlInv /\ ValueInv => LocalsKeepValues
  BY DEF ValueInv, VarInv, LocalsKeepValues
<1> QED
  BY <1>1, ValueInvariant, PTL

\* The upvalue of every closure on the stack holds the current value of the
\* variable that was captured, while its slot lives and after RETURN or
\* OP_CLOSE_UPVAL has closed it.
THEOREM CapturesSafe ==
  ASSUME ~ ReturnInTry, ~ ThrowPastCapture
  PROVE  Spec => []CapturesKeepValues
<1>1. ControlInv /\ ValueInv => CapturesKeepValues
  <2> SUFFICES ASSUME ControlInv, ValueInv, Running, NEW i \in 0 .. sp - 1, ARC_IS_CLOSURE(stack[i])
               PROVE  Read(stack[i].up) = env[stack[i].var]
    BY DEF CapturesKeepValues
  <2> DEFINE v == stack[i]
  <2>1. v \in ClosuresInUse
    BY InUse
  <2> HIDE DEF v
  <2>2. CASE Open(v.up)
    <3>1. PICK k \in Live : /\ upvals[v.up].location = frames[k].base_slot
                            /\ v.var = scope[frames[k].act]
      BY <2>1, <2>2, Places
    <3>2. stack[frames[k].base_slot] = env[scope[frames[k].act]]
      BY DEF ValueInv, VarInv
    <3> QED
      BY <2>2, <3>1, <3>2 DEF Read, v
  <2>3. CASE ~ Open(v.up)
    BY <2>1, <2>3 DEF ValueInv, UpvalInv, Read, v
  <2> QED
    BY <2>2, <2>3
<1> QED
  BY <1>1, ValueInvariant, PTL

\* Code called through a closure finds that closure in the slot under its frame
\* (callee_v, which OP_GET_UPVAL, OP_SET_UPVAL and OP_CLOSURE read) for as long as it runs.
THEOREM CalleeSafe ==
  ASSUME ~ ReturnInTry, ~ ThrowPastCapture
  PROVE  Spec => []CalleeUnderFrame
<1>1. ControlInv /\ ValueInv => CalleeUnderFrame
  BY DEF ValueInv, CalleeInv, CalleeUnderFrame
<1> QED
  BY <1>1, ValueInvariant, PTL
=============================================================================
