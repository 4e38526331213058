------------------------------ MODULE Verifier ------------------------------
(***************************************************************************)
(* The bytecode verifier (src/verifier/verifier.c) on one function, and    *)
(* the VM running the function if it is accepted (src/vm/vm.c).            *)
(*                                                                         *)
(* An instruction is a record of its opcode and its operand: the position  *)
(* of a jump's target, the argument or element count of a call, print or   *)
(* literal, whether the index of a constant is in range.  Positions count  *)
(* instructions; the position after the last one is the end of the         *)
(* function.  Opcodes with the same handler, stack effect and checks have  *)
(* one representative: "const" is every push, "pop" every store (those of  *)
(* a closure too), "add", "eq", "bit_and", "str_index" and "index_get" the *)
(* binary operations of their handlers, "coro_status" the concurrency      *)
(* instructions that replace a value, "mutex_lock" those that take one,    *)
(* "mutex_new" those that push one, "type" the intrinsics that take one    *)
(* argument and return a value, "clock" those that take none, "bad" an     *)
(* unknown opcode or a truncated instruction.                              *)
(*                                                                         *)
(* Heights count from the end of the locals.  depth is the height in the   *)
(* running VM, height_at what the verifier has computed; its entries have  *)
(* 16 bits, which is enough for every height that the VM can reach.        *)
(*                                                                         *)
(* handlers are those that the function has registered; the functions that *)
(* it calls leave them as they were.                                       *)
(***************************************************************************)
EXTENDS Integers, Sequences, SequencesExt

CONSTANTS Programs,       \* the functions to verify
          MAX_CODE_LEN,   \* longer functions are verified without heights
          ARC_STACK_MAX, ARC_HANDLER_MAX,
          Below           \* the slots under the function's own: locals, callers

Jumps == {"jump", "jump_if_false"}
Intrinsics == {"print", "clock", "type", "push"}
Literals == {"array_new", "map_new"}
VariablePops == {"call", "thread_spawn"} \cup Intrinsics \cup Literals
Opcodes == Jumps \cup VariablePops \cup
  {"const", "pop", "dup", "neg", "add", "not", "eq", "bit_not", "bit_and",
   "cast", "str_len", "str_index", "str_slice", "length", "index_get",
   "index_set", "mutex_new", "mutex_lock", "chan_send", "coro_status",
   "coro_resume", "try_begin", "try_end", "throw", "return", "halt", "bad"}
Instructions == [op : Opcodes, arg : Nat]

ASSUME VerifierAssumption ==
  /\ Programs \subseteq Seq(Instructions)
  /\ MAX_CODE_LEN \in Nat
  /\ ARC_STACK_MAX \in Nat
  /\ ARC_HANDLER_MAX \in Nat
  /\ Below \in Nat

VARIABLES
  code,                 \* the function
  phase,                \* "verify", "rejected", "run", "caught" (running, and an
                        \* exception has been caught) or "stopped"
  ip,                   \* the verifier's, then the VM's
  stack_height, height_at, has_halt_or_return, valid,   \* verify_function
  depth, handlers       \* the VM

pass == <<stack_height, height_at, has_halt_or_return, valid>>
vars == <<code, phase, ip, stack_height, height_at, has_halt_or_return, valid,
          depth, handlers>>

Unknown == -2
end == Len(code) + 1
Tracked == Len(code) <= MAX_CODE_LEN

\* The opcode table: -1 stands for "depends on the operand".
arc_op_pops(op) ==
  CASE op \in VariablePops -> -1
    [] op \in {"str_slice", "index_set"} -> 3
    [] op \in {"add", "eq", "bit_and", "str_index", "index_get", "chan_send",
               "coro_resume"} -> 2
    [] op \in {"pop", "dup", "neg", "not", "bit_not", "cast", "str_len",
               "length", "coro_status", "mutex_lock", "jump_if_false", "throw", "return"} -> 1
    [] OTHER -> 0
arc_op_pushes(op) ==
  CASE op = "dup" -> 2
    [] op \in Intrinsics \cup Jumps \cup
              {"pop", "index_set", "chan_send", "mutex_lock", "try_begin", "try_end",
               "throw", "return", "halt", "bad"} -> 0
    [] OTHER -> 1

Init ==
  /\ code \in Programs
  /\ phase = "verify"
  /\ ip = 1
  /\ stack_height = 0
  /\ height_at = [i \in 1 .. Len(code) |-> Unknown]
  /\ has_halt_or_return = FALSE
  /\ valid = TRUE
  /\ depth = 0
  /\ handlers = <<>>

-----------------------------------------------------------------------------
(* One iteration of the loop of verify_function.                           *)

\* Is the operand of the instruction in range?  A jump may go to the end of
\* the function; the target of a try is not looked at.
verify_operands(i) ==
  /\ i.op = "const" => i.arg = 0
  /\ i.op \in Jumps => i.arg \in 1 .. end

\* The height at which the instruction is verified.
Joined == IF Tracked /\ height_at[ip] # Unknown THEN height_at[ip] ELSE stack_height

\* What the verifier takes off: nothing for an opcode without a fixed count.
Counted(i) == IF arc_op_pops(i.op) >= 0 THEN arc_op_pops(i.op) ELSE 0
Popped(i) == Joined - Counted(i)

Height(i) == (IF Popped(i) < 0 THEN 0 ELSE Popped(i)) + arc_op_pushes(i.op)

\* height_at after the instruction's own position is recorded, and then after
\* that of its target.
Visited == [height_at EXCEPT ![ip] = Joined]
Recorded(i) ==
  IF i.op \in Jumps /\ i.arg \in 1 .. Len(code) /\ Visited[i.arg] = Unknown
  THEN [Visited EXCEPT ![i.arg] = Height(i)]
  ELSE Visited

\* The height with which the pass goes on: after a jump, halt or return it is
\* what an earlier jump has recorded for the next instruction, or 0.
Continued(i) ==
  IF i.op \in {"jump", "halt", "return"} /\ ip < Len(code)
  THEN IF Recorded(i)[ip + 1] # Unknown THEN Recorded(i)[ip + 1] ELSE 0
  ELSE Height(i)

\* Mutant: a height that differs at a join is not an error.
NoJoinErrors(i) == Popped(i) < 0

\* Mutant: the height is not tested after the pops.
NoUnderflowErrors(i) ==
  \/ Tracked /\ height_at[ip] \notin {Unknown, stack_height}
  \/ Tracked /\ i.op \in Jumps /\ i.arg \in 1 .. Len(code)
       /\ Recorded(i)[i.arg] # Height(i)

\* The errors that the heights give.
HeightErrors(i) ==
  \/ Tracked /\ height_at[ip] \notin {Unknown, stack_height}
  \/ Popped(i) < 0
  \/ Tracked /\ i.op \in Jumps /\ i.arg \in 1 .. Len(code)
       /\ Recorded(i)[i.arg] # Height(i)

VerifyInstruction ==
  LET i == code[ip] IN
  /\ phase = "verify" /\ ip < end
  /\ i.op # "bad"
  /\ ip' = ip + 1
  /\ valid' = (valid /\ verify_operands(i) /\ ~ HeightErrors(i))
  /\ has_halt_or_return' = (has_halt_or_return \/ i.op \in {"halt", "return"})
  /\ height_at' = IF Tracked THEN Recorded(i) ELSE height_at
  /\ stack_height' = IF Tracked THEN Continued(i) ELSE Height(i)
  /\ UNCHANGED <<code, phase, depth, handlers>>

\* The loop breaks off.
VerifyBad ==
  /\ phase = "verify" /\ ip < end
  /\ code[ip].op = "bad"
  /\ ip' = end
  /\ valid' = FALSE
  /\ height_at' = IF Tracked THEN Visited ELSE height_at
  /\ stack_height' = Joined
  /\ UNCHANGED <<code, phase, has_halt_or_return, depth, handlers>>

\* After the loop.  An accepted function is called.
VerifyEnd ==
  /\ phase = "verify" /\ ip = end
  /\ valid' = (valid /\ has_halt_or_return)
  /\ phase' = IF valid' THEN "run" ELSE "rejected"
  /\ ip' = 1
  /\ UNCHANGED <<code, stack_height, height_at, has_halt_or_return, depth, handlers>>

-----------------------------------------------------------------------------
(* The VM.                                                                 *)

\* What an instruction really takes off the stack, and what it puts on it.
Taken(i) ==
  CASE i.op \in {"call", "thread_spawn", "print", "array_new"} -> i.arg
    [] i.op = "map_new" -> 2 * i.arg
    [] i.op = "push" -> 2
    [] i.op = "type" -> 1
    [] i.op = "clock" -> 0
    [] OTHER -> arc_op_pops(i.op)
Given(i) == IF i.op \in {"clock", "type", "push"} THEN 1 ELSE arc_op_pushes(i.op)

Live == phase \in {"run", "caught"} /\ ip \in 1 .. Len(code)

\* The effect of an instruction of one of the given opcodes that succeeds.
Effect(ops) ==
  /\ Live /\ code[ip].op \in ops
  /\ depth' = depth - Taken(code[ip]) + Given(code[ip])
  /\ Below + depth >= Taken(code[ip])
  /\ Below + depth' <= ARC_STACK_MAX
  /\ UNCHANGED <<code, phase, pass, handlers>>
Next_ip == ip' = ip + 1

vm_exec_stack_local_global == Effect({"const", "pop", "dup"}) /\ Next_ip
vm_exec_arithmetic == Effect({"neg", "add"}) /\ Next_ip
vm_exec_comparison == Effect({"not", "eq"}) /\ Next_ip
vm_exec_bitwise == Effect({"bit_not", "bit_and"}) /\ Next_ip
vm_exec_cast == Effect({"cast"}) /\ Next_ip
vm_exec_string_ops == Effect({"str_len", "str_index", "str_slice"}) /\ Next_ip
vm_exec_collections == Effect({"length", "index_get", "index_set"} \cup Literals) /\ Next_ip
vm_exec_intrinsic == Effect(Intrinsics) /\ Next_ip

\* With whatever a coroutine or another thread does meanwhile.
vm_exec_concurrency ==
  /\ Effect({"mutex_new", "mutex_lock", "chan_send", "coro_status", "coro_resume",
             "thread_spawn"})
  /\ Next_ip

\* A call that returns.
vm_exec_call == Effect({"call"}) /\ Next_ip

vm_exec_branch ==
  /\ Effect(Jumps)
  /\ \/ code[ip].op = "jump_if_false" /\ Next_ip
     \/ ip' = code[ip].arg

TryBegin ==
  /\ Live /\ code[ip].op = "try_begin"
  /\ Len(handlers) < ARC_HANDLER_MAX
  /\ handlers' = Append(handlers, [catch |-> code[ip].arg, height |-> depth])
  /\ ip' = ip + 1
  /\ UNCHANGED <<code, phase, pass, depth>>

\* When the function has registered none, it is a caller's handler that goes.
TryEnd ==
  /\ Live /\ code[ip].op = "try_end"
  /\ handlers' = IF handlers = <<>> THEN handlers ELSE Front(handlers)
  /\ ip' = ip + 1
  /\ UNCHANGED <<code, phase, pass, depth>>

\* A throw here or in the function called, caught here.
Throw ==
  /\ Live /\ code[ip].op \in {"throw", "call"}
  /\ Below + depth >= Taken(code[ip])
  /\ handlers # <<>>
  /\ handlers' = Front(handlers)
  /\ ip' = Last(handlers).catch
  /\ depth' = Last(handlers).height + 1
  /\ Below + depth' <= ARC_STACK_MAX
  /\ phase' = "caught"
  /\ UNCHANGED <<code, pass>>

\* A return or halt, any error at run time (a limit of the VM is reached, an
\* operand has the wrong type...), or code that runs off the end of the
\* function.
Stop ==
  /\ phase \in {"run", "caught"}
  /\ phase' = "stopped"
  /\ UNCHANGED <<code, ip, pass, depth, handlers>>

Next ==
  \/ VerifyInstruction \/ VerifyBad \/ VerifyEnd
  \/ vm_exec_stack_local_global \/ vm_exec_arithmetic \/ vm_exec_comparison
  \/ vm_exec_bitwise \/ vm_exec_cast \/ vm_exec_string_ops \/ vm_exec_collections
  \/ vm_exec_intrinsic \/ vm_exec_concurrency \/ vm_exec_call \/ vm_exec_branch
  \/ TryBegin \/ TryEnd \/ Throw \/ Stop

Spec == Init /\ [][Next]_vars

-----------------------------------------------------------------------------
TypeOK ==
  /\ code \in Seq(Instructions)
  /\ phase \in {"verify", "rejected", "run", "caught", "stopped"}
  /\ ip \in Nat
  /\ stack_height \in Nat
  /\ height_at \in [1 .. Len(code) -> Nat \cup {Unknown}]
  /\ has_halt_or_return \in BOOLEAN
  /\ valid \in BOOLEAN
  /\ depth \in Int
  /\ handlers \in Seq([catch : Nat, height : Int])

\* While an accepted function runs, the height of its stack is the one that
\* the verifier computed for the instruction, on every path to it, until an
\* exception is caught.
DepthMatchesVerifier ==
  phase = "run" /\ ip \in 1 .. Len(code) => depth = height_at[ip]

\* Until then it never pops below its own part of the stack, where the locals
\* are; the VM does not test for that.
NoUnderflow ==
  phase = "run" /\ ip \in 1 .. Len(code) => depth >= Taken(code[ip])

-----------------------------------------------------------------------------
(* What the documents say of every function that the verifier accepts; the *)
(* code does not keep it.                                                  *)

\* docs/ARCANA_REPOSITORY_ENGINEERING_STANDARDS.md: the stack depth of verified
\* bytecode is the verifier's, also after an exception and whatever the arguments
\* of calls and intrinsics (verify_function, verifier.c:151).
DepthAlwaysMatches == Live => depth = height_at[ip]

\* README.md: every function ends with halt or return.  So no path leads past the
\* end of its code, where another function's begins (verifier.c:52, 164).
EndsByHaltOrReturn == phase \in {"run", "caught"} => ip <= Len(code)

-----------------------------------------------------------------------------
(* The inductive invariant, for functions that are not too long and whose  *)
(* instructions do what the verifier counts: no arguments or elements, no  *)
(* intrinsic but print.                                                    *)

Accounted ==
  \A c \in Programs :
    /\ Len(c) <= MAX_CODE_LEN
    /\ \A n \in 1 .. Len(c) :
         Taken(c[n]) = Counted(c[n]) /\ Given(c[n]) = arc_op_pushes(c[n].op)

\* What the verifier has established of an instruction, with the height `next`
\* expected after it.
After(n) == height_at[n] - Taken(code[n]) + Given(code[n])
Settled(n, next) ==
  /\ height_at[n] \in Nat /\ height_at[n] >= Taken(code[n])
  /\ code[n].op \in Jumps =>
       /\ code[n].arg \in 1 .. end
       /\ code[n].arg \in 1 .. Len(code) => height_at[code[n].arg] = After(n)
  /\ code[n].op \notin {"jump", "halt", "return"} /\ n < Len(code) =>
       next = After(n)

\* The pass so far, while it has found no error.
PassInv ==
  phase = "verify" /\ valid =>
    /\ depth = 0
    /\ IF ip = 1 THEN stack_height = 0 ELSE height_at[1] = 0
    /\ \A n \in 1 .. ip - 1 :
         Settled(n, IF n + 1 = ip THEN stack_height ELSE height_at[n + 1])

\* The run of an accepted function.
RunInv ==
  phase = "run" =>
    /\ \A n \in 1 .. Len(code) : Settled(n, height_at[n + 1])
    /\ DepthMatchesVerifier

VerifierInv ==
  /\ TypeOK
  /\ code \in Programs
  /\ phase \in {"verify", "run"} => ip \in 1 .. end
  /\ PassInv
  /\ RunInv
=============================================================================
