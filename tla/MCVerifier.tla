----------------------------- MODULE MCVerifier -----------------------------
(* Verifier on sets of short functions. *)
EXTENDS Verifier

CONSTANT MaxLen

Instr(op, args) == {[op |-> op, arg |-> a] : a \in args}
Plain(ops) == UNION {Instr(op, {0}) : op \in ops}
Branches == UNION {Instr(op, 1 .. MaxLen + 1) : op \in Jumps}
Tries == Instr("try_begin", 1 .. MaxLen) \cup Plain({"try_end"})
Return == [op |-> "return", arg |-> 0]

UpTo(n, S) == UNION {[1 .. k -> S] : k \in 0 .. n}
Of(n, S) == {Append(c, Return) : c \in [1 .. n - 1 -> S]}

\* Instructions of every kind, with an index out of range and jumps beyond the
\* end of the function.
AllKinds ==
  Plain({"pop", "neg", "not", "bit_not", "cast", "str_len", "coro_status", "return",
         "halt", "bad", "call", "print", "array_new", "throw"})
  \cup Instr("const", {0, 1})
  \cup UNION {Instr(op, 1 .. MaxLen + 2) : op \in Jumps}
  \cup Tries

\* Instructions that work on the stack, and jumps; exceptions.
Working == Plain({"const", "pop", "dup", "add", "str_slice"}) \cup Branches
Throwing == Plain({"const", "throw", "call"}) \cup Tries

NoArguments ==
  UpTo(MaxLen - 2, AllKinds) \cup Of(MaxLen, Working) \cup Of(MaxLen, Throwing)

WithArguments ==
  UpTo(MaxLen, Plain({"const", "clock", "return"}) \cup Instr("call", {0, 1})
               \cup Instr("jump_if_false", 1 .. MaxLen))

\* Functions that do not end with a return.
OpenEnded ==
  {Append(c, [op |-> "const", arg |-> 0]) :
     c \in UpTo(MaxLen - 1, Plain({"const", "return"}) \cup Branches)}
=============================================================================
