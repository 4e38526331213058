---------------------------- MODULE VerifierProofs ----------------------------
(***************************************************************************)
(* Proof that an accepted function keeps to the heights that the verifier  *)
(* has computed, for every function whose instructions do what the         *)
(* verifier counts (Accounted), until an exception is caught.              *)
(*                                                                         *)
(* The argument: while the pass finds no error, an instruction that it has *)
(* passed is settled: its height is known, enough for what it takes, and   *)
(* agrees with that of its target and of its successor (PassInv).  A       *)
(* height that is known never changes, so a settled instruction stays so   *)
(* (SettledStays).  The run then goes from one settled instruction to the  *)
(* next (RunInv).                                                          *)
(***************************************************************************)
EXTENDS Verifier, TLAPS

\* What the opcode table says, and the instructions that do as it says.
LEMMA Effects ==
  ASSUME NEW op \in Opcodes
  PROVE  /\ arc_op_pops(op) \in Int
         /\ arc_op_pushes(op) \in Nat
         /\ op \in {"try_begin", "try_end"} =>
              /\ arc_op_pops(op) = 0 /\ arc_op_pushes(op) = 0
              /\ op \notin VariablePops
BY DEF Opcodes, Jumps, VariablePops, Intrinsics, Literals, arc_op_pops, arc_op_pushes

LEMMA EffectOf ==
  ASSUME NEW i \in Instructions
  PROVE  Counted(i) \in Nat /\ Taken(i) \in Int /\ Given(i) \in Nat
<1>1. i.op \in Opcodes /\ i.arg \in Nat
  BY DEF Instructions
<1>2. arc_op_pops(i.op) \in Int /\ arc_op_pushes(i.op) \in Nat
  BY <1>1, Effects
<1> QED
  BY <1>1, <1>2 DEF Counted, Taken, Given

\* A position of the function holds an instruction.
LEMMA InstructionAt ==
  ASSUME TypeOK, NEW n \in 1 .. Len(code)
  PROVE  /\ code[n] \in Instructions
         /\ code[n].op \in Opcodes
         /\ code[n].arg \in Nat
<1>1. code[n] \in Instructions
  BY DEF TypeOK
<1> QED
  BY <1>1 DEF Instructions

\* In functions of the class an instruction does what the verifier counts.
LEMMA TakenAt ==
  ASSUME TypeOK, Accounted, code \in Programs, NEW n \in 1 .. Len(code)
  PROVE  /\ Taken(code[n]) \in Nat /\ Taken(code[n]) = Counted(code[n])
         /\ Given(code[n]) \in Nat /\ Given(code[n]) = arc_op_pushes(code[n].op)
<1>1. code[n] \in Instructions
  BY InstructionAt
<1> QED
  BY <1>1, EffectOf DEF Accounted

-----------------------------------------------------------------------------
(* One iteration of the pass.                                              *)

\* The height in the middle of the iteration, and the table after it.
LEMMA StepTypes ==
  ASSUME TypeOK, ip \in 1 .. Len(code)
  PROVE  /\ Joined \in Nat
         /\ Visited \in [1 .. Len(code) -> Nat \cup {Unknown}]
         /\ Height(code[ip]) \in Nat
         /\ Recorded(code[ip]) \in [1 .. Len(code) -> Nat \cup {Unknown}]
         /\ Continued(code[ip]) \in Nat
<1> DEFINE i == code[ip]
<1>1. i.op \in Opcodes /\ i.arg \in Nat
  BY InstructionAt
<1>2. Joined \in Nat
  BY DEF Joined, TypeOK
<1>3. Visited \in [1 .. Len(code) -> Nat \cup {Unknown}]
  BY <1>2 DEF Visited, TypeOK
<1>4. Height(i) \in Nat
  <2>1. Counted(i) \in Nat /\ arc_op_pushes(i.op) \in Nat
    BY <1>1, Effects, EffectOf, InstructionAt
  <2> HIDE DEF i
  <2> QED
    BY <1>2, <2>1 DEF Height, Popped
<1>5. Recorded(i) \in [1 .. Len(code) -> Nat \cup {Unknown}]
  <2> HIDE DEF i
  <2> QED
    BY <1>3, <1>4 DEF Recorded
<1>6. Continued(i) \in Nat
  <2> HIDE DEF i
  <2>1. Len(code) \in Nat
    BY DEF TypeOK
  <2>2. ip < Len(code) => Recorded(i)[ip + 1] \in Nat \cup {Unknown}
    BY <1>5, <2>1
  <2> QED
    BY <1>4, <2>2 DEF Continued
<1> QED
  BY <1>2, <1>3, <1>4, <1>5, <1>6

\* An instruction that raises no error: the height before it is the one that
\* the pass came with, is enough, and the height after it is right.
LEMMA NoErrorHeights ==
  ASSUME TypeOK, Accounted, code \in Programs, ip \in 1 .. Len(code),
         ~ HeightErrors(code[ip])
  PROVE  /\ Tracked
         /\ Joined = stack_height
         /\ height_at[ip] \in {Unknown, stack_height}
         /\ stack_height >= Taken(code[ip])
         /\ Height(code[ip]) =
              stack_height - Taken(code[ip]) + Given(code[ip])
<1>1. Tracked
  BY DEF Accounted, Tracked
<1>2. height_at[ip] \in {Unknown, stack_height}
  BY <1>1 DEF HeightErrors
<1>3. Joined = stack_height
  BY <1>2 DEF Joined
<1>4. Popped(code[ip]) = stack_height - Taken(code[ip])
  BY <1>3, TakenAt DEF Popped
<1>5. Popped(code[ip]) \in Int /\ ~ (Popped(code[ip]) < 0)
  BY <1>4, TakenAt DEF HeightErrors, TypeOK
<1>6. stack_height >= Taken(code[ip])
  BY <1>4, <1>5, TakenAt DEF TypeOK
<1>7. Height(code[ip]) = Popped(code[ip]) + arc_op_pushes(code[ip].op)
  BY <1>5 DEF Height
<1> QED
  BY <1>1, <1>2, <1>3, <1>4, <1>6, <1>7, TakenAt

\* A known height never changes; the instruction's own becomes known.
LEMMA KnownStays ==
  ASSUME TypeOK, Accounted, code \in Programs, ip \in 1 .. Len(code),
         ~ HeightErrors(code[ip])
  PROVE  /\ Recorded(code[ip])[ip] = stack_height
         /\ \A n \in 1 .. Len(code) :
              height_at[n] # Unknown => Recorded(code[ip])[n] = height_at[n]
<1>1. stack_height # Unknown
  BY DEF TypeOK, Unknown
<1>2. Visited[ip] = stack_height
  BY NoErrorHeights DEF Visited, TypeOK
<1>3. ASSUME NEW n \in 1 .. Len(code), height_at[n] # Unknown
      PROVE  Visited[n] = height_at[n]
  BY <1>2, <1>3, NoErrorHeights DEF Visited, TypeOK
<1>4. ASSUME NEW n \in 1 .. Len(code), Visited[n] # Unknown
      PROVE  Recorded(code[ip])[n] = Visited[n]
  BY <1>4, StepTypes DEF Recorded
<1> QED
  BY <1>1, <1>2, <1>3, <1>4

\* The steps of the handlers that go on to the next instruction or jump.
Handled ==
  Opcodes \ {"try_begin", "try_end", "throw", "return", "halt", "bad"}
Executes ==
  /\ Effect(Handled)
  /\ \/ code[ip].op # "jump" /\ ip' = ip + 1
     \/ code[ip].op \in Jumps /\ ip' = code[ip].arg

LEMMA StepKinds ==
  ASSUME [Next]_vars
  PROVE  \/ VerifyInstruction \/ VerifyBad \/ VerifyEnd \/ Executes
         \/ TryBegin \/ TryEnd \/ Throw \/ Stop \/ UNCHANGED vars
<1>1. ASSUME \/ vm_exec_stack_local_global \/ vm_exec_arithmetic
             \/ vm_exec_comparison \/ vm_exec_bitwise \/ vm_exec_cast
             \/ vm_exec_string_ops \/ vm_exec_collections
             \/ vm_exec_intrinsic \/ vm_exec_concurrency \/ vm_exec_call
      PROVE  Executes
  BY <1>1 DEF vm_exec_stack_local_global, vm_exec_arithmetic, vm_exec_comparison,
              vm_exec_bitwise, vm_exec_cast, vm_exec_string_ops, vm_exec_collections,
              vm_exec_intrinsic, vm_exec_concurrency, vm_exec_call, Next_ip,
              Executes, Effect, Handled, Opcodes, VariablePops, Literals, Intrinsics
<1>2. ASSUME vm_exec_branch PROVE Executes
  BY <1>2 DEF vm_exec_branch, Next_ip, Executes, Effect, Handled, Opcodes, Jumps
<1> QED
  BY <1>1, <1>2 DEF Next

\* TypeOK is inductive.
LEMMA TypeInvariant ==
  ASSUME TypeOK, phase = "verify" => ip \in 1 .. end, [Next]_vars
  PROVE  TypeOK'
<1>0. Len(code) \in Nat
  BY DEF TypeOK
<1>1. CASE VerifyInstruction
  <2>1. ip \in 1 .. Len(code)
    BY <1>0, <1>1 DEF VerifyInstruction, end
  <2>2. HeightErrors(code[ip]) \in BOOLEAN /\ verify_operands(code[ip]) \in BOOLEAN
    BY DEF HeightErrors, verify_operands
  <2>3. height_at' \in [1 .. Len(code) -> Nat \cup {Unknown}] /\ stack_height' \in Nat
    BY <1>1, <2>1, StepTypes DEF VerifyInstruction, TypeOK
  <2>4. valid' \in BOOLEAN /\ has_halt_or_return' \in BOOLEAN
    BY <1>1, <2>2 DEF VerifyInstruction, TypeOK
  <2> QED
    BY <1>1, <2>1, <2>3, <2>4 DEF VerifyInstruction, TypeOK
<1>2. CASE VerifyBad
  <2>1. ip \in 1 .. Len(code)
    BY <1>0, <1>2 DEF VerifyBad, end
  <2>2. height_at' \in [1 .. Len(code) -> Nat \cup {Unknown}] /\ stack_height' \in Nat
    BY <1>2, <2>1, StepTypes DEF VerifyBad, TypeOK
  <2>3. ip' \in Nat
    BY <1>0, <1>2 DEF VerifyBad, end
  <2> QED
    BY <1>2, <2>2, <2>3 DEF VerifyBad, TypeOK
<1>3. CASE VerifyEnd
  BY <1>3 DEF VerifyEnd, TypeOK
<1>4. CASE Executes
  <2>1. ip \in 1 .. Len(code)
    BY <1>4 DEF Executes, Effect, Live
  <2>2. code[ip] \in Instructions /\ code[ip].arg \in Nat
    BY <2>1, InstructionAt
  <2>3. Taken(code[ip]) \in Int /\ Given(code[ip]) \in Int
    BY <2>2, EffectOf
  <2>4. depth' \in Int
    BY <1>4, <2>3 DEF Executes, Effect, TypeOK
  <2>5. ip' \in Nat
    BY <1>4, <2>1, <2>2 DEF Executes
  <2> QED
    BY <1>4, <2>4, <2>5 DEF Executes, Effect, TypeOK, pass
<1>5. CASE TryBegin
  <2>1. ip \in 1 .. Len(code)
    BY <1>5 DEF TryBegin, Live
  <2>2. code[ip].arg \in Nat
    BY <2>1, InstructionAt
  <2>3. handlers' \in Seq([catch : Nat, height : Int])
    BY <1>5, <2>2 DEF TryBegin, TypeOK
  <2> QED
    BY <1>5, <2>1, <2>3 DEF TryBegin, TypeOK, pass
<1>6. CASE TryEnd
  <2>1. handlers' \in Seq([catch : Nat, height : Int])
    BY <1>6 DEF TryEnd, Front, TypeOK
  <2> QED
    BY <1>6, <2>1 DEF TryEnd, Live, TypeOK, pass
<1>7. CASE Throw
  <2> DEFINE Handler == [catch : Nat, height : Int]
  <2>1. handlers \in Seq(Handler)
    BY DEF TypeOK
  <2>2. Last(handlers) \in Handler /\ handlers' \in Seq(Handler)
    <3> HIDE DEF Handler
    <3> QED
      BY <1>7, <2>1 DEF Throw, Last, Front
  <2> QED
    BY <1>7, <2>2 DEF Throw, TypeOK, pass
<1>8. CASE Stop
  BY <1>8 DEF Stop, TypeOK, pass
<1>9. CASE UNCHANGED vars
  BY <1>9 DEF vars, TypeOK
<1> QED
  BY <1>1, <1>2, <1>3, <1>4, <1>5, <1>6, <1>7, <1>8, <1>9, StepKinds

-----------------------------------------------------------------------------
(* The steps of the verifier.                                              *)

\* An instruction without an error is settled when the pass goes on.
LEMMA PassesInstruction ==
  ASSUME VerifierInv, Accounted, VerifyInstruction, valid'
  PROVE  PassInv'
<1>1. ip \in 1 .. Len(code) /\ Len(code) \in Nat
  BY DEF VerifierInv, VerifyInstruction, TypeOK, end
<1>2. /\ TypeOK /\ code \in Programs /\ ~ HeightErrors(code[ip])
      /\ verify_operands(code[ip])
      /\ phase = "verify" /\ valid
  BY DEF VerifierInv, VerifyInstruction, TypeOK
<1>3. /\ Tracked
      /\ stack_height \in Nat
      /\ stack_height >= Taken(code[ip])
      /\ Height(code[ip]) =
           stack_height - Taken(code[ip]) + Given(code[ip])
  BY <1>1, <1>2, NoErrorHeights DEF TypeOK
<1>4. /\ height_at' = Recorded(code[ip])
      /\ stack_height' = Continued(code[ip])
      /\ code' = code /\ ip' = ip + 1 /\ depth' = depth
  BY <1>3 DEF VerifyInstruction
<1>5. /\ height_at'[ip] = stack_height
      /\ \A n \in 1 .. Len(code) :
           height_at[n] # Unknown => height_at'[n] = height_at[n]
  BY <1>1, <1>2, <1>4, KnownStays
<1>6. \A n \in Nat : n # Unknown
  BY DEF Unknown
<1>7. depth = 0 /\ height_at'[1] = 0
  <2>1. /\ depth = 0
        /\ IF ip = 1 THEN stack_height = 0 ELSE height_at[1] = 0
    BY <1>2 DEF VerifierInv, PassInv
  <2> QED
    BY <1>1, <1>5, <1>6, <2>1
<1>8. ASSUME NEW n \in 1 .. Len(code), n = ip
      PROVE  Settled(n, stack_height)'
  <2>1. height_at'[n] = stack_height /\ After(n)' = Height(code[n])
    BY <1>3, <1>4, <1>5, <1>8 DEF After, Taken
  <2>2. ASSUME code[n].op \in Jumps
        PROVE  /\ code[n].arg \in 1 .. end
               /\ code[n].arg \in 1 .. Len(code) =>
                    height_at'[code[n].arg] = Height(code[n])
    BY <1>2, <1>3, <1>4, <1>8, <2>2 DEF verify_operands, HeightErrors
  <2>3. code[n].op \notin {"jump", "halt", "return"} =>
          stack_height' = Height(code[n])
    BY <1>4, <1>8 DEF Continued
  <2>4. stack_height \in Nat /\ stack_height >= Taken(code[n])
    BY <1>3, <1>8
  <2> QED
    BY <1>4, <2>1, <2>2, <2>3, <2>4 DEF Settled, Taken, end
<1>9. ASSUME NEW n \in 1 .. ip - 1
      PROVE  Settled(n, height_at[n + 1])'
  <2>1. Settled(n, IF n + 1 = ip THEN stack_height ELSE height_at[n + 1])
    BY <1>2 DEF VerifierInv, PassInv
  <2>2. n \in 1 .. Len(code) /\ n + 1 \in 1 .. Len(code) /\ n < ip
    BY <1>1
  <2>3. Taken(code[n]) \in Nat /\ Given(code[n]) \in Nat
    BY <1>2, <2>2, TakenAt DEF VerifierInv
  <2>4. /\ height_at[n] \in Nat /\ height_at[n] >= Taken(code[n])
        /\ After(n) \in Nat
    BY <2>1, <2>3 DEF Settled, After
  <2>5. height_at'[n] = height_at[n] /\ After(n)' = After(n)
    BY <1>4, <1>5, <1>6, <2>2, <2>4 DEF After
  <2>6. height_at'[n + 1] = IF n + 1 = ip THEN stack_height ELSE height_at[n + 1]
    <3>1. ASSUME n + 1 # ip
          PROVE  height_at[n + 1] \in Nat
      BY <1>1, <1>2, <2>2, <3>1 DEF VerifierInv, PassInv, Settled
    <3> QED
      BY <1>5, <1>6, <2>2, <3>1
  <2>7. ASSUME code[n].op \in Jumps, code[n].arg \in 1 .. Len(code)
        PROVE  height_at'[code[n].arg] = After(n)
    BY <1>5, <1>6, <2>1, <2>4, <2>7 DEF Settled
  <2> QED
    BY <1>4, <2>1, <2>4, <2>5, <2>6, <2>7 DEF Settled, end
<1>10. ASSUME NEW n \in 1 .. ip' - 1
       PROVE  Settled(n, IF n + 1 = ip THEN stack_height ELSE height_at[n + 1])'
  <2>1. n \in 1 .. Len(code) /\ (n = ip \/ n \in 1 .. ip - 1)
    BY <1>1, <1>4
  <2>2. CASE n = ip
    BY <1>4, <1>8, <2>1, <2>2
  <2>3. CASE n \in 1 .. ip - 1
    <3>1. n + 1 # ip'
      BY <1>1, <1>4, <2>3
    <3> QED
      BY <1>9, <2>3, <3>1
  <2> QED
    BY <2>1, <2>2, <2>3
<1> QED
  BY <1>1, <1>4, <1>7, <1>10 DEF PassInv

\* A function that is accepted is settled everywhere.
LEMMA Accepts ==
  ASSUME VerifierInv, VerifyEnd, valid'
  PROVE  RunInv'
<1>1. /\ phase = "verify" /\ valid /\ ip = end /\ ip' = 1 /\ Len(code) \in Nat
      /\ UNCHANGED <<code, height_at, depth>>
  BY DEF VerifierInv, VerifyEnd, TypeOK
<1>2. ASSUME NEW n \in 1 .. Len(code)
      PROVE  Settled(n, height_at[n + 1])
  <2>1. Settled(n, IF n + 1 = ip THEN stack_height ELSE height_at[n + 1])
    BY <1>1 DEF VerifierInv, PassInv, end
  <2> QED
    BY <1>1, <2>1 DEF Settled, end
<1>3. 1 \in 1 .. Len(code) => depth = height_at[1]
  BY <1>1 DEF VerifierInv, PassInv, end
<1>4. \A n \in 1 .. Len(code) : Settled(n, height_at[n + 1])'
  BY <1>1, <1>2 DEF Settled, After, end
<1> QED
  BY <1>1, <1>3, <1>4 DEF RunInv, DepthMatchesVerifier

-----------------------------------------------------------------------------
(* The steps of the VM.                                                    *)

\* In a run nothing that the verifier has settled changes.
LEMMA SettledStays ==
  ASSUME VerifierInv, phase = "run", UNCHANGED <<code, height_at>>
  PROVE  \A n \in 1 .. Len(code) : Settled(n, height_at[n + 1])'
BY DEF VerifierInv, RunInv, Settled, After, end

\* An instruction leads to one whose height is the one reached.
LEMMA ExecuteStep ==
  ASSUME VerifierInv, phase = "run", Executes
  PROVE  ip' \in 1 .. end /\ DepthMatchesVerifier'
<1>1. /\ ip \in 1 .. Len(code) /\ Len(code) \in Nat
      /\ UNCHANGED <<code, phase, height_at>>
  BY DEF VerifierInv, TypeOK, Executes, Effect, Live, pass
<1>2. Settled(ip, height_at[ip + 1]) /\ depth = height_at[ip]
  BY <1>1 DEF VerifierInv, RunInv, DepthMatchesVerifier
<1>3. depth' = After(ip)
  BY <1>2 DEF Executes, Effect, After
<1>4. CASE code[ip].op # "jump" /\ ip' = ip + 1
  <2>1. code[ip].op \notin {"jump", "halt", "return"}
    BY <1>4 DEF Executes, Effect, Handled, Jumps, Literals, Intrinsics
  <2> QED
    BY <1>1, <1>2, <1>3, <1>4, <2>1 DEF Settled, DepthMatchesVerifier, end
<1>5. CASE code[ip].op \in Jumps /\ ip' = code[ip].arg
  BY <1>1, <1>2, <1>3, <1>5 DEF Settled, DepthMatchesVerifier, end
<1> QED
  BY <1>4, <1>5 DEF Executes

\* So do the instructions that open and close a try.
LEMMA TryStep ==
  ASSUME VerifierInv, phase = "run", TryBegin \/ TryEnd
  PROVE  ip' \in 1 .. end /\ DepthMatchesVerifier'
<1>1. /\ ip \in 1 .. Len(code) /\ Len(code) \in Nat /\ ip' = ip + 1
      /\ UNCHANGED <<code, phase, height_at, depth>>
      /\ code[ip].op \in {"try_begin", "try_end"}
  BY DEF VerifierInv, TypeOK, TryBegin, TryEnd, Live, pass
<1>2. Settled(ip, height_at[ip + 1]) /\ depth = height_at[ip]
  BY <1>1 DEF VerifierInv, RunInv, DepthMatchesVerifier
<1>3. Taken(code[ip]) = 0 /\ Given(code[ip]) = 0
  BY <1>1, Effects DEF Taken, Given, Opcodes
<1>4. ip < Len(code) => height_at[ip + 1] = depth
  BY <1>1, <1>2, <1>3 DEF Settled, After
<1> QED
  BY <1>1, <1>4 DEF DepthMatchesVerifier, end

-----------------------------------------------------------------------------
\* The invariant holds when the verifier starts.
LEMMA InvariantInit ==
  ASSUME Init
  PROVE  VerifierInv
<1>1. code \in Seq(Instructions) /\ Len(code) \in Nat
  BY VerifierAssumption DEF Init
<1>2. TypeOK
  <2>1. height_at \in [1 .. Len(code) -> Nat \cup {Unknown}]
    BY DEF Init
  <2>2. handlers \in Seq([catch : Nat, height : Int])
    BY DEF Init
  <2>3. has_halt_or_return \in BOOLEAN /\ valid \in BOOLEAN
    BY DEF Init
  <2>4. ip \in Nat /\ stack_height \in Nat /\ depth \in Int
    BY DEF Init
  <2> QED
    BY <1>1, <2>1, <2>2, <2>3, <2>4, Zenon DEF Init, TypeOK
<1> QED
  BY <1>1, <1>2 DEF Init, VerifierInv, PassInv, RunInv, end

\* Every step keeps it.
LEMMA InvariantStep ==
  ASSUME VerifierInv, Accounted, [Next]_vars
  PROVE  VerifierInv'
<1>1. TypeOK' /\ Len(code) \in Nat
  BY TypeInvariant DEF VerifierInv, TypeOK
<1>2. code' = code
  BY StepKinds DEF vars, VerifyInstruction, VerifyBad, VerifyEnd, Executes, Effect,
                   TryBegin, TryEnd, Throw, Stop
<1>3. ASSUME phase \in {"verify", "run"} => ip \in 1 .. end,
             phase' \in {"verify", "run"} => ip' \in 1 .. end, PassInv', RunInv'
      PROVE  VerifierInv'
  BY <1>1, <1>2, <1>3 DEF VerifierInv, end
<1>4. phase \in {"verify", "run"} => ip \in 1 .. end
  BY DEF VerifierInv
<1>5. CASE VerifyInstruction
  <2>1. phase = "verify" /\ phase' = "verify" /\ ip' \in 1 .. end
    BY <1>1, <1>4, <1>5 DEF VerifyInstruction, end
  <2>2. PassInv'
    BY <1>5, PassesInstruction DEF PassInv
  <2> QED
    BY <1>3, <1>4, <2>1, <2>2 DEF RunInv
<1>6. CASE VerifyBad
  BY <1>1, <1>3, <1>4, <1>6 DEF VerifyBad, PassInv, RunInv, end
<1>7. CASE VerifyEnd
  <2>1. phase' \in {"run", "rejected"} /\ (phase' = "run" => valid') /\ ip' \in 1 .. end
    BY <1>1, <1>7 DEF VerifyEnd, end
  <2>2. RunInv'
    BY <1>7, <2>1, Accepts DEF RunInv
  <2> QED
    BY <1>3, <1>4, <2>1, <2>2 DEF PassInv
<1>8. CASE Executes \/ TryBegin \/ TryEnd
  <2>1. phase \in {"run", "caught"} /\ UNCHANGED <<code, phase, height_at>>
    BY <1>8 DEF Executes, Effect, TryBegin, TryEnd, Live, pass
  <2>2. CASE phase = "run"
    <3>1. ip' \in 1 .. end /\ DepthMatchesVerifier'
      BY <1>8, <2>2, ExecuteStep, TryStep
    <3>2. RunInv'
      BY <2>1, <2>2, <3>1, SettledStays DEF RunInv
    <3> QED
      BY <1>3, <1>4, <2>1, <2>2, <3>1, <3>2 DEF PassInv
  <2>3. CASE phase = "caught"
    BY <1>3, <1>4, <2>1, <2>3 DEF PassInv, RunInv
  <2> QED
    BY <2>1, <2>2, <2>3
<1>9. CASE Throw \/ Stop
  <2>1. phase' \in {"caught", "stopped"}
    BY <1>9 DEF Throw, Stop
  <2> QED
    BY <1>3, <1>4, <2>1 DEF PassInv, RunInv
<1>10. CASE UNCHANGED vars
  BY <1>10 DEF vars, VerifierInv, TypeOK, PassInv, RunInv, DepthMatchesVerifier,
               Settled, After, end
<1> QED
  BY <1>5, <1>6, <1>7, <1>8, <1>9, <1>10, StepKinds

\* The invariant, for functions whose instructions do what the verifier counts.
LEMMA Invariant ==
  ASSUME Accounted
  PROVE  Spec => []VerifierInv
<1>1. Init => VerifierInv
  BY InvariantInit
<1>2. VerifierInv /\ [Next]_vars => VerifierInv'
  BY InvariantStep
<1> QED
  BY <1>1, <1>2, PTL DEF Spec

\* For any functions whose instructions do what the verifier counts: once
\* accepted by verify_function, a function runs with the stack height that was computed
\* for each of its instructions, on every path, until it catches an exception.
THEOREM VerifierSound ==
  ASSUME Accounted
  PROVE  Spec => []DepthMatchesVerifier
<1>1. VerifierInv => DepthMatchesVerifier
  BY DEF VerifierInv, RunInv, DepthMatchesVerifier
<1> QED
  BY <1>1, Invariant, PTL

\* For the same functions: an instruction that a function accepted by
\* verify_function executes never takes more off the stack than the function has
\* put there, until it catches an exception.
THEOREM VerifierNoUnderflow ==
  ASSUME Accounted
  PROVE  Spec => []NoUnderflow
<1>1. VerifierInv => NoUnderflow
  BY DEF VerifierInv, RunInv, DepthMatchesVerifier, NoUnderflow, Settled
<1> QED
  BY <1>1, Invariant, PTL
=============================================================================
