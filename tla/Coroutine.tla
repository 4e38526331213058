----------------------------- MODULE Coroutine ------------------------------
(***************************************************************************)
(* Coroutines: OP_CORO_NEW, OP_CORO_RESUME, OP_CORO_YIELD, OP_CORO_STATUS  *)
(* (src/vm/vm_concurrency.c) and arc_vm_continue (src/vm/vm.c).            *)
(*                                                                         *)
(* A coroutine has a VM of its own; resuming it calls arc_vm_continue on   *)
(* that VM, on the C stack of whoever resumes.  `active` is that C stack:  *)
(* the VMs whose loop is running, innermost last.  Only the height of each *)
(* operand stack is modelled.  Beside it stands the height that the code   *)
(* counts on, which is what the opcode table (src/bytecode/opcodes.h) says *)
(* each instruction pops and pushes and what the verifier computes with.   *)
(*                                                                         *)
(* A coroutine is a value, so any VM may come to hold it.  With            *)
(* Reenter = FALSE programs resume only coroutines that are not running.   *)
(***************************************************************************)
EXTENDS Integers, Sequences, SequencesExt

CONSTANTS Coroutines, Main, ARC_STACK_MAX,
          MaxSwitches,   \* bound: resumes
          Reenter        \* may a running coroutine be resumed?

ASSUME CoroutineAssumption ==
  /\ Main \notin Coroutines
  /\ ARC_STACK_MAX \in Nat \ {0}
  /\ MaxSwitches \in Nat
  /\ Reenter \in BOOLEAN

Vms == Coroutines \cup {Main}

VARIABLES
  active,     \* the C stack of arc_vm_run and arc_vm_continue calls
  status,     \* ArcObjCoroutine.status, or "none" before OP_CORO_NEW
  sp,         \* the operand stack's height in each VM
  height,     \* the height that the VM's code counts on at its ip
  halted,     \* ArcVm.halted
  outcome,    \* "going", "failing" while an error climbs the C stack, or how
              \* arc_vm_run returned: "ok", "yield", "error"
  switches    \* the counter that MaxSwitches bounds

vars == <<active, status, sp, height, halted, outcome, switches>>

Init ==
  /\ active = <<Main>>
  /\ status = [c \in Coroutines |-> "none"]
  /\ sp = [v \in Vms |-> 0]
  /\ height = [v \in Vms |-> 0]
  /\ halted = [v \in Vms |-> FALSE]
  /\ outcome = "going"
  /\ switches = 0

current == Last(active)

\* The innermost loop fetches its next instruction.
Fetch == outcome = "going" /\ ~ halted[current]

\* An instruction of the current VM fails, and its loop returns the error.
vm_error ==
  /\ outcome' = "failing"
  /\ UNCHANGED <<active, status, sp, height, halted, switches>>

-----------------------------------------------------------------------------
\* Ordinary instructions, in their effect on the stack.
vm_push ==
  /\ Fetch
  /\ IF sp[current] >= ARC_STACK_MAX THEN vm_error
     ELSE /\ sp' = [sp EXCEPT ![current] = @ + 1]
          /\ height' = [height EXCEPT ![current] = @ + 1]
          /\ UNCHANGED <<active, status, halted, outcome, switches>>

vm_pop ==
  /\ Fetch /\ height[current] > 0
  /\ IF sp[current] = 0 THEN vm_error
     ELSE /\ sp' = [sp EXCEPT ![current] = @ - 1]
          /\ height' = [height EXCEPT ![current] = @ - 1]
          /\ UNCHANGED <<active, status, halted, outcome, switches>>

\* OP_CORO_NEW; the reference goes to a local.
arc_obj_coroutine_new(c) ==
  /\ Fetch
  /\ status[c] = "none"
  /\ status' = [status EXCEPT ![c] = "ready"]
  /\ UNCHANGED <<active, sp, height, halted, outcome, switches>>

-----------------------------------------------------------------------------
\* Mutant: the value is pushed on the first resume, too.
ResumePushesAlways(c) ==
  /\ Fetch /\ height[current] > 0
  /\ status[c] # "none" /\ (Reenter \/ c \notin ToSet(active))
  /\ switches < MaxSwitches
  /\ IF sp[current] = 0 \/ status[c] = "dead" THEN vm_error
     ELSE /\ sp' = [sp EXCEPT ![current] = @ - 1, ![c] = @ + 1]
          /\ status' = [status EXCEPT ![c] = "running"]
          /\ halted' = [halted EXCEPT ![c] = FALSE]
          /\ active' = Append(active, c)
          /\ switches' = switches + 1
          /\ UNCHANGED <<height, outcome>>

\* OP_CORO_RESUME, up to the call of arc_vm_continue: pops the value to send,
\* pushes it on the coroutine's stack unless this is its first resume.  What
\* the resume will push is counted on already.
vm_exec_coro_resume(c) ==
  /\ Fetch /\ height[current] > 0
  /\ status[c] # "none" /\ (Reenter \/ c \notin ToSet(active))
  /\ switches < MaxSwitches
  /\ IF sp[current] = 0 \/ status[c] = "dead" THEN vm_error
     ELSE LET popped == [sp EXCEPT ![current] = @ - 1] IN
          /\ sp' = IF status[c] = "suspended" /\ popped[c] < ARC_STACK_MAX
                   THEN [popped EXCEPT ![c] = @ + 1] ELSE popped
          /\ status' = [status EXCEPT ![c] = "running"]
          /\ halted' = [halted EXCEPT ![c] = FALSE]
          /\ active' = Append(active, c)
          /\ switches' = switches + 1
          /\ UNCHANGED <<height, outcome>>

\* Back in vm_exec_coro_resume: the current loop has returned, the coroutine
\* gets its new status and the resumer a value on its stack.
Back(new_status, popped) ==
  LET resumer == active[Len(active) - 1] IN
  /\ active' = Front(active)
  /\ status' = [status EXCEPT ![current] = new_status]
  /\ sp' = [popped EXCEPT ![resumer] = @ + 1]
  /\ UNCHANGED <<height, outcome, switches>>

\* OP_CORO_YIELD: the loop returns ARC_YIELD; in the main VM, so does
\* arc_vm_run.
vm_exec_coro_yield ==
  /\ Fetch /\ height[current] > 0
  /\ IF sp[current] = 0 THEN vm_error
     ELSE LET popped == [sp EXCEPT ![current] = @ - 1] IN
          IF current = Main
          THEN /\ outcome' = "yield"
               /\ sp' = popped
               /\ UNCHANGED <<active, status, height, halted, switches>>
          ELSE Back("suspended", popped) /\ UNCHANGED halted

\* OP_RETURN from the outermost frame: the result alone is left.
vm_exec_return ==
  /\ Fetch /\ height[current] > 0
  /\ IF sp[current] = 0 THEN vm_error
     ELSE /\ sp' = [sp EXCEPT ![current] = 1]
          /\ height' = [height EXCEPT ![current] = 1]
          /\ halted' = [halted EXCEPT ![current] = TRUE]
          /\ UNCHANGED <<active, status, outcome, switches>>

OP_HALT ==
  /\ Fetch
  /\ halted' = [halted EXCEPT ![current] = TRUE]
  /\ UNCHANGED <<active, status, sp, height, outcome, switches>>

\* The loop of a halted VM returns ARC_OK.
arc_vm_continue ==
  /\ outcome = "going" /\ halted[current]
  /\ IF current = Main
     THEN outcome' = "ok" /\ UNCHANGED <<active, status, sp, height, switches>>
     ELSE Back("dead", sp)
  /\ UNCHANGED halted

\* Mutant: a coroutine that fails keeps the status that it ran with.
UnwindKeepsStatus ==
  /\ outcome = "failing"
  /\ IF current = Main
     THEN outcome' = "error" /\ UNCHANGED <<active, status>>
     ELSE active' = Front(active) /\ UNCHANGED <<status, outcome>>
  /\ UNCHANGED <<sp, height, halted, switches>>

\* A loop has returned an error: to vm_exec_coro_resume, whose coroutine is dead
\* and which fails in its turn; from the main VM's, arc_vm_run returns it.
Unwind ==
  /\ outcome = "failing"
  /\ IF current = Main
     THEN outcome' = "error" /\ UNCHANGED <<active, status>>
     ELSE /\ active' = Front(active)
          /\ status' = [status EXCEPT ![current] = "dead"]
          /\ UNCHANGED outcome
  /\ UNCHANGED <<sp, height, halted, switches>>

-----------------------------------------------------------------------------
Next ==
  \/ vm_push \/ vm_pop
  \/ \E c \in Coroutines : arc_obj_coroutine_new(c) \/ vm_exec_coro_resume(c)
  \/ vm_exec_coro_yield \/ vm_exec_return \/ OP_HALT \/ arc_vm_continue
  \/ Unwind

Spec == Init /\ [][Next]_vars

-----------------------------------------------------------------------------
\* When a VM runs, its stack is as high as its code counts on, across any
\* pattern of resumes and yields and up to the limit of the stack: a resume
\* pops two values and pushes one, a yield pops one and pushes one.
HeightsAgree == Fetch => sp[current] = height[current]

\* OP_CORO_STATUS tells the truth: a coroutine is "running" exactly while its
\* loop is on the C stack, and its loop is there once.  So it is while an error
\* of the innermost coroutine climbs through those that resumed each other, and
\* when arc_vm_run has returned: no coroutine is left "running".
StatusTrue ==
  /\ \A c \in Coroutines : status[c] = "running" <=> c \in ToSet(active)
  /\ IsInjective(active)

-----------------------------------------------------------------------------
(* The inductive invariant, for programs that do not resume a running      *)
(* coroutine.                                                              *)

TypeOK ==
  /\ active \in Seq(Vms)
  /\ status \in [Coroutines -> {"none", "ready", "running", "suspended", "dead"}]
  /\ sp \in [Vms -> Nat]
  /\ height \in [Vms -> Nat]
  /\ halted \in [Vms -> BOOLEAN]
  /\ outcome \in {"going", "failing", "ok", "yield", "error"}
  /\ switches \in Nat

\* The C stack: the main VM's loop, then those of coroutines; only the
\* innermost loop may be about to return.
NestInv ==
  /\ Len(active) > 0 /\ active[1] = Main
  /\ \A i \in 2 .. Len(active) : active[i] \in Coroutines
  /\ \A i \in 1 .. Len(active) - 1 : ~ halted[active[i]]

\* A VM that is not running, waiting for a coroutine or suspended itself, lacks
\* the one value that it will find on its stack when it goes on.
HeightInv ==
  /\ sp[current] = height[current]
  /\ \A i \in 1 .. Len(active) - 1 : sp[active[i]] + 1 = height[active[i]]
  /\ \A c \in Coroutines :
       /\ status[c] \in {"none", "ready"} => sp[c] = height[c]
       /\ status[c] = "suspended" => sp[c] + 1 = height[c]
  /\ \A v \in Vms : height[v] <= ARC_STACK_MAX

CoroutineInv ==
  /\ TypeOK /\ NestInv /\ StatusTrue
  /\ outcome = "going" => HeightInv
=============================================================================
