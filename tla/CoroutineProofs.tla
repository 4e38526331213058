-------------------------- MODULE CoroutineProofs ---------------------------
(***************************************************************************)
(* Proof that coroutines keep their operand stacks and their status right, *)
(* for any number of coroutines, any nesting of resumes, any stack size    *)
(* and any number of switches, in programs that do not resume a coroutine  *)
(* that is running.                                                        *)
(*                                                                         *)
(* A value is in transit across every switch: the resumer has popped what  *)
(* it sends and counts already on what it will get, and a coroutine that   *)
(* has yielded counts on what it will be sent.  So the invariant says of   *)
(* every VM that is not running that it is one value short, on the C stack *)
(* as well as suspended, and that only a VM that is there once can be      *)
(* given its value back.  The C stack and the status stay right also while *)
(* an error climbs; the heights no longer matter then.                     *)
(***************************************************************************)
EXTENDS Coroutine, TLAPS

\* The C stack as a sequence.
LEMMA Nested ==
  ASSUME TypeOK, NestInv, StatusTrue
  PROVE  /\ Len(active) \in Nat \ {0}
         /\ DOMAIN active = 1 .. Len(active)
         /\ current = active[Len(active)]
         /\ \A i \in 1 .. Len(active) : active[i] \in Vms
         /\ \A i, j \in 1 .. Len(active) : active[i] = active[j] => i = j
         /\ \A i \in 1 .. Len(active) : active[i] = Main <=> i = 1
         /\ \A c \in Coroutines :
              status[c] = "running" <=> \E i \in 1 .. Len(active) : active[i] = c
<1>1. Len(active) \in Nat \ {0} /\ DOMAIN active = 1 .. Len(active)
  BY DEF TypeOK, NestInv
<1>2. \A i \in 1 .. Len(active) : active[i] \in Vms
  BY <1>1 DEF TypeOK
<1>3. \A i, j \in 1 .. Len(active) : active[i] = active[j] => i = j
  BY <1>1 DEF StatusTrue, IsInjective
<1>4. \A i \in 1 .. Len(active) : active[i] = Main <=> i = 1
  BY <1>1, CoroutineAssumption DEF NestInv
<1>5. \A c \in Coroutines :
        status[c] = "running" <=> \E i \in 1 .. Len(active) : active[i] = c
  BY <1>1 DEF StatusTrue, ToSet
<1> QED
  BY <1>1, <1>2, <1>3, <1>4, <1>5 DEF current, Last

\* The same facts, from which the next C stack is seen to be in order.
LEMMA StatusFrom ==
  ASSUME active' \in Seq(Vms),
         \A i, j \in 1 .. Len(active') : active'[i] = active'[j] => i = j,
         \A c \in Coroutines :
           status'[c] = "running" <=> \E i \in 1 .. Len(active') : active'[i] = c
  PROVE  StatusTrue'
<1>1. DOMAIN active' = 1 .. Len(active')
  OBVIOUS
<1> QED
  BY <1>1 DEF StatusTrue, ToSet, IsInjective

\* An instruction fails.
LEMMA FailStep ==
  ASSUME TypeOK, NestInv, StatusTrue, vm_error
  PROVE  CoroutineInv'
BY DEF CoroutineInv, TypeOK, NestInv, StatusTrue, vm_error

\* The current VM's stack gets another height.
LEMMA HeightChange ==
  ASSUME CoroutineInv, outcome = "going", UNCHANGED <<active, status, outcome, switches>>,
         NEW h \in 0 .. ARC_STACK_MAX,
         sp' = [sp EXCEPT ![current] = h], height' = [height EXCEPT ![current] = h],
         halted' \in {halted, [halted EXCEPT ![current] = TRUE]}
  PROVE  CoroutineInv'
<1> USE CoroutineAssumption
<1>1. TypeOK /\ NestInv /\ HeightInv /\ StatusTrue
  BY DEF CoroutineInv
<1> HIDE DEF current
<1>2. /\ Len(active) \in Nat \ {0} /\ current \in Vms /\ current' = current
      /\ \A i \in 1 .. Len(active) - 1 : active[i] \in Vms /\ active[i] # current
  BY <1>1, Nested DEF current
<1>3. sp'[current] = h /\ height'[current] = h
      /\ \A v \in Vms \ {current} : sp'[v] = sp[v] /\ height'[v] = height[v] /\ halted'[v] = halted[v]
  BY <1>1, <1>2 DEF TypeOK
<1>4. TypeOK'
  <2>1. halted' \in [Vms -> BOOLEAN]
    BY <1>1, <1>2, Zenon DEF TypeOK
  <2>2. sp' \in [Vms -> Nat] /\ height' \in [Vms -> Nat]
    BY <1>1, <1>2 DEF TypeOK
  <2> QED
    BY <1>1, <2>1, <2>2 DEF TypeOK
<1>5. NestInv'
  BY <1>1, <1>2, <1>3 DEF NestInv
<1>6. HeightInv'
  <2>1. \A c \in Coroutines : status[c] # "running" => c \in Vms /\ c # current
    BY <1>1, <1>2, Nested DEF Vms
  <2> QED
    BY <1>1, <1>2, <1>3, <2>1 DEF HeightInv
<1>7. StatusTrue'
  BY <1>1 DEF StatusTrue
<1> QED
  BY <1>4, <1>5, <1>6, <1>7 DEF CoroutineInv

\* Instructions that stay in the current VM.
LEMMA LocalStep ==
  ASSUME CoroutineInv,
         \/ vm_push \/ vm_pop \/ vm_exec_return \/ OP_HALT
         \/ \E c \in Coroutines : arc_obj_coroutine_new(c)
  PROVE  CoroutineInv'
<1> USE CoroutineAssumption
<1>0. outcome = "going" /\ ~ halted[current]
  BY DEF vm_push, vm_pop, vm_exec_return, OP_HALT, arc_obj_coroutine_new, Fetch
<1>1. TypeOK /\ NestInv /\ HeightInv /\ StatusTrue
  BY <1>0 DEF CoroutineInv
<1>2. current \in Vms
  BY <1>0, <1>1, Nested
<1>3. CASE vm_error
  BY <1>1, <1>3, FailStep
<1>4. CASE vm_push /\ ~ vm_error
  <2>1. sp[current] + 1 \in 0 .. ARC_STACK_MAX /\ height[current] = sp[current]
    BY <1>0, <1>1, <1>2, <1>4 DEF TypeOK, HeightInv, vm_push
  <2> QED
    BY <1>0, <1>4, <2>1, HeightChange DEF vm_push
<1>5. CASE vm_pop /\ ~ vm_error
  <2>1. sp[current] - 1 \in 0 .. ARC_STACK_MAX /\ height[current] = sp[current]
    BY <1>0, <1>1, <1>2, <1>5 DEF TypeOK, HeightInv, vm_pop
  <2> QED
    BY <1>0, <1>5, <2>1, HeightChange DEF vm_pop
<1>6. CASE vm_exec_return /\ ~ vm_error
  <2>1. 1 \in 0 .. ARC_STACK_MAX
    OBVIOUS
  <2> QED
    BY <1>0, <1>6, <2>1, HeightChange DEF vm_exec_return
<1>7. CASE OP_HALT
  <2>1. /\ sp[current] \in 0 .. ARC_STACK_MAX
        /\ sp = [sp EXCEPT ![current] = sp[current]]
        /\ height = [height EXCEPT ![current] = sp[current]]
    BY <1>0, <1>1, <1>2 DEF TypeOK, HeightInv
  <2> QED
    BY <1>0, <1>7, <2>1, HeightChange DEF OP_HALT
<1>8. ASSUME NEW c \in Coroutines, arc_obj_coroutine_new(c) PROVE CoroutineInv'
  BY <1>0, <1>1, <1>2, <1>8, Nested DEF CoroutineInv, TypeOK, arc_obj_coroutine_new, NestInv, HeightInv, StatusTrue, current
<1> QED
  BY <1>3, <1>4, <1>5, <1>6, <1>7, <1>8

\* OP_CORO_RESUME.
LEMMA ResumeStep ==
  ASSUME ~ Reenter, CoroutineInv, NEW c \in Coroutines, vm_exec_coro_resume(c)
  PROVE  CoroutineInv'
<1> USE CoroutineAssumption
<1>0. outcome = "going" /\ ~ halted[current] /\ height[current] > 0
      /\ status[c] # "none" /\ c \notin ToSet(active) /\ switches < MaxSwitches
  BY DEF vm_exec_coro_resume, Fetch
<1>1. TypeOK /\ NestInv /\ HeightInv /\ StatusTrue
  BY <1>0 DEF CoroutineInv
<1> DEFINE n == Len(active)
<1>2. /\ n \in Nat \ {0} /\ current \in Vms /\ current = active[n]
      /\ \A i \in 1 .. n : active[i] \in Vms /\ active[i] # c
      /\ \A i \in 1 .. n - 1 : active[i] # current
      /\ c \in Vms /\ c # current
  BY <1>0, <1>1, Nested DEF ToSet, Vms
<1>3. CASE vm_error
  BY <1>1, <1>3, FailStep
<1>4. CASE ~ vm_error
  <2>1. /\ sp[current] # 0 /\ status[c] # "dead"
        /\ status' = [status EXCEPT ![c] = "running"]
        /\ halted' = [halted EXCEPT ![c] = FALSE]
        /\ active' = Append(active, c)
        /\ switches' = switches + 1
        /\ UNCHANGED <<height, outcome>>
        /\ sp' = IF status[c] = "suspended" /\ [sp EXCEPT ![current] = @ - 1][c] < ARC_STACK_MAX
                 THEN [[sp EXCEPT ![current] = @ - 1] EXCEPT ![c] = @ + 1]
                 ELSE [sp EXCEPT ![current] = @ - 1]
    BY <1>4 DEF vm_exec_coro_resume
  <2>2. status[c] \in {"ready", "suspended"}
    BY <1>0, <1>1, <1>2, <2>1 DEF TypeOK, StatusTrue
  <2>3. status[c] = "suspended" => sp[c] < ARC_STACK_MAX /\ sp[c] + 1 = height[c]
    BY <1>1, <1>2 DEF HeightInv, TypeOK
  <2>4. /\ sp'[current] = sp[current] - 1 /\ sp'[c] = height[c]
        /\ \A v \in Vms \ {c, current} : sp'[v] = sp[v]
    BY <1>1, <1>2, <2>1, <2>2, <2>3 DEF TypeOK, HeightInv
  <2>5. /\ active' \in Seq(Vms) /\ Len(active') = n + 1 /\ active'[n + 1] = c
        /\ \A i \in 1 .. n : active'[i] = active[i]
    BY <1>1, <1>2, <2>1 DEF TypeOK
  <2>6. current' = c
    BY <1>2, <2>5 DEF current, Last
  <2>7. TypeOK'
    <3> DEFINE popped == [sp EXCEPT ![current] = @ - 1]
    <3>1. popped \in [Vms -> Nat] /\ [popped EXCEPT ![c] = @ + 1] \in [Vms -> Nat]
      <4>1. popped \in [Vms -> Nat]
        <5>1. sp[current] - 1 \in Nat /\ sp \in [Vms -> Nat]
          BY <1>1, <1>2, <2>1 DEF TypeOK
        <5> QED
          BY <1>2, <5>1
      <4>2. \A f \in [Vms -> Nat] : [f EXCEPT ![c] = @ + 1] \in [Vms -> Nat]
        BY <1>2
      <4> QED
        BY <4>1, <4>2
    <3>2. sp' \in [Vms -> Nat]
      BY <2>1, <3>1
    <3>3. halted' \in [Vms -> BOOLEAN]
      BY <1>1, <2>1, Zenon DEF TypeOK
    <3>4. status' \in [Coroutines -> {"none", "ready", "running", "suspended", "dead"}]
      BY <1>1, <2>1 DEF TypeOK
    <3> QED
      BY <1>1, <2>1, <2>5, <3>2, <3>3, <3>4 DEF TypeOK
  <2>8. NestInv'
    <3>1. \A i \in 1 .. n : ~ halted'[active'[i]]
      <4> TAKE i \in 1 .. n
      <4>1. active'[i] = active[i] /\ active[i] \in Vms /\ active[i] # c
        BY <1>2, <2>5
      <4>2. ~ halted[active[i]]
        BY <1>0, <1>1, <1>2 DEF NestInv
      <4> QED
        BY <1>1, <2>1, <4>1, <4>2 DEF TypeOK
    <3>2. active'[1] = Main /\ \A i \in 2 .. n + 1 : active'[i] \in Coroutines
      <4>1. 1 \in 1 .. n /\ \A i \in 2 .. n + 1 : i = n + 1 \/ i \in 1 .. n
        BY <1>2
      <4> QED
        BY <1>1, <1>2, <2>5, <4>1 DEF NestInv
    <3> QED
      BY <1>2, <2>5, <3>1, <3>2 DEF NestInv
  <2>9. HeightInv'
    <3>1. sp'[c] = height'[c]
      BY <2>1, <2>4
    <3>2. \A i \in 1 .. n : sp'[active'[i]] + 1 = height'[active'[i]]
      <4>1. sp'[active'[n]] + 1 = height'[active'[n]]
        BY <1>1, <1>2, <2>1, <2>4, <2>5 DEF HeightInv, TypeOK
      <4>2. ASSUME NEW i \in 1 .. n - 1 PROVE sp'[active'[i]] + 1 = height'[active'[i]]
        <5>1. i \in 1 .. n /\ active'[i] = active[i]
          BY <1>2, <2>5
        <5>2. active[i] \in Vms \ {c, current}
          BY <1>2, <5>1
        <5>3. sp[active[i]] + 1 = height[active[i]]
          BY <1>1 DEF HeightInv
        <5> QED
          BY <2>1, <2>4, <5>1, <5>2, <5>3
      <4> QED
        BY <1>2, <4>1, <4>2
    <3>3. \A d \in Coroutines \ {c} : d \in Vms /\ (status[d] # "running" => d # current) /\ status'[d] = status[d]
      BY <1>0, <1>1, <1>2, <2>1, Nested DEF Vms, TypeOK
    <3>4. status'[c] = "running"
      BY <1>1, <2>1 DEF TypeOK
    <3>5. ASSUME NEW d \in Coroutines
          PROVE  /\ status'[d] \in {"none", "ready"} => sp'[d] = height'[d]
                 /\ status'[d] = "suspended" => sp'[d] + 1 = height'[d]
      BY <1>1, <2>1, <2>4, <3>3, <3>4 DEF HeightInv
    <3>6. \A v \in Vms : height'[v] <= ARC_STACK_MAX
      BY <1>1, <2>1 DEF HeightInv
    <3>7. Len(active') - 1 = n
      BY <1>2, <2>5
    <3> QED
      BY <2>6, <3>1, <3>2, <3>5, <3>6, <3>7 DEF HeightInv
  <2>10. StatusTrue'
    <3>1. \A i, j \in 1 .. n + 1 : active'[i] = active'[j] => i = j
      BY <1>0, <1>1, <1>2, <2>5, Nested
    <3>2. \A d \in Coroutines : status'[d] = "running" <=> \E i \in 1 .. n + 1 : active'[i] = d
      BY <1>0, <1>1, <1>2, <2>1, <2>5, Nested DEF TypeOK
    <3> QED
      BY <2>5, <3>1, <3>2, StatusFrom
  <2> QED
    BY <2>7, <2>8, <2>9, <2>10 DEF CoroutineInv
<1> QED
  BY <1>3, <1>4

\* The innermost loop leaves the C stack and its coroutine gets another status.
LEMMA PopStep ==
  ASSUME TypeOK, NestInv, StatusTrue, current # Main,
         NEW s \in {"suspended", "dead"},
         active' = Front(active), status' = [status EXCEPT ![current] = s],
         UNCHANGED halted
  PROVE  /\ Len(active) > 1
         /\ active' \in Seq(Vms) /\ Len(active') = Len(active) - 1
         /\ \A i \in 1 .. Len(active) - 1 : active'[i] = active[i]
         /\ status' \in [Coroutines -> {"none", "ready", "running", "suspended", "dead"}]
         /\ current \in Coroutines
         /\ NestInv' /\ StatusTrue'
<1> USE CoroutineAssumption
<1> DEFINE n == Len(active)
<1>2. /\ n \in Nat /\ n > 1 /\ n - 1 \in 1 .. n /\ n \in 1 .. n
      /\ current \in Coroutines /\ current \in Vms /\ current = active[n]
  BY Nested DEF Vms, NestInv
<1>3. \A i \in 1 .. n - 1 : i \in 1 .. n /\ active[i] \in Vms /\ active[i] # current
  BY <1>2, Nested
<1>4. active' = SubSeq(active, 1, n - 1)
  BY DEF Front
<1>5. /\ active' \in Seq(Vms) /\ Len(active') = n - 1
      /\ \A i \in 1 .. n - 1 : active'[i] = active[i]
  BY <1>2, <1>4 DEF TypeOK
<1>6. status' \in [Coroutines -> {"none", "ready", "running", "suspended", "dead"}]
  BY DEF TypeOK
<1>7. NestInv'
  <2>1. active'[1] = Main
    BY <1>2, <1>5 DEF NestInv
  <2>2. \A i \in 2 .. n - 1 : active'[i] \in Coroutines
    BY <1>2, <1>5 DEF NestInv
  <2>3. \A i \in 1 .. n - 2 : ~ halted'[active'[i]]
    BY <1>2, <1>5 DEF NestInv
  <2>4. Len(active') - 1 = n - 2 /\ Len(active') > 0
    BY <1>2, <1>5
  <2> QED
    BY <1>5, <2>1, <2>2, <2>3, <2>4 DEF NestInv
<1>8. StatusTrue'
  <2>1. \A i, j \in 1 .. n - 1 : active'[i] = active'[j] => i = j
    BY <1>3, <1>5, Nested
  <2>2. ASSUME NEW c \in Coroutines
        PROVE  status'[c] = "running" <=> \E i \in 1 .. n - 1 : active'[i] = c
    <3>1. CASE c = current
      BY <1>2, <1>3, <1>5, <3>1 DEF TypeOK
    <3>2. CASE c # current
      <4>1. status'[c] = status[c]
        BY <3>2 DEF TypeOK
      <4>2. \A i \in 1 .. n : active[i] = c => i \in 1 .. n - 1
        BY <1>2, <3>2
      <4>3. status[c] = "running" <=> \E i \in 1 .. n : active[i] = c
        BY Nested
      <4>4. (\E i \in 1 .. n : active[i] = c) <=> \E i \in 1 .. n - 1 : active'[i] = c
        BY <1>3, <1>5, <4>2
      <4> QED
        BY <4>1, <4>3, <4>4
    <3> QED
      BY <3>1, <3>2
  <2> QED
    BY <1>5, <2>1, <2>2, StatusFrom
<1> QED
  BY <1>2, <1>5, <1>6, <1>7, <1>8

\* A coroutine's loop returns to its resumer, after a yield or when it has ended.
LEMMA BackStep ==
  ASSUME CoroutineInv, outcome = "going", current # Main,
         NEW s \in {"suspended", "dead"}, NEW p \in [Vms -> Nat],
         \A v \in Vms \ {current} : p[v] = sp[v],
         s = "suspended" => p[current] + 1 = height[current],
         Back(s, p), UNCHANGED halted
  PROVE  CoroutineInv'
<1> USE CoroutineAssumption
<1>1. TypeOK /\ NestInv /\ HeightInv /\ StatusTrue
  BY DEF CoroutineInv
<1> DEFINE n == Len(active)
           resumer == active[n - 1]
<1>4. /\ active' = Front(active)
      /\ status' = [status EXCEPT ![current] = s]
      /\ sp' = [p EXCEPT ![resumer] = @ + 1]
      /\ UNCHANGED <<height, outcome, switches>>
  BY DEF Back
<1>5. /\ n > 1 /\ current \in Coroutines
      /\ active' \in Seq(Vms) /\ Len(active') = n - 1
      /\ \A i \in 1 .. n - 1 : active'[i] = active[i]
      /\ status' \in [Coroutines -> {"none", "ready", "running", "suspended", "dead"}]
      /\ NestInv' /\ StatusTrue'
  BY <1>1, <1>4, PopStep
<1>2. /\ n \in Nat /\ n - 1 \in 1 .. n /\ n \in 1 .. n
      /\ current \in Vms /\ current = active[n]
  BY <1>1, <1>5, Nested DEF Vms
<1>3. /\ \A i \in 1 .. n - 1 : i \in 1 .. n /\ active[i] \in Vms /\ active[i] # current
      /\ resumer \in Vms
  BY <1>1, <1>2, Nested
<1>6. current' = resumer
  BY <1>2, <1>5 DEF current, Last
<1>7. /\ sp' \in [Vms -> Nat]
      /\ sp'[resumer] = sp[resumer] + 1 /\ sp'[current] = p[current]
      /\ \A v \in Vms \ {resumer, current} : sp'[v] = sp[v]
  <2>0. n - 1 \in 1 .. n - 1
    BY <1>2, <1>5
  <2>1. resumer \in Vms \ {current}
    BY <1>3, <2>0
  <2> HIDE DEF resumer
  <2> QED
    BY <1>2, <1>4, <2>1
<1>8. TypeOK'
  BY <1>1, <1>4, <1>5, <1>7 DEF TypeOK
<1>9. HeightInv'
  <2>1. sp'[resumer] = height'[resumer]
    BY <1>1, <1>2, <1>3, <1>4, <1>7 DEF HeightInv
  <2>2. ASSUME NEW i \in 1 .. n - 2 PROVE sp'[active'[i]] + 1 = height'[active'[i]]
    <3>1. i \in 1 .. n - 1 /\ i \in 1 .. n /\ i # n - 1
      BY <1>2
    <3>2. active'[i] = active[i] /\ active[i] \in Vms \ {resumer, current}
      BY <1>1, <1>2, <1>3, <1>5, <3>1, Nested
    <3>3. sp[active[i]] + 1 = height[active[i]]
      BY <1>1, <3>1 DEF HeightInv
    <3> QED
      BY <1>4, <1>7, <3>2, <3>3
  <2>3. ASSUME NEW c \in Coroutines
        PROVE  /\ status'[c] \in {"none", "ready"} => sp'[c] = height'[c]
               /\ status'[c] = "suspended" => sp'[c] + 1 = height'[c]
    <3>1. CASE c = current
      BY <1>1, <1>2, <1>4, <1>7, <3>1 DEF TypeOK
    <3>2. CASE c # current /\ status[c] # "running"
      <4>0. c # active[n - 1]
        BY <1>1, <1>2, <3>2, Nested
      <4>1. c \in Vms \ {resumer, current} /\ status'[c] = status[c]
        BY <1>1, <1>4, <3>2, <4>0 DEF Vms, TypeOK
      <4> QED
        BY <1>1, <1>4, <1>7, <4>1 DEF HeightInv
    <3>3. CASE c # current /\ status[c] = "running"
      BY <1>1, <1>4, <3>3 DEF TypeOK
    <3> QED
      BY <3>1, <3>2, <3>3
  <2>4. \A v \in Vms : height'[v] <= ARC_STACK_MAX
    BY <1>1, <1>4 DEF HeightInv
  <2>5. Len(active') - 1 = n - 2
    BY <1>2, <1>5
  <2> QED
    BY <1>6, <2>1, <2>2, <2>3, <2>4, <2>5 DEF HeightInv
<1> QED
  BY <1>5, <1>8, <1>9 DEF CoroutineInv

\* An error climbs the C stack.
LEMMA UnwindStep ==
  ASSUME CoroutineInv, Unwind
  PROVE  CoroutineInv'
<1>1. TypeOK /\ NestInv /\ StatusTrue /\ outcome' # "going"
  BY DEF CoroutineInv, Unwind
<1>2. UNCHANGED <<sp, height, halted, switches>>
  BY DEF Unwind
<1>3. CASE current = Main
  BY <1>1, <1>2, <1>3 DEF Unwind, CoroutineInv, TypeOK, NestInv, StatusTrue
<1>4. CASE current # Main
  <2>1. active' = Front(active) /\ status' = [status EXCEPT ![current] = "dead"]
        /\ UNCHANGED outcome
    BY <1>4 DEF Unwind
  <2>2. /\ active' \in Seq(Vms) /\ NestInv' /\ StatusTrue'
        /\ status' \in [Coroutines -> {"none", "ready", "running", "suspended", "dead"}]
    BY <1>1, <1>2, <1>4, <2>1, PopStep
  <2> QED
    BY <1>1, <1>2, <2>1, <2>2 DEF CoroutineInv, TypeOK
<1> QED
  BY <1>3, <1>4

\* OP_CORO_YIELD, and the end of a loop.
LEMMA LeaveStep ==
  ASSUME CoroutineInv, vm_exec_coro_yield \/ arc_vm_continue
  PROVE  CoroutineInv'
<1>0. outcome = "going"
  BY DEF vm_exec_coro_yield, arc_vm_continue, Fetch
<1>1. TypeOK /\ NestInv /\ HeightInv /\ StatusTrue
  BY <1>0 DEF CoroutineInv
<1>2. current \in Vms
  BY <1>0, <1>1, Nested
<1>3. CASE vm_error
  BY <1>1, <1>3, FailStep
<1>4. CASE vm_exec_coro_yield /\ ~ vm_error
  <2> DEFINE popped == [sp EXCEPT ![current] = @ - 1]
  <2>1. sp[current] # 0 /\ sp[current] \in Nat /\ sp[current] - 1 \in Nat
        /\ sp[current] = height[current]
    BY <1>1, <1>2, <1>4 DEF vm_exec_coro_yield, TypeOK, HeightInv
  <2>2. popped \in [Vms -> Nat] /\ popped[current] + 1 = height[current]
        /\ \A v \in Vms \ {current} : popped[v] = sp[v]
    BY <1>1, <1>2, <2>1 DEF TypeOK
  <2>3. CASE current = Main
    <3>1. outcome' = "yield" /\ sp' = popped
          /\ UNCHANGED <<active, status, height, halted, switches>>
      BY <1>4, <2>1, <2>3 DEF vm_exec_coro_yield
    <3> QED
      BY <1>1, <2>2, <3>1 DEF CoroutineInv, TypeOK, NestInv, StatusTrue
  <2>4. CASE current # Main
    <3>1. Back("suspended", popped) /\ UNCHANGED halted
      BY <1>4, <2>1, <2>4 DEF vm_exec_coro_yield
    <3> HIDE DEF popped
    <3> QED
      BY <1>0, <2>2, <2>4, <3>1, BackStep
  <2> QED
    BY <2>3, <2>4
<1>5. CASE arc_vm_continue
  <2>1. CASE current = Main
    BY <1>1, <1>5, <2>1 DEF arc_vm_continue, CoroutineInv, TypeOK, NestInv, StatusTrue
  <2>2. CASE current # Main
    <3>1. Back("dead", sp) /\ UNCHANGED halted /\ sp \in [Vms -> Nat]
      BY <1>1, <1>5, <2>2 DEF arc_vm_continue, TypeOK
    <3> QED
      BY <1>0, <2>2, <3>1, BackStep
  <2> QED
    BY <2>1, <2>2
<1> QED
  BY <1>3, <1>4, <1>5

\* The invariant of programs that do not resume a running coroutine.
LEMMA CoroutineInvariant ==
  ASSUME ~ Reenter
  PROVE  Spec => []CoroutineInv
<1>1. Init => CoroutineInv
  <2> SUFFICES ASSUME Init PROVE CoroutineInv
    OBVIOUS
  <2>1. active \in Seq(Vms) /\ Len(active) = 1 /\ active[1] = Main /\ Main \in Vms
        /\ DOMAIN active = {1}
    BY DEF Init, Vms
  <2>2. halted \in [Vms -> BOOLEAN]
    BY Zenon DEF Init
  <2>3. TypeOK
    BY <2>1, <2>2 DEF Init, TypeOK
  <2>4. NestInv
    BY <2>1 DEF NestInv
  <2>5. HeightInv
    BY <2>1, CoroutineAssumption DEF Init, HeightInv, current, Last, Vms
  <2>6. StatusTrue
    BY <2>1, CoroutineAssumption DEF Init, StatusTrue, ToSet, IsInjective
  <2> QED
    BY <2>3, <2>4, <2>5, <2>6 DEF CoroutineInv
<1>2. CoroutineInv /\ [Next]_vars => CoroutineInv'
  <2> SUFFICES ASSUME CoroutineInv, [Next]_vars PROVE CoroutineInv'
    OBVIOUS
  <2>1. CASE UNCHANGED vars
    BY <2>1 DEF vars, CoroutineInv, TypeOK, NestInv, HeightInv, StatusTrue, current
  <2> QED
    BY <2>1, LocalStep, ResumeStep, LeaveStep, UnwindStep DEF Next
<1> QED
  BY <1>1, <1>2, PTL DEF Spec

-----------------------------------------------------------------------------
\* Whatever the pattern of resumes, yields and returns, the VM that runs has as
\* many values on its stack as its code counts on.
THEOREM HeightsSafe ==
  ASSUME ~ Reenter
  PROVE  Spec => []HeightsAgree
<1>1. CoroutineInv => HeightsAgree
  BY DEF CoroutineInv, HeightInv, HeightsAgree, Fetch
<1> QED
  BY <1>1, CoroutineInvariant, PTL

\* OP_CORO_STATUS says "running" of exactly the coroutines whose loop is on the C
\* stack, and no loop is there twice.
THEOREM StatusSafe ==
  ASSUME ~ Reenter
  PROVE  Spec => []StatusTrue
<1>1. CoroutineInv => StatusTrue
  BY DEF CoroutineInv, StatusTrue
<1> QED
  BY <1>1, CoroutineInvariant, PTL
=============================================================================
