---------------------------- MODULE ServiceProofs ----------------------------
(***************************************************************************)
(* Proofs about Service: for any parser, type checker, compiler, verifier  *)
(* and VM, a result says what happened, and freeing it frees what the      *)
(* stages have allocated; and about the file between the two tools: what   *)
(* is read of it is what was written to it, and arcana-run starts only     *)
(* what arcana-compile has compiled.                                       *)
(***************************************************************************)
EXTENDS Service, TLAPS, WellFoundedInduction

\* The invariant holds before the first stage.
LEMMA InitService ==
  ASSUME Init
  PROVE  ServiceInv
<1>1. TypeOK
  BY DEF Init, TypeOK, result_new
<1>2. FlowInv
  BY DEF Init, FlowInv, Service, OnTheWay, result_new
<1>3. OwnedInv
  BY DEF Init, OwnedInv, result_new
<1>4. ServiceContract
  BY DEF Init, ServiceContract
<1> QED
  BY <1>1, <1>2, <1>3, <1>4 DEF ServiceInv

\* A stage that sets a flag keeps the type of the result.
LEMMA FlagSet ==
  ASSUME TypeOK, NEW x \in {"graph", "tc", "cr", "vm"}
  PROVE  /\ live \cup {x} \subseteq {"graph", "tc", "cr", "vm"}
         /\ result.has \cup {x} \in SUBSET {"graph", "tc", "cr", "vm"}
         /\ result.has \cup {x} = {y \in {"graph", "tc", "cr", "vm"} : y \in result.has \/ y = x}
  BY DEF TypeOK

\* The result and the resources keep their types.
LEMMA StageTypes ==
  ASSUME ServiceInv, Stage
  PROVE  TypeOK'
<1> USE DEF ServiceInv, TypeOK
<1>1. CASE stage_parse
  <2>1. live' \subseteq {"graph", "tc", "cr", "vm"} /\ UNCHANGED entry
    BY <1>1, FlagSet DEF stage_parse
  <2>2. CASE text.parses
    <3>1. pc' = "validate" /\ result' = [[result EXCEPT !.stage = "parse"] EXCEPT !.has = @ \cup {"graph"}]
      BY <1>1, <2>2 DEF stage_parse, Reached
    <3> QED
      BY <2>1, <3>1, FlagSet
  <2>3. CASE ~ text.parses
    BY <1>1, <2>1, <2>3 DEF stage_parse, Failed, Ended, result_fail
  <2> QED
    BY <2>2, <2>3
<1>2. CASE stage_validate
  BY <1>2 DEF stage_validate, Failed, Ended, result_fail, Reached
<1>3. CASE stage_typecheck
  BY <1>3, FlagSet DEF stage_typecheck
<1>4. CASE dump_hir
  BY <1>4 DEF dump_hir
<1>5. CASE stage_compile
  <2>1. live' \subseteq {"graph", "tc", "cr", "vm"} /\ UNCHANGED entry
    BY <1>5, FlagSet DEF stage_compile
  <2>2. CASE image'.trap
    BY <1>5, <2>1, <2>2 DEF stage_compile
  <2>3. CASE ~ image'.trap
    <3> DEFINE had == [result EXCEPT !.stage = "compile", !.has = @ \cup {"cr"}]
    <3>1. \/ pc' = "verify" /\ result' = had
          \/ pc' = Ended /\ result' = [had EXCEPT !.ok = FALSE, !.error = TRUE]
      BY <1>5, <2>3 DEF stage_compile
    <3> QED
      BY <2>1, <3>1, FlagSet DEF Ended
  <2> QED
    BY <2>2, <2>3
<1>6. CASE stage_verify
  BY <1>6 DEF stage_verify, Failed, Ended, result_fail, Reached
<1>7. CASE WriteFile
  BY <1>7 DEF WriteFile
<1>8. CASE ReadFile
  BY <1>8 DEF ReadFile
<1>9. CASE stage_run
  BY <1>9, FlagSet DEF stage_run
<1>10. CASE RunEnds
  <2>1. pc' = Ended /\ UNCHANGED <<entry, live>>
    BY <1>10 DEF RunEnds, Failed
  <2>2. CASE vm.status = "error"
    BY <1>10, <2>1, <2>2 DEF RunEnds, Failed, Ended, result_fail
  <2>3. CASE vm.status # "error"
    <3> DEFINE s == Service
               w == arc_vm_result
    <3>1. s \in BOOLEAN
      BY DEF Service
    <3>2. result' = [[result EXCEPT !.stage = "run"] EXCEPT !.ok = s, !.value = w]
      BY <1>10, <2>3 DEF RunEnds, Reached
    <3> HIDE DEF s, w
    <3>3. result'.value = w
      BY <3>2
    <3>4. result' \in [stage : {"none", "parse", "validate", "typecheck", "compile", "verify", "run"},
                       ok : BOOLEAN, error : BOOLEAN, has : SUBSET {"graph", "tc", "cr", "vm"},
                       value : {w}]
      BY <3>1, <3>2
    <3> QED
      BY <2>1, <3>3, <3>4 DEF Ended
  <2> QED
    BY <2>2, <2>3
<1>11. CASE arc_service_free
  BY <1>11 DEF arc_service_free
<1> QED
  BY <1>1, <1>2, <1>3, <1>4, <1>5, <1>6, <1>7, <1>8, <1>9, <1>10, <1>11 DEF Stage

\* What the parser leaves in the result.
LEMMA ParseStep ==
  ASSUME TypeOK, stage_parse
  PROVE  /\ pc = "parse" /\ live' = live \cup {"graph"} /\ UNCHANGED <<text, entry>>
         /\ \/ text.parses /\ pc' = "validate" /\ result'.has = result.has \cup {"graph"}
            \/ ~ text.parses /\ pc' = Ended /\ result'.has = result.has
<1>1. CASE text.parses
  <2>1. result' = [[result EXCEPT !.stage = "parse"] EXCEPT !.has = @ \cup {"graph"}]
    BY <1>1 DEF stage_parse, Reached
  <2>2. result'.has = result.has \cup {"graph"}
    BY <2>1 DEF TypeOK
  <2> QED
    BY <1>1, <2>2 DEF stage_parse
<1>2. CASE ~ text.parses
  BY <1>2 DEF stage_parse, Failed, result_fail, TypeOK
<1> QED
  BY <1>1, <1>2

\* What the compiler leaves in the result.
LEMMA CompileStep ==
  ASSUME TypeOK, ~ result.ok, stage_compile
  PROVE  /\ pc = "compile" /\ live' = live \cup {"cr"} /\ UNCHANGED <<text, entry, vm>>
         /\ \/ pc' = "trapped"
            \/ /\ (pc' = "verify" /\ image'.success) \/ pc' = Ended
               /\ result'.has = result.has \cup {"cr"}
               /\ ~ result'.ok
<1>1. CASE image'.trap
  BY <1>1 DEF stage_compile
<1>2. CASE ~ image'.trap
  <2> DEFINE had == [result EXCEPT !.stage = "compile", !.has = @ \cup {"cr"}]
  <2>1. had.has = result.has \cup {"cr"} /\ had.ok = result.ok
    BY DEF TypeOK
  <2>2. [had EXCEPT !.ok = FALSE, !.error = TRUE].has = had.has
        /\ [had EXCEPT !.ok = FALSE, !.error = TRUE].ok = FALSE
    BY DEF TypeOK
  <2>3. CASE image'.success
    BY <1>2, <2>1, <2>3 DEF stage_compile
  <2>4. CASE ~ image'.success
    BY <1>2, <2>1, <2>2, <2>4 DEF stage_compile
  <2> QED
    BY <2>3, <2>4
<1> QED
  BY <1>1, <1>2

\* Where the text goes from stage to stage.
LEMMA StageFlow ==
  ASSUME ServiceInv, Stage
  PROVE  FlowInv'
<1> USE DEF ServiceInv, TypeOK, FlowInv, Service, OnTheWay
<1>1. CASE stage_parse
  BY <1>1 DEF stage_parse, Failed, Ended, result_fail, Reached
<1>2. CASE stage_validate
  BY <1>2 DEF stage_validate, Failed, Ended, result_fail, Reached
<1>3. CASE stage_typecheck
  BY <1>3 DEF stage_typecheck
<1>4. CASE dump_hir
  BY <1>4 DEF dump_hir
<1>5. CASE stage_compile
  <2>1. pc = "compile" /\ ~ result.ok
    BY <1>5 DEF stage_compile
  <2> QED
    BY <1>5, <2>1, CompileStep DEF Ended
<1>6. CASE stage_verify
  BY <1>6 DEF stage_verify, Failed, Ended, result_fail, Reached
<1>7. CASE WriteFile
  BY <1>7 DEF WriteFile
<1>8. CASE ReadFile
  BY <1>8 DEF ReadFile
<1>9. CASE stage_run
  BY <1>9, FlagSet DEF stage_run, vm_idle
<1>10. CASE RunEnds
  BY <1>10 DEF RunEnds, Failed, Ended
<1>11. CASE arc_service_free
  BY <1>11 DEF arc_service_free
<1> QED
  BY <1>1, <1>2, <1>3, <1>4, <1>5, <1>6, <1>7, <1>8, <1>9, <1>10, <1>11 DEF Stage

\* A stage sets the flag of what it allocates.
LEMMA StageOwns ==
  ASSUME ServiceInv, Stage
  PROVE  OwnedInv'
<1> USE DEF ServiceInv, TypeOK, FlowInv, OwnedInv, Service, OnTheWay
<1>1. CASE stage_parse
  BY <1>1, ParseStep DEF Ended
<1>2. CASE stage_validate
  BY <1>2 DEF stage_validate, Failed, Ended, result_fail, Reached
<1>3. CASE stage_typecheck
  BY <1>3, FlagSet DEF stage_typecheck
<1>4. CASE dump_hir
  BY <1>4 DEF dump_hir
<1>5. CASE stage_compile
  <2>1. pc = "compile" /\ ~ result.ok
    BY <1>5 DEF stage_compile
  <2> QED
    BY <1>5, <2>1, CompileStep DEF Ended
<1>6. CASE stage_verify
  BY <1>6 DEF stage_verify, Failed, Ended, result_fail, Reached
<1>7. CASE WriteFile
  BY <1>7 DEF WriteFile
<1>8. CASE ReadFile
  BY <1>8 DEF ReadFile
<1>9. CASE stage_run
  BY <1>9, FlagSet DEF stage_run
<1>10. CASE RunEnds
  BY <1>10 DEF RunEnds, Failed, Ended, result_fail, Reached
<1>11. CASE arc_service_free
  BY <1>11 DEF arc_service_free
<1> QED
  BY <1>1, <1>2, <1>3, <1>4, <1>5, <1>6, <1>7, <1>8, <1>9, <1>10, <1>11 DEF Stage

\* A stage that ends an entry leaves a result that says so.
LEMMA StageContract ==
  ASSUME ServiceInv, Stage
  PROVE  ServiceContract'
<1> USE DEF ServiceInv, TypeOK, FlowInv, ServiceContract, Service, OnTheWay, Goal
<1>1. CASE stage_parse
  BY <1>1 DEF stage_parse, Failed, Ended, result_fail, Reached
<1>2. CASE stage_validate
  BY <1>2 DEF stage_validate, Failed, Ended, result_fail, Reached
<1>3. CASE stage_typecheck
  BY <1>3 DEF stage_typecheck
<1>4. CASE dump_hir
  BY <1>4 DEF dump_hir
<1>5. CASE stage_compile
  BY <1>5 DEF stage_compile, Ended
<1>6. CASE stage_verify
  BY <1>6 DEF stage_verify, Failed, Ended, result_fail, Reached
<1>7. CASE WriteFile
  BY <1>7 DEF WriteFile
<1>8. CASE ReadFile
  BY <1>8 DEF ReadFile
<1>9. CASE stage_run
  BY <1>9 DEF stage_run
<1>10. CASE RunEnds
  BY <1>10 DEF RunEnds, Failed, Ended, result_fail, Reached, arc_vm_result
<1>11. CASE arc_service_free
  BY <1>11 DEF arc_service_free, OwnedInv
<1> QED
  BY <1>1, <1>2, <1>3, <1>4, <1>5, <1>6, <1>7, <1>8, <1>9, <1>10, <1>11 DEF Stage

\* A step of the VM changes nothing that the service looks at but its status.
LEMMA VmKeeps ==
  ASSUME ServiceInv, AnyVmStep
  PROVE  ServiceInv'
<1>1. TypeOK' /\ OwnedInv'
  BY DEF ServiceInv, AnyVmStep, OnlyVm, TypeOK, OwnedInv, Service, OnTheWay
<1>2. FlowInv'
  BY DEF ServiceInv, AnyVmStep, OnlyVm, FlowInv, Service, OnTheWay
<1>3. ServiceContract'
  BY DEF ServiceInv, AnyVmStep, OnlyVm, ServiceContract
<1> QED
  BY <1>1, <1>2, <1>3 DEF ServiceInv

\* Every step keeps the invariant.
LEMMA ServiceStep ==
  ASSUME ServiceInv, [Stage \/ AnyVmStep]_vars
  PROVE  ServiceInv'
<1>1. ASSUME Stage PROVE ServiceInv'
  BY <1>1, StageTypes, StageFlow, StageOwns, StageContract DEF ServiceInv
<1>2. ASSUME UNCHANGED vars PROVE ServiceInv'
  BY <1>2 DEF vars, ServiceInv, TypeOK, FlowInv, OwnedInv, ServiceContract, Service, OnTheWay,
              Goal, arc_vm_result
<1> QED
  BY <1>1, <1>2, VmKeeps

\* For any text, and whatever the parser, the type checker, the compiler, the
\* verifier and the VM make of it: the result of arc_service_run, arc_service_check
\* and arc_service_compile is good only if the entry's last stage was passed, has
\* an error otherwise, and arc_service_free leaves nothing allocated but the graph of a
\* text that does not parse.
THEOREM ServiceSafe == ServiceSpec => []ServiceContract
<1>1. Init => ServiceInv
  BY InitService
<1>2. ServiceInv /\ [Stage \/ AnyVmStep]_vars => ServiceInv'
  BY ServiceStep
<1>3. ServiceInv => ServiceContract
  BY DEF ServiceInv
<1> QED
  BY <1>1, <1>2, <1>3, PTL DEF ServiceSpec

-----------------------------------------------------------------------------
(* The file.  Induction over numbers is by the least counterexample.         *)

\* A set of numbers that is not empty has a least one.
LEMMA Least ==
  ASSUME NEW T, T \subseteq Nat, T # {}
  PROVE  \E k \in T : \A j \in T : k <= j
<1>1. IsWellFoundedOn(OpToRel(<, Nat), Nat)
  BY NatLessThanWellFounded
<1>2. PICK k \in T : \A j \in T : ~ (<<j, k>> \in OpToRel(<, Nat))
  BY <1>1, WFMin
<1>3. \A j \in T : ~ (j < k)
  BY <1>2 DEF OpToRel
<1> QED
  BY <1>3

\* A set of numbers that has 0 and with every number the next one has them all.
LEMMA Induct ==
  ASSUME NEW T, 0 \in T, \A k \in Nat : k \in T => k + 1 \in T
  PROVE  \A k \in Nat : k \in T
<1> SUFFICES ASSUME Nat \ T # {} PROVE FALSE
  OBVIOUS
<1>1. PICK k \in Nat \ T : \A j \in Nat \ T : k <= j
  BY Least
<1>2. k - 1 \in Nat /\ k - 1 \notin Nat \ T /\ (k - 1) + 1 = k
  BY <1>1
<1> QED
  BY <1>1, <1>2

\* The elements of a concatenation.
LEMMA Concat ==
  ASSUME NEW S, NEW a \in Seq(S), NEW b \in Seq(S)
  PROVE  /\ Len(a) \in Nat /\ Len(b) \in Nat
         /\ a \o b \in Seq(S) /\ Len(a \o b) = Len(a) + Len(b)
         /\ \A j \in 1 .. Len(a) : (a \o b)[j] = a[j]
         /\ \A j \in 1 .. Len(b) : (a \o b)[Len(a) + j] = b[j]
  OBVIOUS

\* The members of a sequence of sequences.
LEMMA PartsAreSequences ==
  ASSUME NEW S, NEW ss \in Seq(Seq(S))
  PROVE  Len(ss) \in Nat /\ \A i \in 1 .. Len(ss) : ss[i] \in Seq(S)
  OBVIOUS

\* What FlattenSeq computes: the concatenation of the first i, for every i.
Sums(c, ss, S) ==
  /\ ss \in Seq(Seq(S))
  /\ c \in [0 .. Len(ss) -> Seq(S)]
  /\ c[0] = <<>>
  /\ \A i \in 1 .. Len(ss) : c[i] = c[i - 1] \o ss[i]

\* FlattenSeq is the last of those concatenations.
LEMMA FlattenSums ==
  ASSUME NEW S, NEW ss \in Seq(Seq(S))
  PROVE  \E c : Sums(c, ss, S) /\ FlattenSeq(ss) = c[Len(ss)]
<1>1. CASE Len(ss) = 0
  <2> DEFINE c == [i \in 0 .. 0 |-> <<>>]
  <2>1. Sums(c, ss, S)
    BY <1>1 DEF Sums
  <2>2. FlattenSeq(ss) = c[Len(ss)]
    BY <1>1 DEF FlattenSeq
  <2> QED
    BY <2>1, <2>2
<1>2. CASE Len(ss) # 0
  <2> DEFINE Eq(f, k) == f = [i \in 1 .. k |-> IF i = 1 THEN ss[i] ELSE f[i - 1] \o ss[i]]
             T == {k \in Nat : \E f : Eq(f, k)}
  <2>1. 0 \in T
    <3>1. Eq([i \in 1 .. 0 |-> 0], 0)
      OBVIOUS
    <3> QED
      BY <3>1
  <2>2. ASSUME NEW k \in Nat, k \in T PROVE k + 1 \in T
    <3>1. PICK f : Eq(f, k)
      BY <2>2
    <3> DEFINE g == [i \in 1 .. k + 1 |-> IF i = k + 1 THEN IF k = 0 THEN ss[1] ELSE f[k] \o ss[k + 1] ELSE f[i]]
    <3>2. ASSUME NEW i \in 1 .. k + 1
          PROVE  g[i] = IF i = 1 THEN ss[i] ELSE g[i - 1] \o ss[i]
      <4>1. CASE i = k + 1
        <5>1. k # 0 => g[i - 1] = f[k]
          BY <4>1
        <5> QED
          BY <4>1, <5>1
      <4>2. CASE i # k + 1
        <5>1. i \in 1 .. k /\ g[i] = f[i] /\ (i # 1 => i - 1 \in 1 .. k /\ g[i - 1] = f[i - 1])
          BY <4>2
        <5>2. f[i] = IF i = 1 THEN ss[i] ELSE f[i - 1] \o ss[i]
          BY <3>1, <5>1
        <5> HIDE DEF g
        <5> QED
          BY <5>1, <5>2
      <4> QED
        BY <4>1, <4>2
    <3>3. Eq(g, k + 1)
      <4> DEFINE h == [i \in 1 .. k + 1 |-> IF i = 1 THEN ss[i] ELSE g[i - 1] \o ss[i]]
      <4>1. \A i \in 1 .. k + 1 : g[i] = h[i]
        <5> HIDE DEF g
        <5> QED
          BY <3>2
      <4>2. g = h
        BY <4>1
      <4> QED
        BY <4>2
    <3> HIDE DEF Eq, g
    <3> QED
      BY <3>3
  <2>3. \A k \in Nat : k \in T
    <3> HIDE DEF T
    <3> QED
      BY <2>1, <2>2, Induct
  <2> DEFINE f == CHOOSE f : Eq(f, Len(ss))
  <2>4. Eq(f, Len(ss))
    <3>1. Len(ss) \in Nat
      BY PartsAreSequences
    <3>2. \E g : Eq(g, Len(ss))
      BY <2>3, <3>1
    <3> HIDE DEF Eq
    <3> QED
      BY <3>2
  <2>5. FlattenSeq(ss) = f[Len(ss)]
    BY <1>2 DEF FlattenSeq
  <2> HIDE DEF f
  <2> DEFINE U == {k \in Nat : k \in 1 .. Len(ss) => f[k] \in Seq(S)}
  <2>6. 0 \in U
    OBVIOUS
  <2>7. ASSUME NEW k \in Nat, k \in U PROVE k + 1 \in U
    <3> SUFFICES ASSUME k + 1 \in 1 .. Len(ss) PROVE f[k + 1] \in Seq(S)
      OBVIOUS
    <3>1. f[k + 1] = IF k + 1 = 1 THEN ss[k + 1] ELSE f[(k + 1) - 1] \o ss[k + 1]
      BY <2>4
    <3>2. ss[k + 1] \in Seq(S)
      BY PartsAreSequences
    <3>3. CASE k = 0
      BY <3>1, <3>2, <3>3
    <3>4. CASE k # 0
      <4>1. k \in 1 .. Len(ss) /\ (k + 1) - 1 = k /\ k + 1 # 1
        BY <3>4, PartsAreSequences
      <4>2. f[k] \in Seq(S)
        BY <2>7, <4>1
      <4>3. f[k + 1] = f[k] \o ss[k + 1]
        BY <3>1, <4>1, Zenon
      <4> QED
        BY <3>2, <4>2, <4>3, Concat
    <3> QED
      BY <3>3, <3>4
  <2>8. \A k \in Nat : k \in U
    <3> HIDE DEF U
    <3> QED
      BY <2>6, <2>7, Induct
  <2> DEFINE c == [i \in 0 .. Len(ss) |-> IF i = 0 THEN <<>> ELSE f[i]]
  <2>9. c \in [0 .. Len(ss) -> Seq(S)]
    BY <2>8
  <2>10. ASSUME NEW i \in 1 .. Len(ss) PROVE c[i] = c[i - 1] \o ss[i]
    <3>1. f[i] = IF i = 1 THEN ss[i] ELSE f[i - 1] \o ss[i]
      BY <2>4
    <3>2. ss[i] \in Seq(S) /\ i \in 0 .. Len(ss) /\ i # 0 /\ i - 1 \in 0 .. Len(ss)
      BY PartsAreSequences
    <3>3. <<>> \o ss[i] = ss[i]
      BY <3>2
    <3>4. c[i] = f[i] /\ c[i - 1] = IF i = 1 THEN <<>> ELSE f[i - 1]
      BY <3>2
    <3> HIDE DEF c
    <3> QED
      BY <3>1, <3>3, <3>4
  <2>11. c[0] = <<>>
    BY PartsAreSequences
  <2>12. c[Len(ss)] = f[Len(ss)]
    BY <1>2, PartsAreSequences
  <2> HIDE DEF c
  <2>13. Sums(c, ss, S)
    BY <2>9, <2>10, <2>11 DEF Sums
  <2> QED
    BY <2>5, <2>12, <2>13
<1> QED
  BY <1>1, <1>2

\* What is written first stays where it is.
LEMMA SumsPrefix ==
  ASSUME NEW S, NEW ss, NEW c, Sums(c, ss, S), NEW i \in 0 .. Len(ss)
  PROVE  LET all == c[Len(ss)] IN
         Len(c[i]) <= Len(all) /\ \A j \in 1 .. Len(c[i]) : all[j] = c[i][j]
<1>0. ss \in Seq(Seq(S))
  BY DEF Sums
<1> DEFINE T == {k \in Nat : i + k \in 0 .. Len(ss) =>
                   Len(c[i]) <= Len(c[i + k]) /\ \A j \in 1 .. Len(c[i]) : c[i + k][j] = c[i][j]}
<1>1. 0 \in T
  BY <1>0 DEF Sums
<1>2. ASSUME NEW k \in Nat, k \in T PROVE k + 1 \in T
  <2> SUFFICES ASSUME i + (k + 1) \in 0 .. Len(ss)
               PROVE  /\ Len(c[i]) <= Len(c[i + (k + 1)])
                      /\ \A j \in 1 .. Len(c[i]) : c[i + (k + 1)][j] = c[i][j]
    OBVIOUS
  <2>0. /\ i + (k + 1) \in 1 .. Len(ss) /\ i + k \in 0 .. Len(ss) /\ (i + (k + 1)) - 1 = i + k
        /\ ss[i + (k + 1)] \in Seq(S)
    BY <1>0, PartsAreSequences
  <2>1. c[i + (k + 1)] = c[i + k] \o ss[i + (k + 1)]
    BY <2>0 DEF Sums
  <2>2. c[i] \in Seq(S) /\ c[i + k] \in Seq(S)
    BY <2>0 DEF Sums
  <2>3. Len(c[i]) <= Len(c[i + k]) /\ \A j \in 1 .. Len(c[i]) : c[i + k][j] = c[i][j]
    BY <1>2, <2>0
  <2> DEFINE a == c[i + k]
             b == ss[i + (k + 1)]
  <2>4. /\ Len(a) \in Nat /\ Len(b) \in Nat /\ Len(a \o b) = Len(a) + Len(b)
        /\ \A j \in 1 .. Len(a) : (a \o b)[j] = a[j]
    BY <2>0, <2>2, Concat
  <2>5. Len(c[i]) \in Nat
    BY <2>2
  <2>6. Len(c[i]) <= Len(a) /\ \A j \in 1 .. Len(c[i]) : a[j] = c[i][j]
    BY <2>3
  <2>7. c[i + (k + 1)] = a \o b
    BY <2>1
  <2> HIDE DEF a, b
  <2>8. Len(c[i]) <= Len(a \o b)
    BY <2>4, <2>5, <2>6
  <2>9. ASSUME NEW j \in 1 .. Len(c[i]) PROVE (a \o b)[j] = c[i][j]
    <3>1. j \in 1 .. Len(a)
      BY <2>4, <2>5, <2>6
    <3> QED
      BY <3>1, <2>4, <2>6
  <2> QED
    BY <2>7, <2>8, <2>9
<1>3. \A k \in Nat : k \in T
  <2> HIDE DEF T
  <2> QED
    BY <1>1, <1>2, Induct
<1>4. Len(ss) - i \in T /\ i + (Len(ss) - i) = Len(ss)
  BY <1>0, <1>3
<1> QED
  BY <1>4

\* The i-th part is found behind those before it.
PartAt(c, ss, i) ==
  /\ Len(c[i - 1]) \in Nat /\ Len(ss[i]) \in Nat
  /\ Len(c[i]) = Len(c[i - 1]) + Len(ss[i])
  /\ Len(c[i]) <= Len(c[Len(ss)])
  /\ \A j \in 1 .. Len(ss[i]) : c[Len(ss)][Len(c[i - 1]) + j] = ss[i][j]
LEMMA SumsPart ==
  ASSUME NEW S, NEW ss, NEW c, Sums(c, ss, S), NEW i \in 1 .. Len(ss)
  PROVE  PartAt(c, ss, i)
<1>0. i \in 0 .. Len(ss) /\ i - 1 \in 0 .. Len(ss) /\ ss[i] \in Seq(S)
  BY PartsAreSequences DEF Sums
<1>1. c[i] = c[i - 1] \o ss[i] /\ c[i] \in Seq(S) /\ c[i - 1] \in Seq(S) /\ ss[i] \in Seq(S)
  BY <1>0 DEF Sums
<1>2. Len(c[i]) <= Len(c[Len(ss)]) /\ \A j \in 1 .. Len(c[i]) : c[Len(ss)][j] = c[i][j]
  BY <1>0, SumsPrefix
<1> DEFINE a == c[i - 1]
           b == ss[i]
<1>5. a \in Seq(S) /\ b \in Seq(S) /\ c[i] = a \o b
  BY <1>1
<1> HIDE DEF a, b
<1>3. /\ Len(a) \in Nat /\ Len(b) \in Nat /\ Len(a \o b) = Len(a) + Len(b)
      /\ \A j \in 1 .. Len(b) : (a \o b)[Len(a) + j] = b[j]
  BY <1>5, Concat
<1>4. ASSUME NEW j \in 1 .. Len(b) PROVE c[Len(ss)][Len(a) + j] = b[j]
  <2>1. Len(a) + j \in 1 .. Len(c[i])
    BY <1>3, <1>5
  <2>2. c[i][Len(a) + j] = b[j]
    BY <1>3, <1>5
  <2> QED
    BY <1>2, <2>1, <2>2
<1> QED
  BY <1>2, <1>3, <1>4, <1>5 DEF a, b, PartAt

\* A sequence is one over its own elements.
LEMMA OwnRange ==
  ASSUME NEW S, NEW s \in Seq(S)
  PROVE  s \in Seq(Range(s))
<1>1. \A i \in 1 .. Len(s) : s[i] \in Range(s)
  BY DEF Range
<1> QED
  BY <1>1

IsReader(r) ==
  /\ r = [pos |-> r.pos, got |-> r.got, ok |-> r.ok, constants |-> r.constants, functions |-> r.functions]
  /\ r.ok \in BOOLEAN
\* Behind position p the file has these fields, as far as it goes.
Holds(data, p, fields) ==
  \A j \in 1 .. Len(fields) : p + j <= Len(data) => data[p + j] = fields[j]

\* q is what r becomes by reading fields of these widths, or one of this width.
FieldsRead(q, data, r, widths) ==
  LET n == Len(widths) IN
  /\ IsReader(q)
  /\ q.ok <=> /\ r.ok /\ r.pos + n <= Len(data)
              /\ \A i \in 1 .. n : data[r.pos + i][1] = widths[i]
  /\ q.ok => q.pos = r.pos + n /\ q.got = [i \in 1 .. n |-> data[r.pos + i][2]]
  /\ q.constants = r.constants /\ q.functions = r.functions
FieldRead(q, data, r, width) ==
  /\ IsReader(q)
  /\ q.ok <=> r.ok /\ r.pos + 1 <= Len(data) /\ data[r.pos + 1][1] = width
  /\ q.ok => q.pos = r.pos + 1 /\ q.got[1] = data[r.pos + 1][2]
  /\ q.constants = r.constants /\ q.functions = r.functions

\* What ReadFields makes of a reader.
LEMMA ReadFieldsIs ==
  ASSUME NEW data, NEW r, IsReader(r), NEW widths
  PROVE  FieldsRead(ReadFields(data, r, widths), data, r, widths)
<1> DEFINE n == Len(widths)
           good == /\ r.pos + n <= Len(data)
                   /\ \A i \in 1 .. n : data[r.pos + i][1] = widths[i]
           values == [i \in 1 .. n |-> data[r.pos + i][2]]
           q == ReadFields(data, r, widths)
<1>1. q = IF r.ok /\ good THEN [r EXCEPT !.pos = @ + n, !.got = values] ELSE [r EXCEPT !.ok = FALSE]
  BY DEF ReadFields
<1> HIDE DEF n, good, values, q
<1>2. CASE r.ok /\ good
  <2>1. q = [pos |-> r.pos + n, got |-> values, ok |-> r.ok, constants |-> r.constants,
             functions |-> r.functions]
    BY <1>1, <1>2 DEF IsReader
  <2> QED
    BY <2>1, <1>2 DEF FieldsRead, IsReader, n, good, values, q
<1>3. CASE ~ (r.ok /\ good)
  <2>1. q = [pos |-> r.pos, got |-> r.got, ok |-> FALSE, constants |-> r.constants,
             functions |-> r.functions]
    BY <1>1, <1>3 DEF IsReader
  <2> QED
    BY <2>1, <1>3 DEF FieldsRead, IsReader, n, good, values, q
<1> QED
  BY <1>2, <1>3

\* The same for a single field.
LEMMA ReadField ==
  ASSUME NEW data, NEW r, IsReader(r), NEW width
  PROVE  FieldRead(ReadFields(data, r, <<width>>), data, r, width)
<1> DEFINE widths == <<width>>
           n == Len(widths)
           q == ReadFields(data, r, widths)
<1>1. n = 1 /\ widths[1] = width
  OBVIOUS
<1> HIDE DEF widths
<1>2. /\ IsReader(q)
      /\ q.ok <=> /\ r.ok /\ r.pos + n <= Len(data)
                  /\ \A i \in 1 .. n : data[r.pos + i][1] = widths[i]
      /\ q.ok => q.pos = r.pos + n /\ q.got = [i \in 1 .. n |-> data[r.pos + i][2]]
      /\ q.constants = r.constants /\ q.functions = r.functions
  <2>1. FieldsRead(q, data, r, widths)
    BY ReadFieldsIs
  <2> QED
    BY <2>1 DEF FieldsRead
<1> HIDE DEF n, q
<1>3. q.ok => q.pos = r.pos + 1 /\ q.got[1] = data[r.pos + 1][2]
  BY <1>1, <1>2
<1>4. (\A i \in 1 .. n : data[r.pos + i][1] = widths[i]) <=> data[r.pos + 1][1] = width
  BY <1>1
<1> QED
  BY <1>1, <1>2, <1>3, <1>4 DEF q, widths, FieldRead

\* A reader that has failed reads no constant.
LEMMA ReadConstantFails ==
  ASSUME NEW data, NEW r, IsReader(r), ~ r.ok
  PROVE  IsReader(read_constant(data, r)) /\ ~ read_constant(data, r).ok
<1> DEFINE tag == ReadFields(data, r, <<1>>)
<1>1. IsReader(tag) /\ ~ tag.ok
  <2>1. FieldsRead(tag, data, r, <<1>>)
    BY ReadFieldsIs
  <2> QED
    BY <2>1 DEF FieldsRead
<1>2. read_constant(data, r) = tag
  BY <1>1 DEF read_constant
<1> QED
  BY <1>1, <1>2

\* The value that follows a tag, for any tag.
LEMMA WrittenConstant ==
  ASSUME NEW v, Constant(v)
  PROVE  LET w == WriteConstant(v)
             k == Len(ConstantWidths(v[1])) IN
         /\ k \in 0 .. 2 /\ Len(w) = k + 1
         /\ w[1] = <<1, v[1]>>
         /\ \A i \in 1 .. k : w[i + 1][1] = ConstantWidths(v[1])[i]
         /\ k > 0 => w[k + 1][2] = v[2]
         /\ ConstantWidths(v[1]) = <<>> <=> k = 0
         /\ v = <<v[1], IF k = 0 THEN 0 ELSE v[2]>>
<1>1. CASE v[1] = "null"
  BY <1>1 DEF Constant, WriteConstant, ConstantWidths
<1>2. CASE v[1] = "bool"
  BY <1>2 DEF Constant, WriteConstant, ConstantWidths
<1>3. CASE v[1] \in {"i64", "f64"}
  BY <1>3 DEF Constant, WriteConstant, ConstantWidths
<1>4. CASE v[1] = "str"
  BY <1>4 DEF Constant, WriteConstant, ConstantWidths
<1> QED
  BY <1>1, <1>2, <1>3, <1>4 DEF Constant, ConstantTags

\* A constant that was written is read, and put into the pool, unless the file ends.
LEMMA ReadConstantIs ==
  ASSUME NEW data, Len(data) \in Nat, NEW r, IsReader(r), r.ok, r.pos \in Nat,
         NEW v, Constant(v), Holds(data, r.pos, WriteConstant(v)), ~ Contains(r.constants, v)
  PROVE  LET q == read_constant(data, r)
             k == Len(WriteConstant(v)) IN
         /\ IsReader(q)
         /\ q.ok <=> r.pos + k <= Len(data)
         /\ q.ok => /\ q.pos = r.pos + k
                    /\ q.constants = Append(r.constants, v) /\ q.functions = r.functions
<1> DEFINE w == WriteConstant(v)
           tag == ReadFields(data, r, <<1>>)
           widths == ConstantWidths(tag.got[1])
           value == ReadFields(data, tag, widths)
           x == <<tag.got[1], IF widths = <<>> THEN 0 ELSE value.got[Len(widths)]>>
           q == read_constant(data, r)
           k == Len(ConstantWidths(v[1]))
<1>1. q = IF ~ tag.ok THEN tag
          ELSE IF tag.got[1] \notin ConstantTags THEN [tag EXCEPT !.ok = FALSE]
          ELSE IF ~ value.ok THEN value
          ELSE PoolAdd(value, x)
  BY DEF read_constant
<1>2. /\ k \in 0 .. 2 /\ Len(w) = k + 1 /\ w[1] = <<1, v[1]>>
      /\ \A i \in 1 .. k : w[i + 1][1] = ConstantWidths(v[1])[i]
      /\ k > 0 => w[k + 1][2] = v[2]
      /\ ConstantWidths(v[1]) = <<>> <=> k = 0
      /\ v = <<v[1], IF k = 0 THEN 0 ELSE v[2]>>
  BY WrittenConstant
<1>3. /\ IsReader(tag)
      /\ tag.ok <=> r.ok /\ r.pos + 1 <= Len(data) /\ data[r.pos + 1][1] = 1
      /\ tag.ok => tag.pos = r.pos + 1 /\ tag.got[1] = data[r.pos + 1][2]
      /\ tag.constants = r.constants /\ tag.functions = r.functions
  <2>1. FieldRead(tag, data, r, 1)
    BY ReadField
  <2> QED
    BY <2>1 DEF FieldRead
<1>4. /\ IsReader(value)
      /\ value.ok <=> /\ tag.ok /\ tag.pos + Len(widths) <= Len(data)
                      /\ \A i \in 1 .. Len(widths) : data[tag.pos + i][1] = widths[i]
      /\ value.ok => /\ value.pos = tag.pos + Len(widths)
                     /\ value.got = [i \in 1 .. Len(widths) |-> data[tag.pos + i][2]]
      /\ value.constants = tag.constants /\ value.functions = tag.functions
  <2>1. FieldsRead(value, data, tag, widths)
    BY <1>3, ReadFieldsIs
  <2> QED
    BY <2>1 DEF FieldsRead
<1> HIDE DEF tag, value, q, w, k, x
<1>5. \A j \in 1 .. k + 1 : r.pos + j <= Len(data) => data[r.pos + j] = w[j]
  <2>1. \A j \in 1 .. Len(w) : r.pos + j <= Len(data) => data[r.pos + j] = w[j]
    BY DEF Holds, w
  <2> QED
    BY <1>2, <2>1
<1>6. tag.ok <=> r.pos + 1 <= Len(data)
  <2>1. r.pos + 1 <= Len(data) => data[r.pos + 1][1] = 1
    BY <1>2, <1>5
  <2> QED
    BY <1>3, <2>1
<1>7. CASE ~ tag.ok
  <2>1. q = tag
    BY <1>1, <1>7
  <2> QED
    BY <1>2, <1>3, <1>6, <1>7, <2>1 DEF q, w
<1>8. CASE tag.ok
  <2>1. tag.pos = r.pos + 1 /\ tag.got[1] = v[1] /\ v[1] \in ConstantTags
    BY <1>2, <1>3, <1>5, <1>6, <1>8 DEF Constant
  <2>2. Len(widths) = k /\ widths = ConstantWidths(v[1])
    BY <2>1 DEF k
  <2> HIDE DEF widths
  <2>3. \A i \in 1 .. k : r.pos + (k + 1) <= Len(data) => data[tag.pos + i] = w[i + 1]
    <3> SUFFICES ASSUME NEW i \in 1 .. k, r.pos + (k + 1) <= Len(data)
                 PROVE  data[tag.pos + i] = w[i + 1]
      OBVIOUS
    <3>1. i + 1 \in 1 .. k + 1 /\ r.pos + (i + 1) <= Len(data) /\ tag.pos + i = r.pos + (i + 1)
      BY <1>2, <2>1
    <3> QED
      BY <3>1, <1>5
  <2>4. value.ok <=> r.pos + (k + 1) <= Len(data)
    <3>1. tag.pos + k = r.pos + (k + 1)
      BY <2>1, <1>2
    <3>2. r.pos + (k + 1) <= Len(data) => \A i \in 1 .. k : data[tag.pos + i][1] = widths[i]
      BY <1>2, <2>2, <2>3
    <3> QED
      BY <1>4, <1>8, <2>2, <3>1, <3>2
  <2>5. CASE ~ value.ok
    <3>1. q = value
      BY <1>1, <1>8, <2>1, <2>5
    <3> QED
      BY <3>1, <1>4, <1>2, <2>4, <2>5 DEF q, w
  <2>6. CASE value.ok
    <3>1. x = v
      <4>1. CASE k = 0
        <5>1. widths = <<>> /\ x = <<v[1], 0>>
          BY <4>1, <1>2, <2>1, <2>2 DEF x
        <5> QED
          BY <4>1, <5>1, <1>2
      <4>2. CASE k > 0
        <5>1. value.got[k] = data[tag.pos + k][2] /\ data[tag.pos + k] = w[k + 1]
          <6>1. k \in 1 .. k
            BY <1>2, <4>2
          <6>2. value.got = [i \in 1 .. k |-> data[tag.pos + i][2]]
            BY <1>4, <2>2, <2>6
          <6> QED
            BY <6>1, <6>2, <2>3, <2>4, <2>6
        <5>2. value.got[Len(widths)] = v[2] /\ widths # <<>>
          BY <5>1, <1>2, <2>2, <4>2
        <5>3. x = <<v[1], v[2]>>
          BY <5>2, <2>1 DEF x
        <5> QED
          BY <5>3, <1>2, <4>2
      <4> QED
        BY <1>2, <4>1, <4>2
    <3>2. q = PoolAdd(value, v)
      BY <1>1, <1>8, <2>1, <2>6, <3>1
    <3>3. ~ Contains(value.constants, v)
      BY <1>3, <1>4
    <3>4. q = [value EXCEPT !.constants = Append(@, v)]
      BY <3>2, <3>3 DEF PoolAdd
    <3>5. q = [pos |-> value.pos, got |-> value.got, ok |-> value.ok,
               constants |-> Append(r.constants, v), functions |-> r.functions]
      BY <3>4, <1>3, <1>4 DEF IsReader
    <3>6. value.pos = r.pos + (k + 1)
      BY <1>2, <1>4, <2>1, <2>2, <2>6
    <3> QED
      BY <3>5, <3>6, <1>2, <1>4, <2>4, <2>6 DEF IsReader, q, w
  <2> QED
    BY <2>5, <2>6
<1> QED
  BY <1>7, <1>8

\* A sequence of equal widths.
LEMMA TimesIs ==
  ASSUME NEW n \in Nat, NEW width
  PROVE  Len(Times(n, width)) = n /\ \A i \in 1 .. n : Times(n, width)[i] = width
  BY DEF Times

\* The fixed fields of a function.
LEMMA WrittenFunction ==
  ASSUME NEW f, FunctionRecord(f)
  PROVE  LET w == WriteFunction(f)
             k == Len(f.upvalues)
             widths == <<2, 1, 2, 2, 4, 4, 1>> IN
         /\ w \in Seq(Range(w))
         /\ k \in Nat /\ Len(w) = 7 + k
         /\ \A i \in 1 .. 7 : w[i][1] = widths[i]
         /\ w[1][2] = f.name_const_idx /\ w[2][2] = f.arity /\ w[3][2] = f.local_count
         /\ w[4][2] = f.max_stack /\ w[5][2] = f.code_offset /\ w[6][2] = f.code_length
         /\ w[7][2] = k
         /\ \A i \in 1 .. k : w[7 + i] = <<3, f.upvalues[i]>>
<1> DEFINE k == Len(f.upvalues)
           V == {f.name_const_idx, f.arity, f.local_count, f.max_stack, f.code_offset,
                 f.code_length, k} \cup Range(f.upvalues)
           S == {1, 2, 3, 4} \X V
           a == << <<2, f.name_const_idx>>, <<1, f.arity>>, <<2, f.local_count>>, <<2, f.max_stack>>,
                   <<4, f.code_offset>>, <<4, f.code_length>>, <<1, k>> >>
           b == [i \in 1 .. k |-> <<3, f.upvalues[i]>>]
           w == WriteFunction(f)
<1>1. k \in Nat
  BY DEF FunctionRecord
<1>2. a \in Seq(S)
  <2>1. /\ <<2, f.name_const_idx>> \in S /\ <<1, f.arity>> \in S /\ <<2, f.local_count>> \in S
        /\ <<2, f.max_stack>> \in S /\ <<4, f.code_offset>> \in S /\ <<4, f.code_length>> \in S
        /\ <<1, k>> \in S
    <3>1. /\ f.name_const_idx \in V /\ f.arity \in V /\ f.local_count \in V
          /\ f.max_stack \in V /\ f.code_offset \in V /\ f.code_length \in V /\ k \in V
      OBVIOUS
    <3> HIDE DEF V, k
    <3> QED
      BY <3>1
  <2> HIDE DEF S, k
  <2> QED
    BY <2>1
<1>3. b \in Seq(S) /\ Len(b) = k
  <2>1. \A i \in 1 .. k : f.upvalues[i] \in Range(f.upvalues)
    BY DEF FunctionRecord, Range
  <2> QED
    BY <1>1, <2>1
<1>4. w = a \o b
  BY DEF WriteFunction
<1>5. Len(a) = 7
  OBVIOUS
<1>6. /\ Len(w) = 7 + k
      /\ \A i \in 1 .. 7 : w[i] = a[i]
      /\ \A i \in 1 .. k : w[7 + i] = b[i]
  <2> HIDE DEF a, b, S, w, k
  <2>1. /\ Len(a \o b) = Len(a) + Len(b)
        /\ \A j \in 1 .. Len(a) : (a \o b)[j] = a[j]
        /\ \A j \in 1 .. Len(b) : (a \o b)[Len(a) + j] = b[j]
    <3>1. a \in Seq(S) /\ b \in Seq(S)
      BY <1>2, <1>3
    <3> QED
      BY <3>1, Concat
  <2> QED
    BY <1>3, <1>4, <1>5, <2>1
<1>7. \A i \in 1 .. k : w[7 + i] = <<3, f.upvalues[i]>>
  BY <1>6
<1> HIDE DEF w
<1>8. \A i \in 1 .. 7 : w[i][1] = <<2, 1, 2, 2, 4, 4, 1>>[i]
  BY <1>6
<1>9. /\ w[1][2] = f.name_const_idx /\ w[2][2] = f.arity /\ w[3][2] = f.local_count
      /\ w[4][2] = f.max_stack /\ w[5][2] = f.code_offset /\ w[6][2] = f.code_length
      /\ w[7][2] = k
  BY <1>6
<1> HIDE DEF a, b, S
<1>10. w \in Seq(S)
  BY <1>2, <1>3, <1>4, Concat
<1>11. w \in Seq(Range(w))
  BY <1>10, OwnRange
<1> QED
  BY <1>1, <1>6, <1>7, <1>8, <1>9, <1>11 DEF w

\* A reader that has failed reads no function.
LEMMA ReadFunctionFails ==
  ASSUME NEW data, NEW r, IsReader(r), ~ r.ok
  PROVE  IsReader(read_function(data, r)) /\ ~ read_function(data, r).ok
<1> DEFINE f == ReadFields(data, r, <<2, 1, 2, 2, 4, 4, 1>>)
<1>1. IsReader(f) /\ ~ f.ok
  <2>1. FieldsRead(f, data, r, <<2, 1, 2, 2, 4, 4, 1>>)
    BY ReadFieldsIs
  <2> QED
    BY <2>1 DEF FieldsRead
<1>2. read_function(data, r) = f
  BY <1>1 DEF read_function
<1> QED
  BY <1>1, <1>2

\* The fields of a function before its upvalues.
LEMMA ReadSeven ==
  ASSUME NEW data, NEW r, IsReader(r)
  PROVE  LET widths == <<2, 1, 2, 2, 4, 4, 1>>
             q == ReadFields(data, r, widths) IN
         /\ IsReader(q)
         /\ q.ok <=> /\ r.ok /\ r.pos + 7 <= Len(data)
                     /\ \A i \in 1 .. 7 : data[r.pos + i][1] = widths[i]
         /\ q.ok => q.pos = r.pos + 7 /\ \A i \in 1 .. 7 : q.got[i] = data[r.pos + i][2]
         /\ q.constants = r.constants /\ q.functions = r.functions
<1> DEFINE widths == <<2, 1, 2, 2, 4, 4, 1>>
           n == Len(widths)
           q == ReadFields(data, r, widths)
<1>1. n = 7
  OBVIOUS
<1> HIDE DEF widths
<1>2. /\ IsReader(q)
      /\ q.ok <=> /\ r.ok /\ r.pos + n <= Len(data)
                  /\ \A i \in 1 .. n : data[r.pos + i][1] = widths[i]
      /\ q.ok => q.pos = r.pos + n /\ q.got = [i \in 1 .. n |-> data[r.pos + i][2]]
      /\ q.constants = r.constants /\ q.functions = r.functions
  <2>1. FieldsRead(q, data, r, widths)
    BY ReadFieldsIs
  <2> QED
    BY <2>1 DEF FieldsRead
<1> HIDE DEF n, q
<1>3. q.ok => q.pos = r.pos + 7 /\ \A i \in 1 .. 7 : q.got[i] = data[r.pos + i][2]
  BY <1>1, <1>2
<1> QED
  BY <1>1, <1>2, <1>3 DEF q, widths

\* A function that was written is read, unless the file ends.
LEMMA ReadFunctionIs ==
  ASSUME NEW data, Len(data) \in Nat, NEW r, IsReader(r), r.ok, r.pos \in Nat,
         NEW g, FunctionRecord(g), Holds(data, r.pos, WriteFunction(g))
  PROVE  LET q == read_function(data, r)
             n == Len(WriteFunction(g)) IN
         /\ IsReader(q)
         /\ q.ok <=> r.pos + n <= Len(data)
         /\ q.ok => /\ q.pos = r.pos + n
                    /\ q.functions = Append(r.functions, g) /\ q.constants = r.constants
<1> DEFINE w == WriteFunction(g)
           widths == <<2, 1, 2, 2, 4, 4, 1>>
           f == ReadFields(data, r, widths)
           threes == Times(f.got[7], 3)
           ups == ReadFields(data, f, threes)
           h == [name_const_idx |-> f.got[1], arity |-> f.got[2], local_count |-> f.got[3],
                 max_stack |-> f.got[4], code_offset |-> f.got[5], code_length |-> f.got[6],
                 upvalues |-> ups.got]
           q == read_function(data, r)
           k == Len(g.upvalues)
<1>1. q = IF ~ f.ok THEN f
          ELSE IF ~ ups.ok THEN ups
          ELSE [ups EXCEPT !.functions = Append(@, h)]
  BY DEF read_function
<1>2. /\ k \in Nat /\ Len(w) = 7 + k
      /\ \A i \in 1 .. 7 : w[i][1] = widths[i]
      /\ w[1][2] = g.name_const_idx /\ w[2][2] = g.arity /\ w[3][2] = g.local_count
      /\ w[4][2] = g.max_stack /\ w[5][2] = g.code_offset /\ w[6][2] = g.code_length
      /\ w[7][2] = k
      /\ \A i \in 1 .. k : w[7 + i] = <<3, g.upvalues[i]>>
  BY WrittenFunction
<1>3. /\ IsReader(f)
      /\ f.ok <=> /\ r.ok /\ r.pos + 7 <= Len(data)
                  /\ \A i \in 1 .. 7 : data[r.pos + i][1] = widths[i]
      /\ f.ok => f.pos = r.pos + 7 /\ \A i \in 1 .. 7 : f.got[i] = data[r.pos + i][2]
      /\ f.constants = r.constants /\ f.functions = r.functions
  BY ReadSeven
<1>4. /\ IsReader(ups)
      /\ ups.ok <=> /\ f.ok /\ f.pos + Len(threes) <= Len(data)
                    /\ \A i \in 1 .. Len(threes) : data[f.pos + i][1] = threes[i]
      /\ ups.ok => /\ ups.pos = f.pos + Len(threes)
                   /\ ups.got = [i \in 1 .. Len(threes) |-> data[f.pos + i][2]]
      /\ ups.constants = f.constants /\ ups.functions = f.functions
  <2>1. FieldsRead(ups, data, f, threes)
    BY <1>3, ReadFieldsIs
  <2> QED
    BY <2>1 DEF FieldsRead
<1> HIDE DEF w, widths, f, ups, h, q, k
<1>5. \A j \in 1 .. 7 + k : r.pos + j <= Len(data) => data[r.pos + j] = w[j]
  <2>1. \A j \in 1 .. Len(w) : r.pos + j <= Len(data) => data[r.pos + j] = w[j]
    BY DEF Holds, w
  <2> QED
    BY <1>2, <2>1
<1>6. f.ok <=> r.pos + 7 <= Len(data)
  <2>1. ASSUME NEW i \in 1 .. 7, r.pos + 7 <= Len(data) PROVE data[r.pos + i][1] = widths[i]
    <3>1. i \in 1 .. 7 + k /\ r.pos + i <= Len(data)
      BY <1>2, <2>1
    <3> QED
      BY <3>1, <1>2, <1>5
  <2> QED
    BY <1>3, <2>1
<1>9. k \in Nat /\ Len(w) = 7 + k
  BY <1>2
<1>7. CASE ~ f.ok
  <2>1. q = f
    BY <1>1, <1>7
  <2> QED
    BY <1>9, <1>3, <1>6, <1>7, <2>1 DEF q, w
<1>8. CASE f.ok
  <2>1. f.pos = r.pos + 7 /\ \A i \in 1 .. 7 : f.got[i] = w[i][2]
    <3>1. ASSUME NEW i \in 1 .. 7 PROVE f.got[i] = w[i][2]
      <4>1. i \in 1 .. 7 + k /\ r.pos + i <= Len(data)
        BY <1>2, <1>6, <1>8
      <4> QED
        BY <4>1, <1>3, <1>5, <1>8
    <3> QED
      BY <3>1, <1>3, <1>8
  <2>8. f.pos = r.pos + 7
    BY <2>1
  <2>2. f.got[7] = k
    BY <2>1, <1>2
  <2>3. Len(threes) = k /\ \A i \in 1 .. k : threes[i] = 3
    BY <1>2, <2>2, TimesIs
  <2> HIDE DEF threes
  <2>4. ASSUME NEW i \in 1 .. k, r.pos + (7 + k) <= Len(data)
        PROVE  data[f.pos + i] = <<3, g.upvalues[i]>>
    <3>1. 7 + i \in 1 .. 7 + k /\ r.pos + (7 + i) <= Len(data) /\ f.pos + i = r.pos + (7 + i)
      BY <1>9, <2>8, <2>4
    <3> QED
      BY <3>1, <1>2, <1>5
  <2>5. ups.ok <=> r.pos + (7 + k) <= Len(data)
    <3>1. f.pos + k = r.pos + (7 + k)
      BY <2>8, <1>9
    <3>2. r.pos + (7 + k) <= Len(data) => \A i \in 1 .. k : data[f.pos + i][1] = threes[i]
      BY <2>3, <2>4
    <3> QED
      BY <1>4, <1>8, <2>3, <3>1, <3>2
  <2>6. CASE ~ ups.ok
    <3>1. q = ups
      BY <1>1, <1>8, <2>6
    <3> QED
      BY <3>1, <1>4, <1>9, <2>5, <2>6 DEF q, w
  <2>7. CASE ups.ok
    <3>1. ups.got = g.upvalues
      <4>1. ups.got = [i \in 1 .. k |-> data[f.pos + i][2]]
        BY <1>4, <2>3, <2>7
      <4>2. ASSUME NEW i \in 1 .. k PROVE data[f.pos + i][2] = g.upvalues[i]
        <5>1. data[f.pos + i] = <<3, g.upvalues[i]>>
          BY <2>4, <2>5, <2>7
        <5> QED
          BY <5>1
      <4>3. g.upvalues = [i \in 1 .. k |-> g.upvalues[i]]
        BY DEF FunctionRecord, k
      <4> QED
        BY <4>1, <4>2, <4>3
    <3>2. h = g
      <4>1. /\ f.got[1] = g.name_const_idx /\ f.got[2] = g.arity /\ f.got[3] = g.local_count
            /\ f.got[4] = g.max_stack /\ f.got[5] = g.code_offset /\ f.got[6] = g.code_length
        BY <2>1, <1>2
      <4> QED
        BY <3>1, <4>1 DEF h, FunctionRecord
    <3>3. q = [ups EXCEPT !.functions = Append(@, g)]
      BY <1>1, <1>8, <2>7, <3>2
    <3>4. q = [pos |-> ups.pos, got |-> ups.got, ok |-> ups.ok, constants |-> r.constants,
               functions |-> Append(r.functions, g)]
      BY <3>3, <1>3, <1>4 DEF IsReader
    <3>5. ups.pos = r.pos + (7 + k)
      <4>1. ups.pos = f.pos + k
        BY <1>4, <2>3, <2>7
      <4> QED
        BY <4>1, <1>9, <2>8
    <3> QED
      BY <3>4, <3>5, <1>9, <1>4, <2>5, <2>7 DEF IsReader, q, w
  <2> QED
    BY <2>6, <2>7
<1> QED
  BY <1>7, <1>8

\* Where each of six sequences is in the concatenation of them all.
SixParts(all, a, b, c, d, e, f) ==
  /\ Len(all) = Len(a) + Len(b) + Len(c) + Len(d) + Len(e) + Len(f)
  /\ \A j \in 1 .. Len(a) : all[j] = a[j]
  /\ \A j \in 1 .. Len(b) : all[Len(a) + j] = b[j]
  /\ \A j \in 1 .. Len(c) : all[Len(a) + Len(b) + j] = c[j]
  /\ \A j \in 1 .. Len(d) : all[Len(a) + Len(b) + Len(c) + j] = d[j]
  /\ \A j \in 1 .. Len(e) : all[Len(a) + Len(b) + Len(c) + Len(d) + j] = e[j]
  /\ \A j \in 1 .. Len(f) : all[Len(a) + Len(b) + Len(c) + Len(d) + Len(e) + j] = f[j]
LEMMA ConcatSix ==
  ASSUME NEW S, NEW a \in Seq(S), NEW b \in Seq(S), NEW c \in Seq(S), NEW d \in Seq(S),
         NEW e \in Seq(S), NEW f \in Seq(S)
  PROVE  LET all == a \o b \o c \o d \o e \o f IN
         all \in Seq(S) /\ SixParts(all, a, b, c, d, e, f)
<1> DEFINE ab == a \o b
           abc == ab \o c
           abcd == abc \o d
           abcde == abcd \o e
           all == abcde \o f
<1>1. /\ Len(a) \in Nat /\ Len(b) \in Nat /\ ab \in Seq(S) /\ Len(ab) = Len(a) + Len(b)
      /\ \A j \in 1 .. Len(a) : ab[j] = a[j]
      /\ \A j \in 1 .. Len(b) : ab[Len(a) + j] = b[j]
  BY Concat
<1> HIDE DEF ab
<1>2. /\ Len(c) \in Nat /\ abc \in Seq(S) /\ Len(abc) = Len(ab) + Len(c)
      /\ \A j \in 1 .. Len(ab) : abc[j] = ab[j]
      /\ \A j \in 1 .. Len(c) : abc[Len(ab) + j] = c[j]
  <2>1. ab \in Seq(S)
    BY <1>1
  <2> QED
    BY <2>1, Concat
<1> HIDE DEF abc
<1>3. /\ Len(d) \in Nat /\ abcd \in Seq(S) /\ Len(abcd) = Len(abc) + Len(d)
      /\ \A j \in 1 .. Len(abc) : abcd[j] = abc[j]
      /\ \A j \in 1 .. Len(d) : abcd[Len(abc) + j] = d[j]
  <2>1. abc \in Seq(S)
    BY <1>2
  <2> QED
    BY <2>1, Concat
<1> HIDE DEF abcd
<1>4. /\ Len(e) \in Nat /\ abcde \in Seq(S) /\ Len(abcde) = Len(abcd) + Len(e)
      /\ \A j \in 1 .. Len(abcd) : abcde[j] = abcd[j]
      /\ \A j \in 1 .. Len(e) : abcde[Len(abcd) + j] = e[j]
  <2>1. abcd \in Seq(S)
    BY <1>3
  <2> QED
    BY <2>1, Concat
<1> HIDE DEF abcde
<1>5. /\ Len(f) \in Nat /\ all \in Seq(S) /\ Len(all) = Len(abcde) + Len(f)
      /\ \A j \in 1 .. Len(abcde) : all[j] = abcde[j]
      /\ \A j \in 1 .. Len(f) : all[Len(abcde) + j] = f[j]
  <2>1. abcde \in Seq(S)
    BY <1>4
  <2> QED
    BY <2>1, Concat
<1> HIDE DEF all
<1>6. /\ Len(ab) = Len(a) + Len(b) /\ Len(abc) = Len(a) + Len(b) + Len(c)
      /\ Len(abcd) = Len(a) + Len(b) + Len(c) + Len(d)
      /\ Len(abcde) = Len(a) + Len(b) + Len(c) + Len(d) + Len(e)
      /\ Len(all) = Len(a) + Len(b) + Len(c) + Len(d) + Len(e) + Len(f)
      /\ Len(a) \in Nat /\ Len(b) \in Nat /\ Len(c) \in Nat /\ Len(d) \in Nat /\ Len(e) \in Nat
  BY <1>1, <1>2, <1>3, <1>4, <1>5
<1>7. \A j \in 1 .. Len(abcd) : all[j] = abcd[j]
  BY <1>4, <1>5, <1>6
<1>8. \A j \in 1 .. Len(abc) : all[j] = abc[j]
  BY <1>3, <1>6, <1>7
<1>9. \A j \in 1 .. Len(ab) : all[j] = ab[j]
  BY <1>2, <1>6, <1>8
<1>10. \A j \in 1 .. Len(a) : all[j] = a[j]
  BY <1>1, <1>6, <1>9
<1>11. \A j \in 1 .. Len(b) : all[Len(a) + j] = b[j]
  BY <1>1, <1>6, <1>9
<1>12. \A j \in 1 .. Len(c) : all[Len(a) + Len(b) + j] = c[j]
  BY <1>2, <1>6, <1>8
<1>13. \A j \in 1 .. Len(d) : all[Len(a) + Len(b) + Len(c) + j] = d[j]
  BY <1>3, <1>6, <1>7
<1>14. \A j \in 1 .. Len(e) : all[Len(a) + Len(b) + Len(c) + Len(d) + j] = e[j]
  BY <1>4, <1>5, <1>6
<1>15. \A j \in 1 .. Len(f) : all[Len(a) + Len(b) + Len(c) + Len(d) + Len(e) + j] = f[j]
  BY <1>5, <1>6
<1>16. SixParts(all, a, b, c, d, e, f)
  BY <1>6, <1>10, <1>11, <1>12, <1>13, <1>14, <1>15 DEF SixParts
<1> QED
  BY <1>5, <1>16 DEF all, abcde, abcd, abc, ab

\* Sequences with the same elements are the same.
LEMMA SameSequence ==
  ASSUME NEW S, NEW T, NEW s \in Seq(S), NEW t \in Seq(T), Len(s) = Len(t),
         \A j \in 1 .. Len(t) : s[j] = t[j]
  PROVE  s = t
  OBVIOUS

\* The states of the reader from constant to constant.
LEMMA ReadConstantsSteps ==
  ASSUME NEW data, NEW r, NEW count \in Nat
  PROVE  \E a : /\ a[0] = r
                /\ \A i \in 1 .. count : a[i] = read_constant(data, a[i - 1])
                /\ read_constants(data, r, count) = a[count]
<1> DEFINE Eq(f, k) == f = [i \in 0 .. k |-> IF i = 0 THEN r ELSE read_constant(data, f[i - 1])]
           T == {k \in Nat : \E f : Eq(f, k)}
<1>1. 0 \in T
  <2>1. Eq([i \in 0 .. 0 |-> r], 0)
    OBVIOUS
  <2> QED
    BY <2>1
<1>2. ASSUME NEW k \in Nat, k \in T PROVE k + 1 \in T
  <2>1. PICK f : Eq(f, k)
    BY <1>2
  <2> DEFINE g == [i \in 0 .. k + 1 |-> IF i = k + 1 THEN read_constant(data, f[k]) ELSE f[i]]
  <2>2. ASSUME NEW i \in 0 .. k + 1
        PROVE  g[i] = IF i = 0 THEN r ELSE read_constant(data, g[i - 1])
    <3>1. CASE i = k + 1
      <4>1. g[i - 1] = f[k] /\ i # 0
        BY <3>1
      <4> QED
        BY <3>1, <4>1
    <3>2. CASE i # k + 1
      <4>1. i \in 0 .. k /\ g[i] = f[i] /\ (i # 0 => g[i - 1] = f[i - 1])
        BY <3>2
      <4>2. f[i] = IF i = 0 THEN r ELSE read_constant(data, f[i - 1])
        BY <2>1, <4>1
      <4> HIDE DEF g
      <4> QED
        BY <4>1, <4>2
    <3> QED
      BY <3>1, <3>2
  <2>3. Eq(g, k + 1)
    <3> DEFINE h == [i \in 0 .. k + 1 |-> IF i = 0 THEN r ELSE read_constant(data, g[i - 1])]
    <3>1. \A i \in 0 .. k + 1 : g[i] = h[i]
      <4> HIDE DEF g
      <4> QED
        BY <2>2
    <3>2. g = h
      BY <3>1
    <3> QED
      BY <3>2
  <2> HIDE DEF Eq, g
  <2> QED
    BY <2>3
<1>3. \A k \in Nat : k \in T
  <2> HIDE DEF T
  <2> QED
    BY <1>1, <1>2, Induct
<1> DEFINE a == CHOOSE f : Eq(f, count)
<1>4. Eq(a, count)
  <2>1. \E f : Eq(f, count)
    BY <1>3
  <2> HIDE DEF Eq
  <2> QED
    BY <2>1
<1>5. read_constants(data, r, count) = a[count]
  BY DEF read_constants
<1> HIDE DEF a
<1>6. a[0] = r
  BY <1>4
<1>7. ASSUME NEW i \in 1 .. count PROVE a[i] = read_constant(data, a[i - 1])
  <2>1. i \in 0 .. count /\ i # 0
    OBVIOUS
  <2> QED
    BY <1>4, <2>1
<1> QED
  BY <1>5, <1>6, <1>7
LEMMA ReadFunctionsSteps ==
  ASSUME NEW data, NEW r, NEW count \in Nat
  PROVE  \E a : /\ a[0] = r
                /\ \A i \in 1 .. count : a[i] = read_function(data, a[i - 1])
                /\ read_functions(data, r, count) = a[count]
<1> DEFINE Eq(f, k) == f = [i \in 0 .. k |-> IF i = 0 THEN r ELSE read_function(data, f[i - 1])]
           T == {k \in Nat : \E f : Eq(f, k)}
<1>1. 0 \in T
  <2>1. Eq([i \in 0 .. 0 |-> r], 0)
    OBVIOUS
  <2> QED
    BY <2>1
<1>2. ASSUME NEW k \in Nat, k \in T PROVE k + 1 \in T
  <2>1. PICK f : Eq(f, k)
    BY <1>2
  <2> DEFINE g == [i \in 0 .. k + 1 |-> IF i = k + 1 THEN read_function(data, f[k]) ELSE f[i]]
  <2>2. ASSUME NEW i \in 0 .. k + 1
        PROVE  g[i] = IF i = 0 THEN r ELSE read_function(data, g[i - 1])
    <3>1. CASE i = k + 1
      <4>1. g[i - 1] = f[k] /\ i # 0
        BY <3>1
      <4> QED
        BY <3>1, <4>1
    <3>2. CASE i # k + 1
      <4>1. i \in 0 .. k /\ g[i] = f[i] /\ (i # 0 => g[i - 1] = f[i - 1])
        BY <3>2
      <4>2. f[i] = IF i = 0 THEN r ELSE read_function(data, f[i - 1])
        BY <2>1, <4>1
      <4> HIDE DEF g
      <4> QED
        BY <4>1, <4>2
    <3> QED
      BY <3>1, <3>2
  <2>3. Eq(g, k + 1)
    <3> DEFINE h == [i \in 0 .. k + 1 |-> IF i = 0 THEN r ELSE read_function(data, g[i - 1])]
    <3>1. \A i \in 0 .. k + 1 : g[i] = h[i]
      <4> HIDE DEF g
      <4> QED
        BY <2>2
    <3>2. g = h
      BY <3>1
    <3> QED
      BY <3>2
  <2> HIDE DEF Eq, g
  <2> QED
    BY <2>3
<1>3. \A k \in Nat : k \in T
  <2> HIDE DEF T
  <2> QED
    BY <1>1, <1>2, Induct
<1> DEFINE a == CHOOSE f : Eq(f, count)
<1>4. Eq(a, count)
  <2>1. \E f : Eq(f, count)
    BY <1>3
  <2> HIDE DEF Eq
  <2> QED
    BY <2>1
<1>5. read_functions(data, r, count) = a[count]
  BY DEF read_functions
<1> HIDE DEF a
<1>6. a[0] = r
  BY <1>4
<1>7. ASSUME NEW i \in 1 .. count PROVE a[i] = read_function(data, a[i - 1])
  <2>1. i \in 0 .. count /\ i # 0
    OBVIOUS
  <2> QED
    BY <1>4, <2>1
<1> QED
  BY <1>5, <1>6, <1>7

ConstantParts(img, ss, c, S) ==
  /\ WellFormed(img)
  /\ Sums(c, ss, S)
  /\ Len(ss) = Len(img.constants) /\ \A i \in 1 .. Len(ss) : ss[i] = WriteConstant(img.constants[i])
\* A reader in front of fields that the file has as far as it goes.
Before(data, r, fields) ==
  /\ Len(data) \in Nat
  /\ IsReader(r) /\ r.ok /\ r.pos \in 0 .. Len(data)
  /\ Holds(data, r.pos, fields)

\* The constants, read one after the other.
LEMMA ReadConstantsIs ==
  ASSUME NEW img, NEW S, NEW c, NEW ss, ConstantParts(img, ss, c, S),
         NEW data, NEW r, Before(data, r, c[Len(ss)]), r.constants = <<>>
  PROVE  LET q == read_constants(data, r, Len(ss))
             n == Len(c[Len(ss)]) IN
         /\ IsReader(q)
         /\ q.ok <=> r.pos + n <= Len(data)
         /\ q.ok => q.pos = r.pos + n /\ q.constants = img.constants /\ q.functions = r.functions
<1> DEFINE p == r.pos
           m == Len(ss)
           V == Range(img.constants)
<1>1. m \in Nat /\ m = Len(img.constants)
  BY DEF ConstantParts
<1>9. ASSUME NEW i \in 0 .. m PROVE c[i] \in Seq(S) /\ Len(c[i]) \in Nat
  <2>1. c[i] \in Seq(S)
    BY <1>9 DEF ConstantParts, Sums
  <2> QED
    BY <2>1
<1>10. p \in Nat /\ p <= Len(data) /\ Len(data) \in Nat /\ IsReader(r) /\ r.ok
  BY DEF Before
<1>11. Sums(c, ss, S)
  BY DEF ConstantParts
<1>2. PICK a : /\ a[0] = r
               /\ \A i \in 1 .. m : a[i] = read_constant(data, a[i - 1])
               /\ read_constants(data, r, m) = a[m]
  <2> HIDE DEF m
  <2> QED
    BY <1>1, ReadConstantsSteps
<1> DEFINE Good(k) ==
             /\ IsReader(a[k])
             /\ a[k].ok <=> p + Len(c[k]) <= Len(data)
             /\ a[k].ok => /\ a[k].pos = p + Len(c[k])
                           /\ a[k].constants \in Seq(V) /\ Len(a[k].constants) = k
                           /\ \A j \in 1 .. k : a[k].constants[j] = img.constants[j]
                           /\ a[k].functions = r.functions
           T == {k \in Nat : k <= m => Good(k)}
<1>3. 0 \in T
  <2>1. c[0] = <<>> /\ Len(<<>>) = 0 /\ r.constants \in Seq(V) /\ Len(r.constants) = 0
    BY DEF ConstantParts, Sums
  <2>2. a[0] = r /\ Len(c[0]) = 0 /\ p + Len(c[0]) = p /\ 1 .. 0 = {}
    BY <1>2, <1>10, <2>1
  <2>3. Good(0)
    BY <1>10, <2>1, <2>2
  <2> HIDE DEF Good
  <2> QED
    BY <2>3
<1>4. ASSUME NEW k \in Nat, k \in T PROVE k + 1 \in T
  <2> SUFFICES ASSUME k + 1 <= m PROVE Good(k + 1)
    OBVIOUS
  <2> DEFINE i == k + 1
             v == img.constants[i]
             w == WriteConstant(v)
             u == a[k]
  <2>1. k <= m /\ i \in 1 .. m /\ i - 1 = k /\ i \in DOMAIN img.constants
    BY <1>1 DEF ConstantParts, WellFormed
  <2>2. Good(k)
    BY <1>4, <2>1
  <2>3. a[i] = read_constant(data, u)
    BY <1>2, <2>1
  <2>4. /\ Len(c[k]) \in Nat /\ Len(w) \in Nat /\ Len(c[i]) = Len(c[k]) + Len(w)
        /\ Len(c[i]) <= Len(c[m])
        /\ \A j \in 1 .. Len(w) : c[m][Len(c[k]) + j] = w[j]
    <3>1. ss[i] = w
      BY <2>1 DEF ConstantParts
    <3>2. PartAt(c, ss, i)
      <4>1. i \in 1 .. Len(ss)
        BY <2>1
      <4> HIDE DEF i
      <4> QED
        BY <1>11, <4>1, SumsPart
    <3> HIDE DEF w, i
    <3> QED
      BY <2>1, <3>1, <3>2 DEF PartAt
  <2>5. Constant(v) /\ v \in V /\ \A j \in 1 .. k : img.constants[j] # v
    <3>1. Constant(v) /\ \A j \in DOMAIN img.constants : img.constants[j] = v => j = i
      BY <2>1 DEF ConstantParts, WellFormed
    <3>2. v \in V
      BY <2>1 DEF Range
    <3>3. \A j \in 1 .. k : j \in DOMAIN img.constants /\ j # i
      BY <1>1, <2>1 DEF ConstantParts, WellFormed
    <3> QED
      BY <3>1, <3>2, <3>3
  <2> HIDE DEF v, w, u, T, m, V, i
  <2>6. CASE ~ u.ok
    <3>1. IsReader(a[i]) /\ ~ a[i].ok
      BY <2>2, <2>3, <2>6, ReadConstantFails DEF u
    <3>2. ~ (p + Len(c[i]) <= Len(data))
      <4>1. ~ (p + Len(c[k]) <= Len(data))
        BY <2>2, <2>6 DEF u
      <4>2. Len(c[k]) \in Nat /\ Len(w) \in Nat /\ Len(c[i]) = Len(c[k]) + Len(w)
        BY <2>4
      <4> QED
        BY <1>10, <4>1, <4>2
    <3> QED
      BY <3>1, <3>2 DEF i
  <2>7. CASE u.ok
    <3>1. IsReader(u) /\ u.pos = p + Len(c[k]) /\ u.pos \in Nat
      BY <1>10, <2>2, <2>4, <2>7 DEF u
    <3>2. Holds(data, u.pos, w)
      <4> SUFFICES ASSUME NEW j \in 1 .. Len(w), u.pos + j <= Len(data)
                   PROVE  data[u.pos + j] = w[j]
        BY DEF Holds
      <4>1. \A x \in 1 .. Len(c[m]) : p + x <= Len(data) => data[p + x] = c[m][x]
        BY DEF Before, Holds, m
      <4>2. Len(c[k]) + j \in 1 .. Len(c[m]) /\ p + (Len(c[k]) + j) = u.pos + j
        <5>2. Len(c[m]) \in Nat
          BY <1>1, <1>9
        <5>3. Len(c[k]) \in Nat /\ Len(w) \in Nat /\ Len(c[k]) + Len(w) <= Len(c[m])
          BY <2>4
        <5>4. Len(c[k]) + j \in 1 .. Len(c[m])
          BY <5>2, <5>3
        <5>5. p \in Nat /\ u.pos = p + Len(c[k])
          BY <1>10, <3>1
        <5>6. p + (Len(c[k]) + j) = u.pos + j
          BY <5>3, <5>5
        <5> QED
          BY <5>4, <5>6
      <4> QED
        BY <4>1, <4>2, <2>4
    <3>3. ~ Contains(u.constants, v)
      BY <2>2, <2>5, <2>7 DEF Contains, u
    <3> DEFINE q == read_constant(data, u)
    <3>4. /\ IsReader(q)
          /\ q.ok <=> u.pos + Len(w) <= Len(data)
          /\ q.ok => /\ q.pos = u.pos + Len(w)
                     /\ q.constants = Append(u.constants, v) /\ q.functions = u.functions
      BY <1>10, <3>1, <3>2, <3>3, <2>5, <2>7, ReadConstantIs DEF w
    <3>5. u.pos + Len(w) = p + Len(c[i])
      BY <1>10, <2>4, <3>1
    <3>6. ASSUME q.ok
          PROVE  /\ q.constants \in Seq(V) /\ Len(q.constants) = i
                 /\ \A j \in 1 .. i : q.constants[j] = img.constants[j]
      <4>1. /\ u.constants \in Seq(V) /\ Len(u.constants) = k
            /\ \A j \in 1 .. k : u.constants[j] = img.constants[j]
        BY <2>2, <2>7 DEF u
      <4>2. q.constants = Append(u.constants, v)
        BY <3>4, <3>6
      <4>3. i = k + 1 /\ img.constants[i] = v
        BY DEF i, v
      <4> QED
        BY <4>1, <4>2, <4>3, <2>5
    <3>7. q.ok => q.functions = r.functions
      BY <3>4, <2>2, <2>7 DEF u
    <3> HIDE DEF q
    <3> QED
      BY <2>3, <3>4, <3>5, <3>6, <3>7 DEF q, i
  <2> QED
    BY <2>6, <2>7
<1>5. Good(m)
  <2>1. \A k \in Nat : k \in T
    <3> HIDE DEF T
    <3> QED
      BY <1>3, <1>4, Induct
  <2> QED
    BY <2>1, <1>1
<1>6. a[m].ok => a[m].constants = img.constants
  <2>1. img.constants \in Seq(V)
    BY DEF ConstantParts, WellFormed
  <2> QED
    BY <1>1, <1>5, <2>1, SameSequence
<1> QED
  BY <1>2, <1>5, <1>6

FunctionParts(img, ss, c, S) ==
  /\ WellFormed(img)
  /\ Sums(c, ss, S)
  /\ Len(ss) = Len(img.functions) /\ \A i \in 1 .. Len(ss) : ss[i] = WriteFunction(img.functions[i])

\* The functions, read one after the other.
LEMMA ReadFunctionsIs ==
  ASSUME NEW img, NEW S, NEW c, NEW ss, FunctionParts(img, ss, c, S),
         NEW data, NEW r, Before(data, r, c[Len(ss)]), r.functions = <<>>
  PROVE  LET q == read_functions(data, r, Len(ss))
             n == Len(c[Len(ss)]) IN
         /\ IsReader(q)
         /\ q.ok <=> r.pos + n <= Len(data)
         /\ q.ok => q.pos = r.pos + n /\ q.functions = img.functions /\ q.constants = r.constants
<1> DEFINE p == r.pos
           m == Len(ss)
           V == Range(img.functions)
<1>1. m \in Nat /\ m = Len(img.functions)
  BY DEF FunctionParts
<1>9. ASSUME NEW i \in 0 .. m PROVE c[i] \in Seq(S) /\ Len(c[i]) \in Nat
  <2>1. c[i] \in Seq(S)
    BY <1>9 DEF FunctionParts, Sums
  <2> QED
    BY <2>1
<1>10. p \in Nat /\ p <= Len(data) /\ Len(data) \in Nat /\ IsReader(r) /\ r.ok
  BY DEF Before
<1>11. Sums(c, ss, S)
  BY DEF FunctionParts
<1>2. PICK a : /\ a[0] = r
               /\ \A i \in 1 .. m : a[i] = read_function(data, a[i - 1])
               /\ read_functions(data, r, m) = a[m]
  <2> HIDE DEF m
  <2> QED
    BY <1>1, ReadFunctionsSteps
<1> DEFINE Good(k) ==
             /\ IsReader(a[k])
             /\ a[k].ok <=> p + Len(c[k]) <= Len(data)
             /\ a[k].ok => /\ a[k].pos = p + Len(c[k])
                           /\ a[k].functions \in Seq(V) /\ Len(a[k].functions) = k
                           /\ \A j \in 1 .. k : a[k].functions[j] = img.functions[j]
                           /\ a[k].constants = r.constants
           T == {k \in Nat : k <= m => Good(k)}
<1>3. 0 \in T
  <2>1. c[0] = <<>> /\ Len(<<>>) = 0 /\ r.functions \in Seq(V) /\ Len(r.functions) = 0
    BY DEF FunctionParts, Sums
  <2>2. a[0] = r /\ Len(c[0]) = 0 /\ p + Len(c[0]) = p /\ 1 .. 0 = {}
    BY <1>2, <1>10, <2>1
  <2>3. Good(0)
    BY <1>10, <2>1, <2>2
  <2> HIDE DEF Good
  <2> QED
    BY <2>3
<1>4. ASSUME NEW k \in Nat, k \in T PROVE k + 1 \in T
  <2> SUFFICES ASSUME k + 1 <= m PROVE Good(k + 1)
    OBVIOUS
  <2> DEFINE i == k + 1
             v == img.functions[i]
             w == WriteFunction(v)
             u == a[k]
  <2>1. k <= m /\ i \in 1 .. m /\ i - 1 = k /\ i \in DOMAIN img.functions
    BY <1>1 DEF FunctionParts, WellFormed
  <2>2. Good(k)
    BY <1>4, <2>1
  <2>3. a[i] = read_function(data, u)
    BY <1>2, <2>1
  <2>4. /\ Len(c[k]) \in Nat /\ Len(w) \in Nat /\ Len(c[i]) = Len(c[k]) + Len(w)
        /\ Len(c[i]) <= Len(c[m])
        /\ \A j \in 1 .. Len(w) : c[m][Len(c[k]) + j] = w[j]
    <3>1. ss[i] = w
      BY <2>1 DEF FunctionParts
    <3>2. PartAt(c, ss, i)
      <4>1. i \in 1 .. Len(ss)
        BY <2>1
      <4> HIDE DEF i
      <4> QED
        BY <1>11, <4>1, SumsPart
    <3> HIDE DEF w, i
    <3> QED
      BY <2>1, <3>1, <3>2 DEF PartAt
  <2>5. FunctionRecord(v) /\ v \in V
    BY <2>1 DEF FunctionParts, WellFormed, Range
  <2> HIDE DEF v, w, u, T, m, V, i
  <2>6. CASE ~ u.ok
    <3>1. IsReader(a[i]) /\ ~ a[i].ok
      BY <2>2, <2>3, <2>6, ReadFunctionFails DEF u
    <3>2. ~ (p + Len(c[i]) <= Len(data))
      <4>1. ~ (p + Len(c[k]) <= Len(data))
        BY <2>2, <2>6 DEF u
      <4>2. Len(c[k]) \in Nat /\ Len(w) \in Nat /\ Len(c[i]) = Len(c[k]) + Len(w)
        BY <2>4
      <4> QED
        BY <1>10, <4>1, <4>2
    <3> QED
      BY <3>1, <3>2 DEF i
  <2>7. CASE u.ok
    <3>1. IsReader(u) /\ u.pos = p + Len(c[k]) /\ u.pos \in Nat
      BY <1>10, <2>2, <2>4, <2>7 DEF u
    <3>2. Holds(data, u.pos, w)
      <4> SUFFICES ASSUME NEW j \in 1 .. Len(w), u.pos + j <= Len(data)
                   PROVE  data[u.pos + j] = w[j]
        BY DEF Holds
      <4>1. \A x \in 1 .. Len(c[m]) : p + x <= Len(data) => data[p + x] = c[m][x]
        BY DEF Before, Holds, m
      <4>2. Len(c[k]) + j \in 1 .. Len(c[m]) /\ p + (Len(c[k]) + j) = u.pos + j
        <5>2. Len(c[m]) \in Nat
          BY <1>1, <1>9
        <5>3. Len(c[k]) \in Nat /\ Len(w) \in Nat /\ Len(c[k]) + Len(w) <= Len(c[m])
          BY <2>4
        <5>4. Len(c[k]) + j \in 1 .. Len(c[m])
          BY <5>2, <5>3
        <5>5. p \in Nat /\ u.pos = p + Len(c[k])
          BY <1>10, <3>1
        <5>6. p + (Len(c[k]) + j) = u.pos + j
          BY <5>3, <5>5
        <5> QED
          BY <5>4, <5>6
      <4> QED
        BY <4>1, <4>2, <2>4
    <3> DEFINE q == read_function(data, u)
    <3>4. /\ IsReader(q)
          /\ q.ok <=> u.pos + Len(w) <= Len(data)
          /\ q.ok => /\ q.pos = u.pos + Len(w)
                     /\ q.functions = Append(u.functions, v) /\ q.constants = u.constants
      BY <1>10, <3>1, <3>2, <2>5, <2>7, ReadFunctionIs DEF w
    <3>5. u.pos + Len(w) = p + Len(c[i])
      BY <1>10, <2>4, <3>1
    <3>6. ASSUME q.ok
          PROVE  /\ q.functions \in Seq(V) /\ Len(q.functions) = i
                 /\ \A j \in 1 .. i : q.functions[j] = img.functions[j]
      <4>1. /\ u.functions \in Seq(V) /\ Len(u.functions) = k
            /\ \A j \in 1 .. k : u.functions[j] = img.functions[j]
        BY <2>2, <2>7 DEF u
      <4>2. q.functions = Append(u.functions, v)
        BY <3>4, <3>6
      <4>3. i = k + 1 /\ img.functions[i] = v
        BY DEF i, v
      <4> QED
        BY <4>1, <4>2, <4>3, <2>5
    <3>7. q.ok => q.constants = r.constants
      BY <3>4, <2>2, <2>7 DEF u
    <3> HIDE DEF q
    <3> QED
      BY <2>3, <3>4, <3>5, <3>6, <3>7 DEF q, i
  <2> QED
    BY <2>6, <2>7
<1>5. Good(m)
  <2>1. \A k \in Nat : k \in T
    <3> HIDE DEF T
    <3> QED
      BY <1>3, <1>4, Induct
  <2> QED
    BY <2>1, <1>1
<1>6. a[m].ok => a[m].functions = img.functions
  <2>1. img.functions \in Seq(V)
    BY DEF FunctionParts, WellFormed
  <2> QED
    BY <1>1, <1>5, <2>1, SameSequence
<1> QED
  BY <1>2, <1>5, <1>6

\* A constant is written as a sequence of fields.
LEMMA WrittenConstantFields ==
  ASSUME NEW v, Constant(v)
  PROVE  WriteConstant(v) \in Seq(Range(WriteConstant(v)))
<1>1. CASE v[1] = "null"
  <2>1. WriteConstant(v) = << <<1, "null">> >>
    BY <1>1 DEF WriteConstant
  <2>2. << <<1, "null">> >> \in Seq({<<1, "null">>})
    OBVIOUS
  <2> QED
    BY <2>1, <2>2, OwnRange
<1>2. CASE v[1] = "bool"
  <2>1. WriteConstant(v) = << <<1, "bool">>, <<1, v[2]>> >>
    BY <1>2 DEF WriteConstant
  <2>2. << <<1, "bool">>, <<1, v[2]>> >> \in Seq({<<1, "bool">>, <<1, v[2]>>})
    OBVIOUS
  <2> QED
    BY <2>1, <2>2, OwnRange
<1>3. CASE v[1] \in {"i64", "f64"}
  <2>1. WriteConstant(v) = << <<1, v[1]>>, <<8, v[2]>> >>
    BY <1>3 DEF WriteConstant
  <2>2. << <<1, v[1]>>, <<8, v[2]>> >> \in Seq({<<1, v[1]>>, <<8, v[2]>>})
    OBVIOUS
  <2> QED
    BY <2>1, <2>2, OwnRange
<1>4. CASE v[1] = "str"
  <2>1. WriteConstant(v) = << <<1, "str">>, <<4, 1>>, <<0, v[2]>> >>
    BY <1>4 DEF WriteConstant
  <2>2. << <<1, "str">>, <<4, 1>>, <<0, v[2]>> >> \in Seq({<<1, "str">>, <<4, 1>>, <<0, v[2]>>})
    OBVIOUS
  <2> QED
    BY <2>1, <2>2, OwnRange
<1> QED
  BY <1>1, <1>2, <1>3, <1>4 DEF Constant, ConstantTags

\* Once it has failed the reader of the functions goes on failing.
LEMMA ReadFunctionsFails ==
  ASSUME NEW data, NEW r, IsReader(r), ~ r.ok, NEW count \in Nat
  PROVE  IsReader(read_functions(data, r, count)) /\ ~ read_functions(data, r, count).ok
<1>1. PICK a : /\ a[0] = r
               /\ \A i \in 1 .. count : a[i] = read_function(data, a[i - 1])
               /\ read_functions(data, r, count) = a[count]
  BY ReadFunctionsSteps
<1> DEFINE T == {k \in Nat : k <= count => IsReader(a[k]) /\ ~ a[k].ok}
<1>2. 0 \in T
  BY <1>1
<1>3. ASSUME NEW k \in Nat, k \in T PROVE k + 1 \in T
  <2> SUFFICES ASSUME k + 1 <= count PROVE IsReader(a[k + 1]) /\ ~ a[k + 1].ok
    OBVIOUS
  <2>1. IsReader(a[k]) /\ ~ a[k].ok
    BY <1>3
  <2>2. k + 1 \in 1 .. count /\ (k + 1) - 1 = k
    OBVIOUS
  <2>3. a[k + 1] = read_function(data, a[k])
    BY <1>1, <2>2
  <2> QED
    BY <2>1, <2>3, ReadFunctionFails
<1>4. \A k \in Nat : k \in T
  <2> HIDE DEF T
  <2> QED
    BY <1>2, <1>3, Induct
<1>5. IsReader(a[count]) /\ ~ a[count].ok
  BY <1>4
<1> QED
  BY <1>1, <1>5

\* Where the parts of an image are in its file.
FileOf(img, C, D, bytes) ==
  /\ Len(C) \in Nat /\ Len(D) \in Nat /\ Len(img.code) \in Nat
  /\ Len(bytes) = 5 + Len(C) + Len(D) + 1 + Len(img.code) + 1
  /\ \A i \in 1 .. 5 : bytes[i][1] = <<4, 2, 2, 2, 2>>[i]
  /\ bytes[1][2] = Magic /\ bytes[4][2] = Len(img.constants) /\ bytes[5][2] = Len(img.functions)
  /\ \A j \in 1 .. Len(C) : bytes[5 + j] = C[j]
  /\ \A j \in 1 .. Len(D) : bytes[5 + Len(C) + j] = D[j]
  /\ bytes[5 + Len(C) + Len(D) + 1] = <<4, Len(img.code)>>
  /\ \A j \in 1 .. Len(img.code) : bytes[5 + Len(C) + Len(D) + 1 + j] = <<0, img.code[j]>>
  /\ bytes[Len(bytes)] = <<4, 0>>
  /\ \E S : bytes \in Seq(S)

\* The parts of a written file.
LEMMA WrittenImage ==
  ASSUME NEW img, WellFormed(img)
  PROVE  \E S, ss, c, tt, d :
           /\ ConstantParts(img, ss, c, S) /\ FunctionParts(img, tt, d, S)
           /\ FileOf(img, c[Len(ss)], d[Len(tt)], arc_image_write(img))
<1> DEFINE cn == img.constants
           fn == img.functions
           l == Len(img.code)
           ss == [i \in 1 .. Len(cn) |-> WriteConstant(cn[i])]
           tt == [i \in 1 .. Len(fn) |-> WriteFunction(fn[i])]
           head == << <<4, Magic>>, <<2, Version>>, <<2, 0>>, <<2, Len(cn)>>, <<2, Len(fn)>> >>
           len == << <<4, l>> >>
           code == [i \in 1 .. l |-> <<0, img.code[i]>>]
           end == << <<4, 0>> >>
           S1 == {<<4, Magic>>, <<2, Version>>, <<2, 0>>, <<2, Len(cn)>>, <<2, Len(fn)>>, <<4, l>>, <<4, 0>>}
           S2 == UNION {Range(WriteConstant(cn[i])) : i \in 1 .. Len(cn)}
           S3 == UNION {Range(WriteFunction(fn[i])) : i \in 1 .. Len(fn)}
           S4 == {<<0, img.code[i]>> : i \in 1 .. l}
           S == S1 \cup S2 \cup S3 \cup S4
<1>1. l \in Nat /\ Len(cn) \in Nat /\ Len(fn) \in Nat
  BY DEF WellFormed
<1>2. ss \in Seq(Seq(S)) /\ Len(ss) = Len(cn) /\ \A i \in 1 .. Len(ss) : ss[i] = WriteConstant(cn[i])
  <2>1. ASSUME NEW i \in 1 .. Len(cn) PROVE WriteConstant(cn[i]) \in Seq(S)
    <3>1. Constant(cn[i])
      BY DEF WellFormed
    <3> DEFINE w == WriteConstant(cn[i])
    <3>2. w \in Seq(Range(w))
      BY <3>1, WrittenConstantFields
    <3>3. Range(w) \subseteq S
      <4>1. Range(w) \subseteq S2
        OBVIOUS
      <4> HIDE DEF S1, S2, S3, S4
      <4> QED
        BY <4>1
    <3> HIDE DEF w, S
    <3> QED
      BY <3>2, <3>3 DEF w
  <2> HIDE DEF S, cn
  <2> QED
    BY <1>1, <2>1
<1>3. tt \in Seq(Seq(S)) /\ Len(tt) = Len(fn) /\ \A i \in 1 .. Len(tt) : tt[i] = WriteFunction(fn[i])
  <2>1. ASSUME NEW i \in 1 .. Len(fn) PROVE WriteFunction(fn[i]) \in Seq(S)
    <3>1. FunctionRecord(fn[i])
      BY DEF WellFormed
    <3> DEFINE w == WriteFunction(fn[i])
    <3>2. w \in Seq(Range(w))
      BY <3>1, WrittenFunction
    <3>3. Range(w) \subseteq S
      <4>1. Range(w) \subseteq S3
        OBVIOUS
      <4> HIDE DEF S1, S2, S3, S4
      <4> QED
        BY <4>1
    <3> HIDE DEF w, S
    <3> QED
      BY <3>2, <3>3 DEF w
  <2> HIDE DEF S, fn
  <2> QED
    BY <1>1, <2>1
<1>4. head \in Seq(S) /\ len \in Seq(S) /\ end \in Seq(S)
  <2>1. /\ <<4, Magic>> \in S /\ <<2, Version>> \in S /\ <<2, 0>> \in S /\ <<2, Len(cn)>> \in S
        /\ <<2, Len(fn)>> \in S /\ <<4, l>> \in S /\ <<4, 0>> \in S
    OBVIOUS
  <2> HIDE DEF S, cn, fn, l
  <2> QED
    BY <2>1
<1>5. code \in Seq(S) /\ Len(code) = l
  <2>1. ASSUME NEW i \in 1 .. l PROVE <<0, img.code[i]>> \in S
    <3>1. <<0, img.code[i]>> \in S4
      OBVIOUS
    <3> HIDE DEF S1, S2, S3, S4
    <3> QED
      BY <3>1
  <2> HIDE DEF S, l
  <2> QED
    BY <1>1, <2>1
<1> HIDE DEF S
<1>6. PICK c : Sums(c, ss, S) /\ FlattenSeq(ss) = c[Len(ss)]
  <2> HIDE DEF ss
  <2> QED
    BY <1>2, FlattenSums
<1>7. PICK d : Sums(d, tt, S) /\ FlattenSeq(tt) = d[Len(tt)]
  <2> HIDE DEF tt
  <2> QED
    BY <1>3, FlattenSums
<1> DEFINE C == c[Len(ss)]
           D == d[Len(tt)]
           bytes == head \o C \o D \o len \o code \o end
<1>8. arc_image_write(img) = bytes
  BY <1>6, <1>7 DEF arc_image_write
<1>9. C \in Seq(S) /\ D \in Seq(S)
  <2> HIDE DEF ss, tt
  <2>1. Len(ss) \in Nat /\ Len(tt) \in Nat
    BY <1>1, <1>2, <1>3
  <2> QED
    BY <2>1, <1>6, <1>7 DEF Sums
<1> HIDE DEF ss, tt, C, D, code
<1>10. Len(head) = 5 /\ Len(len) = 1 /\ Len(end) = 1 /\ len[1] = <<4, l>> /\ end[1] = <<4, 0>>
  OBVIOUS
<1>11. /\ \A i \in 1 .. 5 : head[i][1] = <<4, 2, 2, 2, 2>>[i]
       /\ head[1][2] = Magic /\ head[4][2] = Len(cn) /\ head[5][2] = Len(fn)
  OBVIOUS
<1>12. \A j \in 1 .. l : code[j] = <<0, img.code[j]>>
  BY DEF code
<1> HIDE DEF head, len, end, bytes
<1>13. bytes \in Seq(S) /\ SixParts(bytes, head, C, D, len, code, end)
  <2>1. code \in Seq(S)
    BY <1>5
  <2> QED
    BY <2>1, <1>4, <1>9, ConcatSix DEF bytes
<1> USE DEF SixParts
<1>14. Len(C) \in Nat /\ Len(D) \in Nat
  BY <1>9
<1>15. FileOf(img, C, D, bytes)
  <2>1. Len(bytes) = 5 + Len(C) + Len(D) + 1 + l + 1
    BY <1>5, <1>10, <1>13
  <2>2. \A i \in 1 .. 5 : bytes[i] = head[i]
    BY <1>10, <1>13
  <2>3. \A i \in 1 .. 5 : bytes[i][1] = <<4, 2, 2, 2, 2>>[i]
    BY <1>11, <2>2
  <2>4. bytes[1][2] = Magic /\ bytes[4][2] = Len(cn) /\ bytes[5][2] = Len(fn)
    BY <1>11, <2>2
  <2>5. /\ \A j \in 1 .. Len(C) : bytes[5 + j] = C[j]
        /\ \A j \in 1 .. Len(D) : bytes[5 + Len(C) + j] = D[j]
    BY <1>10, <1>13
  <2>6. bytes[5 + Len(C) + Len(D) + 1] = <<4, l>>
    <3>1. 1 \in 1 .. Len(len)
      BY <1>10
    <3> QED
      BY <3>1, <1>10, <1>13
  <2>7. \A j \in 1 .. l : bytes[5 + Len(C) + Len(D) + 1 + j] = <<0, img.code[j]>>
    BY <1>5, <1>10, <1>12, <1>13
  <2>8. bytes[Len(bytes)] = <<4, 0>>
    <3>1. 1 \in 1 .. Len(end)
      BY <1>10
    <3>2. Len(bytes) = Len(head) + Len(C) + Len(D) + Len(len) + Len(code) + 1
      BY <1>10, <1>13
    <3> QED
      BY <3>1, <3>2, <1>10, <1>13
  <2> QED
    BY <1>1, <1>13, <1>14, <2>1, <2>3, <2>4, <2>5, <2>6, <2>7, <2>8 DEF FileOf
<1>16. ConstantParts(img, ss, c, S) /\ FunctionParts(img, tt, d, S)
  BY <1>2, <1>3, <1>6, <1>7 DEF ConstantParts, FunctionParts
<1> QED
  BY <1>8, <1>15, <1>16 DEF C, D

\* The five fields of the header.
LEMMA ReadFive ==
  ASSUME NEW data, NEW r, IsReader(r)
  PROVE  LET widths == <<4, 2, 2, 2, 2>>
             q == ReadFields(data, r, widths) IN
         /\ IsReader(q)
         /\ q.ok <=> /\ r.ok /\ r.pos + 5 <= Len(data)
                     /\ \A i \in 1 .. 5 : data[r.pos + i][1] = widths[i]
         /\ q.ok => q.pos = r.pos + 5 /\ \A i \in 1 .. 5 : q.got[i] = data[r.pos + i][2]
         /\ q.constants = r.constants /\ q.functions = r.functions
<1> DEFINE widths == <<4, 2, 2, 2, 2>>
           n == Len(widths)
           q == ReadFields(data, r, widths)
<1>1. n = 5
  OBVIOUS
<1> HIDE DEF widths
<1>2. /\ IsReader(q)
      /\ q.ok <=> /\ r.ok /\ r.pos + n <= Len(data)
                  /\ \A i \in 1 .. n : data[r.pos + i][1] = widths[i]
      /\ q.ok => q.pos = r.pos + n /\ q.got = [i \in 1 .. n |-> data[r.pos + i][2]]
      /\ q.constants = r.constants /\ q.functions = r.functions
  <2>1. FieldsRead(q, data, r, widths)
    BY ReadFieldsIs
  <2> QED
    BY <2>1 DEF FieldsRead
<1> HIDE DEF n, q
<1>3. q.ok => q.pos = r.pos + 5 /\ \A i \in 1 .. 5 : q.got[i] = data[r.pos + i][2]
  BY <1>1, <1>2
<1> QED
  BY <1>1, <1>2, <1>3 DEF q, widths

\* The header of a file that starts as the bytes do.
LEMMA ReadHeader ==
  ASSUME NEW img, NEW C, NEW D, NEW bytes, FileOf(img, C, D, bytes),
         NEW data, Len(data) \in Nat,
         \A i \in 1 .. Len(data) : data[i] = bytes[i]
  PROVE  LET q == ReadFields(data, NewReader, <<4, 2, 2, 2, 2>>) IN
         /\ IsReader(q)
         /\ q.ok <=> 5 <= Len(data)
         /\ q.ok => /\ q.pos = 5 /\ q.got[1] = Magic
                    /\ q.got[4] = Len(img.constants) /\ q.got[5] = Len(img.functions)
         /\ q.constants = <<>> /\ q.functions = <<>>
<1> DEFINE r == NewReader
           widths == <<4, 2, 2, 2, 2>>
           q == ReadFields(data, r, widths)
<1>1. IsReader(r) /\ r.ok /\ r.pos = 0 /\ r.constants = <<>> /\ r.functions = <<>>
  BY DEF NewReader, IsReader
<1>2. /\ IsReader(q)
      /\ q.ok <=> /\ r.ok /\ r.pos + 5 <= Len(data)
                  /\ \A i \in 1 .. 5 : data[r.pos + i][1] = widths[i]
      /\ q.ok => q.pos = r.pos + 5 /\ \A i \in 1 .. 5 : q.got[i] = data[r.pos + i][2]
      /\ q.constants = r.constants /\ q.functions = r.functions
  <2> HIDE DEF r
  <2> QED
    BY <1>1, ReadFive
<1>3. /\ \A i \in 1 .. 5 : bytes[i][1] = widths[i]
      /\ bytes[1][2] = Magic /\ bytes[4][2] = Len(img.constants) /\ bytes[5][2] = Len(img.functions)
  BY DEF FileOf
<1> HIDE DEF r, q, widths
<1>4. ASSUME 5 <= Len(data) PROVE \A i \in 1 .. 5 : data[r.pos + i] = bytes[i]
  BY <1>1, <1>4
<1>5. q.ok <=> 5 <= Len(data)
  <2>1. r.pos + 5 = 5
    BY <1>1
  <2>2. 5 <= Len(data) => \A i \in 1 .. 5 : data[r.pos + i][1] = widths[i]
    BY <1>3, <1>4
  <2> QED
    BY <1>1, <1>2, <2>1, <2>2
<1>6. ASSUME q.ok
      PROVE  /\ q.pos = 5 /\ q.got[1] = Magic
             /\ q.got[4] = Len(img.constants) /\ q.got[5] = Len(img.functions)
  <2>1. q.pos = 5
    BY <1>1, <1>2, <1>6
  <2>2. \A i \in 1 .. 5 : q.got[i] = bytes[i][2]
    BY <1>2, <1>4, <1>5, <1>6
  <2>3. 1 \in 1 .. 5 /\ 4 \in 1 .. 5 /\ 5 \in 1 .. 5
    OBVIOUS
  <2> QED
    BY <1>3, <2>1, <2>2, <2>3
<1> QED
  BY <1>1, <1>2, <1>5, <1>6 DEF q, r, widths

\* The code of the file.
CodeRead(data, r, img) ==
  LET q == ReadFields(data, r, <<4>>)
      code == ReadFields(data, q, Times(q.got[1], 0)) IN
  /\ r.ok /\ r.pos \in Nat /\ Len(data) \in Nat
  /\ q.ok <=> r.pos + 1 <= Len(data)
  /\ IsReader(code)
  /\ q.ok => (code.ok <=> r.pos + 1 + Len(img.code) <= Len(data))
  /\ q.ok /\ code.ok =>
       /\ code.pos = r.pos + 1 + Len(img.code) /\ code.got = img.code
       /\ code.constants = r.constants /\ code.functions = r.functions
LEMMA ReadCode ==
  ASSUME NEW img, img.code \in Seq(Range(img.code)),
         NEW data, Len(data) \in Nat, NEW r, IsReader(r), r.ok, r.pos \in Nat,
         r.pos + 1 <= Len(data) => data[r.pos + 1] = <<4, Len(img.code)>>,
         \A j \in 1 .. Len(img.code) :
           r.pos + 1 + j <= Len(data) => data[r.pos + 1 + j] = <<0, img.code[j]>>
  PROVE  CodeRead(data, r, img)
<1> DEFINE q == ReadFields(data, r, <<4>>)
           l == Len(img.code)
           zeros == Times(q.got[1], 0)
           code == ReadFields(data, q, zeros)
<1>1. l \in Nat /\ img.code = [i \in 1 .. l |-> img.code[i]]
  OBVIOUS
<1>2. /\ IsReader(q)
      /\ q.ok <=> r.ok /\ r.pos + 1 <= Len(data) /\ data[r.pos + 1][1] = 4
      /\ q.ok => q.pos = r.pos + 1 /\ q.got[1] = data[r.pos + 1][2]
      /\ q.constants = r.constants /\ q.functions = r.functions
  <2>1. FieldRead(q, data, r, 4)
    BY ReadField
  <2> QED
    BY <2>1 DEF FieldRead
<1>3. /\ IsReader(code)
      /\ code.ok <=> /\ q.ok /\ q.pos + Len(zeros) <= Len(data)
                     /\ \A i \in 1 .. Len(zeros) : data[q.pos + i][1] = zeros[i]
      /\ code.ok => /\ code.pos = q.pos + Len(zeros)
                    /\ code.got = [i \in 1 .. Len(zeros) |-> data[q.pos + i][2]]
      /\ code.constants = q.constants /\ code.functions = q.functions
  <2> HIDE DEF q, zeros
  <2>1. FieldsRead(code, data, q, zeros)
    BY <1>2, ReadFieldsIs
  <2> QED
    BY <2>1 DEF FieldsRead
<1> HIDE DEF q, code, l
<1>4. q.ok <=> r.pos + 1 <= Len(data)
  BY <1>2
<1>5. ASSUME q.ok
      PROVE  /\ code.ok <=> r.pos + 1 + l <= Len(data)
             /\ code.ok => /\ code.pos = r.pos + 1 + l /\ code.got = img.code
                           /\ code.constants = r.constants /\ code.functions = r.functions
  <2>1. q.pos = r.pos + 1 /\ q.got[1] = l
    BY <1>2, <1>4, <1>5 DEF l
  <2>2. Len(zeros) = l /\ \A i \in 1 .. l : zeros[i] = 0
    BY <1>1, <2>1, TimesIs
  <2> HIDE DEF zeros
  <2>3. ASSUME NEW i \in 1 .. l, r.pos + 1 + l <= Len(data) PROVE data[q.pos + i] = <<0, img.code[i]>>
    <3>1. r.pos + 1 + i <= Len(data) /\ q.pos + i = r.pos + 1 + i
      BY <1>1, <2>1, <2>3
    <3> QED
      BY <3>1 DEF l
  <2>4. code.ok <=> r.pos + 1 + l <= Len(data)
    <3>1. q.pos + l = r.pos + 1 + l
      BY <2>1
    <3>2. r.pos + 1 + l <= Len(data) => \A i \in 1 .. l : data[q.pos + i][1] = zeros[i]
      BY <2>2, <2>3
    <3> QED
      BY <1>3, <1>5, <2>2, <3>1, <3>2
  <2>5. code.ok => code.pos = r.pos + 1 + l /\ code.got = img.code
    <3> SUFFICES ASSUME code.ok PROVE code.pos = r.pos + 1 + l /\ code.got = img.code
      OBVIOUS
    <3>1. code.pos = q.pos + l /\ code.got = [i \in 1 .. l |-> data[q.pos + i][2]]
      BY <1>3, <2>2
    <3>2. ASSUME NEW i \in 1 .. l PROVE data[q.pos + i][2] = img.code[i]
      <4>1. data[q.pos + i] = <<0, img.code[i]>>
        BY <2>3, <2>4
      <4> QED
        BY <4>1
    <3> QED
      BY <1>1, <2>1, <3>1, <3>2
  <2> QED
    BY <1>2, <1>3, <2>4, <2>5
<1> QED
  BY <1>3, <1>4, <1>5 DEF CodeRead, q, code, l

\* The first n fields of the file of an image, read.
ReadsBack(img, n) ==
  LET bytes == arc_image_write(img)
      got == arc_image_read(SubSeq(bytes, 1, n)) IN
  /\ got.ok <=> n >= Len(bytes) - 1
  /\ got.ok => /\ got.constants = img.constants /\ got.functions = img.functions
               /\ got.code = img.code

\* For every image that a file can hold, with any number of constants, functions,
\* upvalues and instructions: arc_image_read accepts what arc_image_write has
\* written, and has its constants in the same places, its functions and its code;
\* it accepts a beginning of that file only if nothing but the count of debug
\* entries is missing.
THEOREM RoundTrip ==
  ASSUME NEW img, WellFormed(img), NEW n \in 0 .. Len(arc_image_write(img))
  PROVE  ReadsBack(img, n)
<1> DEFINE bytes == arc_image_write(img)
           data == SubSeq(bytes, 1, n)
           header == ReadFields(data, NewReader, <<4, 2, 2, 2, 2>>)
           constants == read_constants(data, header, header.got[4])
           functions == read_functions(data, constants, header.got[5])
           length == ReadFields(data, functions, <<4>>)
           code == ReadFields(data, length, Times(length.got[1], 0))
           debug == IF code.pos < Len(data) THEN ReadFields(data, code, <<4>>) ELSE code
           got == arc_image_read(data)
<1>1. got = IF ~ header.ok \/ header.got[1] # Magic THEN NoImage
            ELSE IF ~ length.ok \/ ~ code.ok \/ ~ debug.ok THEN NoImage
            ELSE [ok |-> TRUE, constants |-> code.constants, functions |-> code.functions,
                  code |-> code.got]
  BY DEF arc_image_read
<1>2. PICK S, ss, c, tt, d :
        /\ ConstantParts(img, ss, c, S) /\ FunctionParts(img, tt, d, S)
        /\ FileOf(img, c[Len(ss)], d[Len(tt)], bytes)
  BY WrittenImage
<1> DEFINE C == c[Len(ss)]
           D == d[Len(tt)]
           l == Len(img.code)
<1>11. FileOf(img, C, D, bytes)
  BY <1>2
<1> HIDE DEF C, D, l
<1>3. /\ Len(C) \in Nat /\ Len(D) \in Nat /\ l \in Nat
      /\ Len(bytes) = 5 + Len(C) + Len(D) + 1 + l + 1
  BY <1>11 DEF FileOf, l
<1>12. n \in Nat /\ n <= Len(bytes)
  <2>1. n \in 0 .. Len(bytes)
    OBVIOUS
  <2> HIDE DEF bytes
  <2> QED
    BY <1>3, <2>1
<1>4. Len(data) = n /\ n \in Nat /\ \A i \in 1 .. n : data[i] = bytes[i]
  <2>1. PICK S0 : bytes \in Seq(S0)
    BY <1>11 DEF FileOf
  <2> HIDE DEF bytes
  <2> QED
    BY <2>1
<1>5. Len(ss) = Len(img.constants) /\ Len(tt) = Len(img.functions) /\ Len(tt) \in Nat
  BY <1>2 DEF ConstantParts, FunctionParts, WellFormed
<1> HIDE DEF bytes, data
<1>6. /\ IsReader(header)
      /\ header.ok <=> 5 <= n
      /\ header.ok => /\ header.pos = 5 /\ header.got[1] = Magic
                      /\ header.got[4] = Len(ss) /\ header.got[5] = Len(tt)
      /\ header.constants = <<>> /\ header.functions = <<>>
  BY <1>11, <1>4, <1>5, ReadHeader
<1> HIDE DEF header, got
<1>7. ASSUME got = NoImage PROVE ~ got.ok
  BY <1>7 DEF NoImage
<1>8. ASSUME got = NoImage, n < Len(bytes) - 1 PROVE ReadsBack(img, n)
  <2>1. ~ (n >= Len(bytes) - 1)
    BY <1>3, <1>12, <1>4, <1>8
  <2> QED
    BY <1>7, <1>8, <2>1 DEF ReadsBack, got, data, bytes
<1>9. CASE ~ header.ok
  BY <1>1, <1>3, <1>12, <1>4, <1>6, <1>8, <1>9
<1>10. CASE header.ok
  <2>0. 5 <= n /\ header.pos = 5
    BY <1>6, <1>10
  <2>1. Before(data, header, C)
    <3>1. ASSUME NEW j \in 1 .. Len(C), header.pos + j <= Len(data) PROVE data[header.pos + j] = C[j]
      <4>1. 5 + j \in 1 .. n
        BY <1>3, <1>12, <1>4, <2>0, <3>1
      <4>2. \A i \in 1 .. Len(C) : bytes[5 + i] = C[i]
        BY <1>11 DEF FileOf
      <4> QED
        BY <4>1, <4>2, <1>4, <2>0
    <3>2. header.pos \in 0 .. Len(data) /\ Len(data) \in Nat
      BY <1>4, <2>0
    <3> QED
      BY <1>6, <1>10, <3>1, <3>2 DEF Before, Holds
  <2>2. /\ IsReader(constants)
        /\ constants.ok <=> 5 + Len(C) <= n
        /\ constants.ok => /\ constants.pos = 5 + Len(C) /\ constants.constants = img.constants
                           /\ constants.functions = <<>>
    <3>1. constants = read_constants(data, header, Len(ss))
      BY <1>6, <1>10
    <3> HIDE DEF constants
    <3> QED
      BY <3>1, <1>2, <1>4, <1>6, <2>0, <2>1, ReadConstantsIs DEF C
  <2>3. functions = read_functions(data, constants, Len(tt))
    BY <1>6, <1>10
  <2> HIDE DEF constants, functions
  <2>4. CASE ~ constants.ok
    <3>1. IsReader(functions) /\ ~ functions.ok
      BY <1>5, <2>2, <2>3, <2>4, ReadFunctionsFails
    <3>2. ~ length.ok
      <4>1. FieldRead(length, data, functions, 4)
        BY <3>1, ReadField
      <4> QED
        BY <3>1, <4>1 DEF FieldRead
    <3>3. got = NoImage
      BY <1>1, <3>2
    <3> QED
      BY <1>3, <1>12, <1>4, <1>8, <2>2, <2>4, <3>3
  <2>5. CASE constants.ok
    <3>1. Before(data, constants, D)
      <4>1. ASSUME NEW j \in 1 .. Len(D), constants.pos + j <= Len(data)
            PROVE  data[constants.pos + j] = D[j]
        <5>1. constants.pos = 5 + Len(C)
          BY <2>2, <2>5
        <5>2. 5 + Len(C) + j \in 1 .. n
          BY <1>3, <1>12, <1>4, <4>1, <5>1
        <5>3. \A i \in 1 .. Len(D) : bytes[5 + Len(C) + i] = D[i]
          BY <1>11 DEF FileOf
        <5> QED
          BY <1>4, <5>1, <5>2, <5>3
      <4>2. constants.pos \in 0 .. Len(data) /\ Len(data) \in Nat
        BY <1>3, <1>12, <1>4, <2>2, <2>5
      <4> QED
        BY <2>2, <2>5, <4>1, <4>2 DEF Before, Holds
    <3>2. /\ IsReader(functions)
          /\ functions.ok <=> 5 + Len(C) + Len(D) <= n
          /\ functions.ok => /\ functions.pos = 5 + Len(C) + Len(D)
                             /\ functions.constants = img.constants
                             /\ functions.functions = img.functions
      <4>1. constants.pos = 5 + Len(C) /\ constants.functions = <<>> /\ constants.constants = img.constants
        BY <2>2, <2>5
      <4>2. FunctionParts(img, tt, d, S) /\ Before(data, constants, d[Len(tt)])
        BY <1>2, <3>1 DEF D
      <4>3. /\ IsReader(functions)
            /\ functions.ok <=> constants.pos + Len(D) <= Len(data)
            /\ functions.ok => /\ functions.pos = constants.pos + Len(D)
                               /\ functions.functions = img.functions
                               /\ functions.constants = constants.constants
        <5>1. constants.functions = <<>>
          BY <4>1
        <5> QED
          BY <2>3, <4>2, <5>1, ReadFunctionsIs DEF D
      <4> QED
        BY <1>4, <4>1, <4>3
    <3>3. CASE ~ functions.ok
      <4>1. ~ length.ok
        <5>1. FieldRead(length, data, functions, 4)
          BY <3>2, ReadField
        <5> QED
          BY <3>3, <5>1 DEF FieldRead
      <4>2. got = NoImage
        BY <1>1, <4>1
      <4> QED
        BY <1>3, <1>12, <1>4, <1>8, <3>2, <3>3, <4>2
    <3>4. CASE functions.ok
      <4> DEFINE p == 5 + Len(C) + Len(D)
      <4>1. p \in Nat /\ functions.pos = p /\ Len(bytes) = p + 1 + l + 1
        BY <1>3, <3>2, <3>4
      <4>2. p + 1 <= n => data[p + 1] = <<4, l>>
        <5>1. bytes[p + 1] = <<4, l>>
          BY <1>11 DEF FileOf, l
        <5> QED
          BY <1>4, <4>1, <5>1
      <4>3. ASSUME NEW j \in 1 .. l, p + 1 + j <= n PROVE data[p + 1 + j] = <<0, img.code[j]>>
        <5>1. bytes[p + 1 + j] = <<0, img.code[j]>>
          BY <1>11 DEF FileOf, l
        <5>2. p + 1 + j \in 1 .. n
          BY <1>3, <1>12, <1>4, <4>1, <4>3
        <5> QED
          BY <1>4, <5>1, <5>2
      <4> HIDE DEF p
      <4>4. CodeRead(data, functions, img)
        <5>1. img.code \in Seq(Range(img.code))
          BY DEF WellFormed
        <5> QED
          BY <1>4, <3>2, <3>4, <4>1, <4>2, <4>3, <5>1, ReadCode DEF l
      <4>5. /\ length.ok <=> p + 1 <= n
            /\ IsReader(code)
            /\ length.ok => (code.ok <=> p + 1 + l <= n)
            /\ length.ok /\ code.ok =>
                 /\ code.pos = p + 1 + l /\ code.got = img.code
                 /\ code.constants = functions.constants /\ code.functions = functions.functions
        BY <1>4, <4>1, <4>4 DEF CodeRead, l
      <4> HIDE DEF length, code
      <4>6. CASE ~ length.ok \/ ~ code.ok
        <5>1. got = NoImage
          BY <1>1, <4>6
        <5>2. n < Len(bytes) - 1
          BY <1>3, <1>12, <1>4, <4>1, <4>5, <4>6
        <5> QED
          BY <1>8, <5>1, <5>2
      <4>7. CASE length.ok /\ code.ok
        <5>1. n >= Len(bytes) - 1 /\ code.pos = p + 1 + l
          BY <1>3, <1>12, <1>4, <4>1, <4>5, <4>7
        <5>2. debug.ok
          <6>1. CASE code.pos < Len(data)
            <7>1. n = Len(bytes) /\ code.pos + 1 = Len(bytes) /\ code.pos + 1 \in 1 .. n
              BY <1>3, <1>12, <1>4, <4>1, <5>1, <6>1
            <7>2. data[code.pos + 1][1] = 4
              <8>1. bytes[Len(bytes)] = <<4, 0>>
                BY <1>11 DEF FileOf
              <8> QED
                BY <1>4, <7>1, <8>1
            <7> DEFINE q == ReadFields(data, code, <<4>>)
            <7>3. q.ok <=> code.ok /\ code.pos + 1 <= Len(data) /\ data[code.pos + 1][1] = 4
              <8>1. FieldRead(q, data, code, 4)
                BY <4>5, ReadField
              <8> QED
                BY <8>1 DEF FieldRead
            <7>4. code.pos + 1 <= Len(data)
              BY <1>3, <1>12, <1>4, <7>1
            <7>5. debug = q
              BY <6>1
            <7> QED
              BY <4>7, <7>2, <7>3, <7>4, <7>5
          <6>2. CASE ~ (code.pos < Len(data))
            BY <4>7, <6>2
          <6> QED
            BY <6>1, <6>2
        <5> HIDE DEF debug
        <5>3. header.got[1] = Magic
          BY <1>6, <1>10
        <5>4. got = [ok |-> TRUE, constants |-> code.constants, functions |-> code.functions,
                     code |-> code.got]
          BY <1>1, <1>10, <4>7, <5>2, <5>3
        <5>5. got.ok /\ got.constants = img.constants /\ got.functions = img.functions /\ got.code = img.code
          BY <3>2, <3>4, <4>5, <4>7, <5>4
        <5> QED
          BY <5>1, <5>5 DEF ReadsBack, got, data, bytes
      <4> QED
        BY <4>6, <4>7
    <3> QED
      BY <3>3, <3>4
  <2> QED
    BY <2>4, <2>5
<1> QED
  BY <1>9, <1>10

-----------------------------------------------------------------------------
(* arcana-compile and arcana-run.                                            *)

\* What is read of the file, if it can be read, is what was compiled.
LEMMA FileRead ==
  ASSUME FileInv, ReadFile, image'.ok
  PROVE  LET compiled == Compile(program) IN
         /\ image'.constants = compiled.constants
         /\ image'.functions = compiled.functions
         /\ image'.code = compiled.code
<1> DEFINE img == Compile(program)
<1>1. WellFormed(img)
  BY CompileAssumption DEF FileInv, ReadFile, program
<1>2. PICK n \in 0 .. Len(arc_image_write(img)) : file = SubSeq(arc_image_write(img), 1, n)
  BY DEF FileInv, ReadFile
<1>3. image' = arc_image_read(SubSeq(arc_image_write(img), 1, n))
  BY <1>2 DEF ReadFile
<1> HIDE DEF img
<1>4. ReadsBack(img, n)
  BY <1>1, RoundTrip
<1> QED
  BY <1>3, <1>4 DEF ReadsBack, img

\* The stages keep the program and the file together.
LEMMA FileStep ==
  ASSUME TypeOK, FlowInv, FileInv, Stage
  PROVE  FileInv'
<1> USE DEF FileInv, FileRunsSame, program
<1>1. CASE stage_parse
  BY <1>1 DEF stage_parse, Failed, Ended
<1>2. CASE stage_validate
  BY <1>2 DEF stage_validate, Failed, Ended
<1>3. CASE stage_typecheck
  BY <1>3 DEF stage_typecheck
<1>4. CASE dump_hir
  BY <1>4 DEF dump_hir
<1>5. CASE stage_compile
  BY <1>5 DEF stage_compile, Ended
<1>6. CASE stage_verify
  BY <1>6 DEF stage_verify, Failed, Ended
<1>7. CASE WriteFile
  BY <1>7 DEF WriteFile
<1>8. CASE ReadFile
  <2>1. pc' \in {"setup", "exited"} /\ UNCHANGED <<text, entry>>
    BY <1>8 DEF ReadFile
  <2>2. pc' = "setup" => image'.ok
    BY <1>8 DEF ReadFile
  <2> QED
    BY <1>8, <2>1, <2>2, FileRead
<1>9. CASE stage_run
  BY <1>9 DEF stage_run
<1>10. CASE RunEnds
  BY <1>10 DEF RunEnds, Failed, Ended
<1>11. CASE arc_service_free
  BY <1>11 DEF arc_service_free
<1> QED
  BY <1>1, <1>2, <1>3, <1>4, <1>5, <1>6, <1>7, <1>8, <1>9, <1>10, <1>11 DEF Stage

\* For any compiler whose images a file can hold, any verifier and any VM: however
\* much of the file arcana-compile has written, what arcana-run starts has the
\* constants, the functions and the code that were compiled.
THEOREM FileSafe == ServiceSpec => []FileRunsSame
<1>1. Init => ServiceInv /\ FileInv
  <2>1. Init => FileInv
    BY DEF Init, FileInv, FileRunsSame
  <2> QED
    BY <2>1, InitService
<1>2. ServiceInv /\ FileInv /\ [Stage \/ AnyVmStep]_vars => ServiceInv' /\ FileInv'
  <2>1. ASSUME ServiceInv, FileInv, [Stage \/ AnyVmStep]_vars PROVE ServiceInv'
    BY <2>1, ServiceStep
  <2>2. ASSUME ServiceInv, FileInv, Stage PROVE FileInv'
    BY <2>2, FileStep DEF ServiceInv
  <2>3. ASSUME FileInv, AnyVmStep PROVE FileInv'
    BY <2>3 DEF AnyVmStep, OnlyVm, FileInv, FileRunsSame, program
  <2>4. ASSUME FileInv, UNCHANGED vars PROVE FileInv'
    BY <2>4 DEF vars, FileInv, FileRunsSame, program
  <2> QED
    BY <2>1, <2>2, <2>3, <2>4
<1>3. FileInv => FileRunsSame
  BY DEF FileInv
<1> QED
  BY <1>1, <1>2, <1>3, PTL DEF ServiceSpec
=============================================================================
