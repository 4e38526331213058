------------------------------ MODULE GcProofs ------------------------------
(***************************************************************************)
(* Proof that a collection frees exactly the unreachable objects, for      *)
(* every heap: any set of addresses, any references between them, any      *)
(* number of allocations and collections.                                  *)
(*                                                                         *)
(* Reachable is the least closed set that has the roots, so two facts      *)
(* carry the argument: it is closed itself (ReachableClosed), and it is    *)
(* inside every closed set that has the roots (ReachableLeast).  A program *)
(* step that can only use reachable objects leaves the reachable set       *)
(* inside the allocated one; when marking ends the marked set is closed    *)
(* and has the roots, so it is the reachable set; the sweep then keeps the *)
(* marked objects and only those, because the chain has no object twice.   *)
(***************************************************************************)
EXTENDS Gc, TLAPS

\* The reachable set has the roots and is closed.
LEMMA ReachableClosed ==
  ASSUME TypeOK
  PROVE  /\ Reachable \subseteq Objects
         /\ roots \subseteq Reachable
         /\ Closed(Reachable)
<1>1. Reachable \subseteq Objects
  BY DEF Reachable
<1>2. roots \subseteq Reachable
  BY DEF Reachable, TypeOK
<1>3. ASSUME NEW o \in Reachable, NEW p \in refs[o]
      PROVE  p \in Reachable
  <2>1. p \in Objects
    BY <1>1, <1>3 DEF TypeOK
  <2>2. ASSUME NEW S \in SUBSET Objects, roots \subseteq S, Closed(S)
        PROVE  p \in S
    <3>1. o \in S
      BY <1>3, <2>2 DEF Reachable
    <3> QED
      BY <1>3, <2>2, <3>1 DEF Closed
  <2> QED
    BY <2>1, <2>2 DEF Reachable
<1> QED
  BY <1>1, <1>2, <1>3 DEF Closed

\* It is the least such set.
LEMMA ReachableLeast ==
  ASSUME NEW S \in SUBSET Objects, roots \subseteq S, Closed(S)
  PROVE  Reachable \subseteq S
BY DEF Reachable

\* The same in the state after a step.
LEMMA ReachableLeastNext ==
  ASSUME NEW S \in SUBSET Objects, roots' \subseteq S,
         \A o \in S : refs'[o] \subseteq S
  PROVE  Reachable' \subseteq S
BY DEF Reachable, Closed

\* The objects on a list are its first and those on the rest of it.
LEMMA RangeHeadTail ==
  ASSUME NEW T, NEW s \in Seq(T), s # <<>>, IsInjective(s)
  PROVE  /\ Head(s) \in T
         /\ Tail(s) \in Seq(T)
         /\ IsInjective(Tail(s))
         /\ Range(s) = {Head(s)} \cup Range(Tail(s))
         /\ Head(s) \notin Range(Tail(s))
<1>1. Head(s) = s[1] /\ Len(s) \in Nat /\ Len(s) > 0
  OBVIOUS
<1>2. Tail(s) \in Seq(T) /\ Len(Tail(s)) = Len(s) - 1
      /\ DOMAIN s = 1 .. Len(s) /\ DOMAIN Tail(s) = 1 .. Len(s) - 1
      /\ \A i \in 1 .. Len(s) - 1 : Tail(s)[i] = s[i + 1]
  BY <1>1
<1>3. IsInjective(Tail(s))
  BY <1>1, <1>2 DEF IsInjective
<1>4. Range(s) = {Head(s)} \cup Range(Tail(s))
  <2>1. ASSUME NEW x \in Range(s) PROVE x \in {Head(s)} \cup Range(Tail(s))
    <3>1. PICK i \in 1 .. Len(s) : x = s[i]
      BY <2>1 DEF Range
    <3>2. CASE i = 1
      BY <3>1, <3>2, <1>1
    <3>3. CASE i # 1
      <4>1. i - 1 \in 1 .. Len(s) - 1 /\ x = Tail(s)[i - 1]
        BY <3>1, <3>3, <1>1, <1>2
      <4> QED
        BY <4>1, <1>2 DEF Range
    <3> QED
      BY <3>2, <3>3
  <2>2. ASSUME NEW x \in Range(Tail(s)) PROVE x \in Range(s)
    <3>1. PICK i \in 1 .. Len(s) - 1 : x = s[i + 1]
      BY <2>2, <1>2 DEF Range
    <3> QED
      BY <3>1, <1>1 DEF Range
  <2>3. Head(s) \in Range(s)
    BY <1>1 DEF Range
  <2> QED
    BY <2>1, <2>2, <2>3
<1>5. Head(s) \notin Range(Tail(s))
  BY <1>1, <1>2 DEF IsInjective, Range
<1> QED
  BY <1>1, <1>2, <1>3, <1>4, <1>5

\* Adding an object that is not on a list, at its end or at its front.
LEMMA RangeAppend ==
  ASSUME NEW T, NEW s \in Seq(T), NEW x \in T, x \notin Range(s), IsInjective(s)
  PROVE  /\ Append(s, x) \in Seq(T)
         /\ Range(Append(s, x)) = Range(s) \cup {x}
         /\ IsInjective(Append(s, x))
<1>1. /\ Append(s, x) \in Seq(T)
      /\ Len(s) \in Nat
      /\ Len(Append(s, x)) = Len(s) + 1
      /\ Append(s, x)[Len(s) + 1] = x
      /\ \A i \in 1 .. Len(s) : Append(s, x)[i] = s[i]
  OBVIOUS
<1>2. DOMAIN s = 1 .. Len(s) /\ DOMAIN Append(s, x) = 1 .. Len(s) + 1
  BY <1>1
<1>3. Range(Append(s, x)) = Range(s) \cup {x}
  <2>1. ASSUME NEW y \in Range(Append(s, x)) PROVE y \in Range(s) \cup {x}
    <3>1. PICK i \in 1 .. Len(s) + 1 : y = Append(s, x)[i]
      BY <2>1, <1>2 DEF Range
    <3>2. i \in 1 .. Len(s) \/ i = Len(s) + 1
      BY <1>1
    <3> QED
      BY <3>1, <3>2, <1>1, <1>2 DEF Range
  <2>2. ASSUME NEW y \in Range(s) PROVE y \in Range(Append(s, x))
    <3>1. PICK i \in 1 .. Len(s) : y = s[i]
      BY <2>2, <1>2 DEF Range
    <3>2. i \in 1 .. Len(s) + 1 /\ y = Append(s, x)[i]
      BY <3>1, <1>1
    <3> QED
      BY <3>2, <1>2 DEF Range
  <2>3. x \in Range(Append(s, x))
    <3>1. Len(s) + 1 \in 1 .. Len(s) + 1
      BY <1>1
    <3> QED
      BY <3>1, <1>1, <1>2 DEF Range
  <2> QED
    BY <2>1, <2>2, <2>3
<1>4. IsInjective(Append(s, x))
  BY <1>1, <1>2 DEF IsInjective, Range
<1> QED
  BY <1>1, <1>3, <1>4

\* The same at the front of the list.
LEMMA RangeCons ==
  ASSUME NEW T, NEW s \in Seq(T), NEW x \in T, x \notin Range(s), IsInjective(s)
  PROVE  /\ <<x>> \o s \in Seq(T)
         /\ Range(<<x>> \o s) = Range(s) \cup {x}
         /\ IsInjective(<<x>> \o s)
<1> DEFINE c == <<x>> \o s
<1>1. /\ c \in Seq(T)
      /\ Len(s) \in Nat
      /\ Len(c) = Len(s) + 1
      /\ c[1] = x
      /\ \A i \in 1 .. Len(s) : c[i + 1] = s[i]
  OBVIOUS
<1>2. DOMAIN s = 1 .. Len(s) /\ DOMAIN c = 1 .. Len(s) + 1
  BY <1>1
<1> HIDE DEF c
<1>3. \A i \in 1 .. Len(s) + 1 : i # 1 => i - 1 \in 1 .. Len(s) /\ c[i] = s[i - 1]
  <2> SUFFICES ASSUME NEW i \in 1 .. Len(s) + 1, i # 1
               PROVE  i - 1 \in 1 .. Len(s) /\ c[i] = s[i - 1]
    OBVIOUS
  <2>1. i - 1 \in 1 .. Len(s) /\ (i - 1) + 1 = i
    BY <1>1
  <2> QED
    BY <2>1, <1>1
<1>4. Range(c) = Range(s) \cup {x}
  <2>1. ASSUME NEW y \in Range(c) PROVE y \in Range(s) \cup {x}
    <3>1. PICK i \in 1 .. Len(s) + 1 : y = c[i]
      BY <2>1, <1>2 DEF Range
    <3> QED
      BY <3>1, <1>1, <1>2, <1>3 DEF Range
  <2>2. ASSUME NEW y \in Range(s) PROVE y \in Range(c)
    <3>1. PICK i \in 1 .. Len(s) : y = s[i]
      BY <2>2, <1>2 DEF Range
    <3>2. i + 1 \in 1 .. Len(s) + 1 /\ y = c[i + 1]
      BY <3>1, <1>1
    <3> QED
      BY <3>2, <1>2 DEF Range
  <2>3. x \in Range(c)
    <3>1. 1 \in 1 .. Len(s) + 1
      BY <1>1
    <3> QED
      BY <3>1, <1>1, <1>2 DEF Range
  <2> QED
    BY <2>1, <2>2, <2>3
<1>5. IsInjective(c)
  <2> SUFFICES ASSUME NEW i \in DOMAIN c, NEW j \in DOMAIN c, c[i] = c[j]
               PROVE  i = j
    BY DEF IsInjective
  <2>1. ASSUME NEW k \in DOMAIN c, k # 1 PROVE c[k] # x
    BY <2>1, <1>2, <1>3 DEF Range
  <2>2. CASE i = 1 \/ j = 1
    BY <2>1, <2>2, <1>1
  <2>3. CASE i # 1 /\ j # 1
    <3>1. i - 1 = j - 1
      BY <2>3, <1>2, <1>3 DEF IsInjective
    <3> QED
      BY <3>1, <1>1, <1>2
  <2> QED
    BY <2>2, <2>3
<1> QED
  BY <1>1, <1>4, <1>5 DEF c

-----------------------------------------------------------------------------
\* A step that leaves roots and references alone leaves the reachable set
\* alone.
LEMMA ReachableSame ==
  ASSUME UNCHANGED <<roots, refs>>
  PROVE  Reachable' = Reachable
BY DEF Reachable, Closed

\* The empty heap satisfies the invariant.
LEMMA GcInvInit == Init => GcInv
<1> SUFFICES ASSUME Init PROVE GcInv
  OBVIOUS
<1>1. Range(<<>>) = {}
  BY DEF Range
<1>2. TypeOK
  BY GcAssumption DEF Init, arc_gc_init, TypeOK, Kinds
<1>3. Marked = {}
  BY DEF Init, Marked
<1>4. ChainSimple
  BY <1>1 DEF Init, arc_gc_init, ChainSimple, IsInjective
<1>5. Reachable \subseteq {}
  <2>1. Closed({}) /\ roots \subseteq {}
    BY DEF Closed, Init
  <2> QED
    BY <2>1, ReachableLeast
<1> QED
  BY <1>1, <1>2, <1>3, <1>4, <1>5
     DEF GcInv, Init, arc_gc_init, AllTraced, NoReachableFreed, MarkInv, SweepInv

\* An allocation adds the new object to the reachable set, at most.
LEMMA NewStep ==
  ASSUME GcInv, NEW o \in Objects, NEW k \in Kinds, New(o, k)
  PROVE  GcInv'
<1> USE DEF GcInv
<1>0. arc_gc_alloc(o, k)
  BY DEF New
<1>1. pc = "run" /\ pc' = "run" /\ before = <<>> /\ before' = <<>>
  BY <1>0 DEF arc_gc_alloc, ChainSimple
<1>2. o \notin Range(objects) /\ objects' = <<o>> \o objects
  BY <1>0, <1>1 DEF arc_gc_alloc, Allocated
<1>3. /\ objects' \in Seq(Objects)
      /\ Range(objects') = Range(objects) \cup {o}
      /\ IsInjective(objects')
  BY <1>2, RangeCons DEF TypeOK, ChainSimple
<1>4. Range(<<>>) = {} /\ IsInjective(<<>>)
  BY DEF Range, IsInjective
<1>5. TypeOK'
  <2>1. /\ refs' \in [Objects -> SUBSET Objects]
        /\ roots' \in SUBSET Objects
    BY DEF New, TypeOK
  <2>2. kind' \in [Objects -> Kinds] /\ marked' \in [Objects -> BOOLEAN]
    BY <1>0 DEF arc_gc_alloc, TypeOK
  <2>3. /\ before' = before /\ pending' = pending /\ next_gc' = next_gc
        /\ bytes_allocated' \in Nat /\ alloc_count' \in Nat
    BY <1>0 DEF arc_gc_alloc, TypeOK
  <2> QED
    BY <1>1, <1>3, <2>1, <2>2, <2>3 DEF TypeOK
<1>6. ChainSimple'
  BY <1>1, <1>3, <1>4 DEF ChainSimple
<1>7. AllTraced'
  BY <1>0 DEF New, AllTraced, arc_gc_alloc, TypeOK
<1>8. Reachable' \subseteq Reachable \cup {o}
  <2>1. Reachable \cup {o} \in SUBSET Objects /\ roots' \subseteq Reachable \cup {o}
    BY ReachableClosed DEF New
  <2>2. ASSUME NEW p \in Reachable \cup {o}
        PROVE  refs'[p] \subseteq Reachable \cup {o}
    BY ReachableClosed, <2>1 DEF New, Closed, TypeOK
  <2> QED
    BY <2>1, <2>2, ReachableLeastNext
<1>9. NoReachableFreed'
  BY <1>1, <1>3, <1>4, <1>8 DEF NoReachableFreed, Allocated
<1>10. Marked' = {}
  BY <1>0, <1>1 DEF arc_gc_alloc, Marked, TypeOK
<1> QED
  BY <1>1, <1>5, <1>6, <1>7, <1>9, <1>10 DEF MarkInv, SweepInv

\* The other program steps only shrink the reachable set.
LEMMA ProgramStep ==
  ASSUME GcInv, NEW a \in Objects, NEW b \in Objects,
         Link(a, b) \/ Unlink(a, b) \/ Load(a, b) \/ Drop(a)
  PROVE  GcInv'
<1> USE DEF GcInv
<1>1. /\ pc = "run" /\ pc' = "run"
      /\ UNCHANGED <<before, objects, kind, marked, pending, tuning>>
  BY DEF Link, Unlink, Load, Drop, heap
<1>2. TypeOK'
  BY <1>1 DEF Link, Unlink, Load, Drop, heap, TypeOK, tuning
<1>3. AllTraced'
  BY <1>1 DEF Link, Unlink, Load, Drop, heap, AllTraced, TypeOK
<1>4. Reachable' \subseteq Reachable
  <2>1. Reachable \in SUBSET Objects /\ roots \subseteq Reachable /\ Closed(Reachable)
    BY ReachableClosed
  <2>2. roots' \subseteq Reachable
    BY <2>1 DEF Link, Unlink, Load, Drop, Closed
  <2>3. ASSUME NEW p \in Reachable
        PROVE  refs'[p] \subseteq Reachable
    BY <1>1, <2>1 DEF Link, Unlink, Load, Drop, heap, Closed, TypeOK
  <2> QED
    BY <2>1, <2>2, <2>3, ReachableLeastNext
<1>5. NoReachableFreed'
  BY <1>1, <1>4 DEF NoReachableFreed, Allocated
<1>6. ChainSimple' /\ Marked' = {}
  BY <1>1 DEF ChainSimple, Marked
<1> QED
  BY <1>1, <1>2, <1>3, <1>5, <1>6 DEF MarkInv, SweepInv

\* When every mark call has been made, the marked objects are the reachable
\* ones: they are closed under the references and have the roots.
LEMMA MarkedReachable ==
  ASSUME GcInv, pc = "mark", pending = {}
  PROVE  Marked = Reachable
<1>1. Marked \subseteq Reachable /\ roots \subseteq Marked
  BY DEF GcInv, MarkInv
<1>2. Closed(Marked)
  BY DEF GcInv, MarkInv, AllTraced, Closed, Marked
<1>3. Reachable \subseteq Marked
  BY <1>1, <1>2, ReachableLeast DEF Marked
<1> QED
  BY <1>1, <1>3

\* A collection's steps keep the invariant.
LEMMA MarkStep ==
  ASSUME GcInv, NEW o \in Objects, arc_gc_mark_object(o)
  PROVE  GcInv'
<1> USE DEF GcInv
<1>1. /\ pc = "mark" /\ pc' = "mark" /\ o \in pending
      /\ UNCHANGED <<before, objects, kind, refs, roots, tuning>>
  BY DEF arc_gc_mark_object, heap
<1>2. Reachable' = Reachable
  BY <1>1, ReachableSame
<1>3. TypeOK'
  BY <1>1 DEF arc_gc_mark_object, TypeOK, tuning, Traced
<1>4. Traced(o) = refs[o]
  BY DEF Traced, AllTraced
<1>5. refs[o] \subseteq Reachable
  BY <1>1, ReachableClosed DEF MarkInv, Closed
<1>6. \/ Marked' = Marked /\ o \in Marked /\ pending' = pending \ {o}
      \/ Marked' = Marked \cup {o} /\ pending' = (pending \ {o}) \cup refs[o]
  BY <1>4 DEF arc_gc_mark_object, Marked, TypeOK
<1>7. MarkInv'
  BY <1>1, <1>2, <1>5, <1>6 DEF MarkInv
<1> QED
  BY <1>1, <1>2, <1>3, <1>7
     DEF ChainSimple, AllTraced, NoReachableFreed, Allocated, SweepInv

\* The start of a collection and the end of its marking keep the invariant:
\* when no mark call is left, the marked objects are the reachable ones.
LEMMA CollectSteps ==
  ASSUME GcInv, arc_gc_collect \/ MarkDone
  PROVE  GcInv'
<1> USE DEF GcInv
<1>1. UNCHANGED <<before, objects, kind, refs, marked, roots, tuning>>
  BY DEF arc_gc_collect, MarkDone, heap
<1>2. Reachable' = Reachable /\ Marked' = Marked
  BY <1>1, ReachableSame DEF Marked
<1>3. TypeOK'
  BY <1>1 DEF arc_gc_collect, MarkDone, TypeOK, tuning
<1>4. AllTraced' /\ NoReachableFreed'
  BY <1>1, <1>2 DEF AllTraced, NoReachableFreed, Allocated
<1>5. CASE arc_gc_collect
  <2>1. pc' = "mark" /\ pending' = roots /\ Marked = {} /\ before = <<>>
    BY <1>5 DEF arc_gc_collect, ChainSimple
  <2>2. MarkInv'
    BY <1>1, <1>2, <2>1, ReachableClosed DEF MarkInv
  <2> QED
    BY <1>1, <1>2, <1>3, <1>4, <2>1, <2>2 DEF ChainSimple, SweepInv
<1>6. CASE MarkDone
  <2>1. pc = "mark" /\ pc' = "sweep" /\ Marked = Reachable /\ before = <<>>
    BY <1>6, MarkedReachable DEF MarkDone, ChainSimple
  <2>2. Range(<<>>) = {}
    BY DEF Range
  <2>3. SweepInv'
    BY <1>1, <1>2, <2>1, <2>2 DEF SweepInv
  <2> QED
    BY <1>1, <1>2, <1>3, <1>4, <2>1, <2>3 DEF ChainSimple, MarkInv
<1> QED
  BY <1>5, <1>6

\* The sweep keeps an object, or frees one that is not reachable.
LEMMA SweepSteps ==
  ASSUME GcInv, SweepKeep \/ SweepFree
  PROVE  GcInv'
<1> USE DEF GcInv
<1>1. /\ pc = "sweep" /\ pc' = "sweep" /\ objects # <<>>
      /\ objects' = Tail(objects)
      /\ UNCHANGED <<kind, refs, roots, pending, tuning>>
  BY DEF SweepKeep, SweepFree, heap
<1> DEFINE h == Head(objects)
<1>2. /\ h \in Objects
      /\ objects' \in Seq(Objects) /\ IsInjective(objects')
      /\ Range(objects) = {h} \cup Range(objects')
      /\ h \notin Range(objects')
  BY <1>1, RangeHeadTail DEF TypeOK, ChainSimple
<1>3. Reachable' = Reachable /\ AllTraced'
  BY <1>1, ReachableSame DEF AllTraced
<1>4. h \notin Range(before)
  BY <1>2 DEF ChainSimple
<1> HIDE DEF h
<1>5. CASE SweepKeep
  <2>1. h \in Marked /\ Marked' = Marked \ {h} /\ before' = Append(before, h)
    BY <1>2, <1>5 DEF SweepKeep, Marked, TypeOK, h
  <2>2. /\ before' \in Seq(Objects) /\ IsInjective(before')
        /\ Range(before') = Range(before) \cup {h}
    BY <1>2, <1>4, <2>1, RangeAppend DEF TypeOK, ChainSimple
  <2>3. TypeOK'
    BY <1>1, <1>2, <1>5, <2>2 DEF SweepKeep, TypeOK, tuning
  <2>4. ChainSimple'
    BY <1>1, <1>2, <1>4, <2>2 DEF ChainSimple
  <2>5. NoReachableFreed'
    BY <1>2, <1>3, <2>2 DEF NoReachableFreed, Allocated
  <2>6. SweepInv'
    BY <1>1, <1>3, <2>1, <2>2 DEF SweepInv
  <2> QED
    BY <1>1, <1>3, <2>3, <2>4, <2>5, <2>6 DEF MarkInv
<1>6. CASE SweepFree
  <2>1. h \notin Marked /\ UNCHANGED <<marked, before>> /\ Marked' = Marked
    BY <1>6 DEF SweepFree, Marked, h
  <2>2. h \notin Reachable
    BY <1>1, <1>4, <2>1 DEF SweepInv
  <2>3. TypeOK' /\ ChainSimple'
    BY <1>1, <1>2, <2>1 DEF TypeOK, ChainSimple, tuning
  <2>4. NoReachableFreed'
    BY <1>2, <1>3, <2>1, <2>2 DEF NoReachableFreed, Allocated
  <2> QED
    BY <1>1, <1>3, <2>1, <2>3, <2>4 DEF MarkInv, SweepInv
<1> QED
  BY <1>5, <1>6

\* At the end of the sweep the objects it has kept are the reachable ones.
LEMMA SweepEnd ==
  ASSUME GcInv, SweepDone
  PROVE  GcInv' /\ Range(objects') = Reachable
<1> USE DEF GcInv
<1>1. /\ pc = "sweep" /\ pc' = "run"
      /\ objects = <<>> /\ objects' = before /\ before' = <<>>
      /\ UNCHANGED <<kind, refs, marked, roots, pending>>
      /\ UNCHANGED <<bytes_allocated, alloc_count>>
  BY DEF SweepDone, heap
<1>2. Range(<<>>) = {} /\ IsInjective(<<>>)
  BY DEF Range, IsInjective
<1>3. Marked = {} /\ Range(before) = Reachable
  BY <1>1, <1>2 DEF SweepInv, NoReachableFreed, Allocated
<1>4. Reachable' = Reachable /\ Marked' = {} /\ AllTraced'
  BY <1>1, <1>3, ReachableSame DEF Marked, AllTraced
<1>5. next_gc' \in Nat
  BY GcAssumption DEF SweepDone, TypeOK, ARC_GC_GROW_FACTOR
<1>6. TypeOK'
  BY <1>1, <1>5 DEF TypeOK
<1>7. ChainSimple' /\ NoReachableFreed'
  BY <1>1, <1>2, <1>3, <1>4 DEF ChainSimple, NoReachableFreed, Allocated
<1> QED
  BY <1>1, <1>3, <1>4, <1>6, <1>7 DEF MarkInv, SweepInv

\* Destroying the heap leaves nothing reachable.
LEMMA DestroyStep ==
  ASSUME GcInv, arc_gc_destroy
  PROVE  GcInv'
<1> USE DEF GcInv
<1>1. /\ pc' = "destroyed" /\ objects' = <<>> /\ roots' = {} /\ Marked = {}
      /\ before = <<>>
      /\ UNCHANGED <<before, kind, refs, marked, pending>>
  BY DEF arc_gc_destroy, heap, ChainSimple
<1>2. Reachable' \subseteq {}
  BY <1>1, ReachableLeastNext
<1>3. Range(<<>>) = {} /\ IsInjective(<<>>)
  BY DEF Range, IsInjective
<1>4. TypeOK'
  BY <1>1 DEF arc_gc_destroy, TypeOK
<1> QED
  BY <1>1, <1>2, <1>3, <1>4
     DEF ChainSimple, NoReachableFreed, Allocated, AllTraced, Marked, MarkInv,
         SweepInv

\* Every step keeps the invariant.
LEMMA GcInvNext ==
  ASSUME GcInv, [Next]_vars
  PROVE  GcInv'
<1>1. CASE UNCHANGED vars
  <2>1. Reachable' = Reachable
    BY <1>1, ReachableSame DEF vars
  <2> QED
    BY <1>1, <2>1 DEF vars, GcInv, TypeOK, ChainSimple, AllTraced, Allocated,
                      NoReachableFreed, MarkInv, SweepInv, Marked
<1>2. ASSUME NEW o \in Objects, NEW k \in Kinds, New(o, k) PROVE GcInv'
  BY <1>2, NewStep
<1>3. ASSUME NEW a \in Objects, NEW b \in Objects,
             Link(a, b) \/ Unlink(a, b) \/ Load(a, b) \/ Drop(a)
      PROVE  GcInv'
  BY <1>3, ProgramStep
<1>4. CASE arc_gc_collect \/ MarkDone
  BY <1>4, CollectSteps
<1>5. ASSUME NEW o \in Objects, arc_gc_mark_object(o) PROVE GcInv'
  BY <1>5, MarkStep
<1>6. CASE SweepKeep \/ SweepFree
  BY <1>6, SweepSteps
<1>7. CASE SweepDone
  BY <1>7, SweepEnd
<1>8. CASE arc_gc_destroy
  BY <1>8, DestroyStep
<1> QED
  BY <1>1, <1>2, <1>3, <1>4, <1>5, <1>6, <1>7, <1>8
     DEF Next, Collecting

\* For every heap, the collector frees nothing the program can still reach,
\* and no mark survives a collection.
THEOREM CollectorSafe ==
  Spec => [](NoReachableFreed /\ NoStaleMark)
<1>1. Init => GcInv
  BY GcInvInit
<1>2. GcInv /\ [Next]_vars => GcInv'
  BY GcInvNext
<1>3. GcInv => NoReachableFreed /\ NoStaleMark
  <2> SUFFICES ASSUME GcInv, pc = "run", NEW o \in Range(objects)
               PROVE  ~ marked[o]
    BY DEF GcInv, NoStaleMark
  <2>1. o \in Objects
    BY DEF GcInv, TypeOK, Range
  <2> QED
    BY <2>1 DEF GcInv, Marked
<1> QED
  BY <1>1, <1>2, <1>3, PTL DEF Spec

\* For every heap, a collection that ends has freed every object the program
\* can no longer reach, cyclic garbage included.
THEOREM CollectorComplete ==
  Spec => AllGarbageFreed
<1>1. Init => GcInv
  BY GcInvInit
<1>2. GcInv /\ [Next]_vars => GcInv'
  BY GcInvNext
<1>3. GcInv /\ [Next]_vars =>
        [(pc = "sweep" /\ pc' = "run") => Range(objects') = Reachable]_vars
  <2> SUFFICES ASSUME GcInv, [Next]_vars, pc = "sweep", pc' = "run"
               PROVE  Range(objects') = Reachable
    OBVIOUS
  <2>1. SweepDone
    BY DEF Next, vars, Collecting, New, arc_gc_alloc, Link, Unlink, Load, Drop,
           arc_gc_collect, arc_gc_mark_object, MarkDone,
           SweepKeep, SweepFree, arc_gc_destroy
  <2> QED
    BY <2>1, SweepEnd
<1> QED
  BY <1>1, <1>2, <1>3, PTL DEF Spec, AllGarbageFreed

\* For every heap, each step of a collection brings it nearer to its end: no
\* object is traced twice, however the references run.
THEOREM CollectorAdvances == Spec => CollectionAdvances
<1> DEFINE Advance ==
      /\ pc = "mark" /\ pc' = "mark" =>
           \/ Marked \subseteq Marked' /\ Marked' # Marked
           \/ Marked' = Marked /\ pending' \subseteq pending /\ pending' # pending
      /\ pc = "sweep" /\ pc' = "sweep" => Len(objects') < Len(objects)
<1>1. Init => GcInv
  BY GcInvInit
<1>2. GcInv /\ [Next]_vars => GcInv'
  BY GcInvNext
<1>3. GcInv /\ [Next]_vars => [Advance]_vars
  <2> SUFFICES ASSUME GcInv, Next PROVE Advance
    OBVIOUS
  <2>1. ASSUME NEW o \in Objects, arc_gc_mark_object(o) PROVE Advance
    BY <2>1 DEF arc_gc_mark_object, Marked, GcInv, TypeOK
  <2>2. CASE SweepKeep \/ SweepFree
    <3>1. pc = "sweep" /\ objects # <<>> /\ objects' = Tail(objects)
      BY <2>2 DEF SweepKeep, SweepFree
    <3>2. Len(objects') < Len(objects)
      BY <3>1 DEF GcInv, TypeOK
    <3> QED
      BY <3>1, <3>2
  <2>3. CASE /\ \A o \in Objects : ~ arc_gc_mark_object(o)
             /\ ~ SweepKeep /\ ~ SweepFree
    <3>1. ~ (pc = "mark" /\ pc' = "mark") /\ ~ (pc = "sweep" /\ pc' = "sweep")
      BY <2>3 DEF Next, Collecting, New, arc_gc_alloc, Link, Unlink, Load, Drop,
             arc_gc_collect, MarkDone, SweepDone,
             arc_gc_destroy
    <3> QED
      BY <3>1
  <2> QED
    BY <2>1, <2>2, <2>3
<1> QED
  BY <1>1, <1>2, <1>3, PTL DEF Spec, CollectionAdvances
=============================================================================
