--------------------------------- MODULE Gc ---------------------------------
(***************************************************************************)
(* The mark-sweep collector of src/runtime/gc.c and the program whose heap *)
(* it collects.                                                            *)
(*                                                                         *)
(* An object is a leaf (string, bitvec, mutex) or a node (array, map,      *)
(* record, closure, upvalue, channel, coroutine, thread).  refs[o] are the *)
(* references that instructions can follow: items, keys, values, fields,   *)
(* upvalues, the closed value, buffered values, the stack and globals of a *)
(* coroutine's or a thread's VM.  Between two instructions of the program  *)
(* that VM's steps are steps on its references.                            *)
(*                                                                         *)
(* Marking is recursive in the code; here `pending` holds the objects      *)
(* whose mark call is still to come, in any order.  The chain of all       *)
(* objects is cut at the sweep's pointer pp: `before` are the objects it   *)
(* has passed, `objects` those from *pp on.                                *)
(***************************************************************************)
EXTENDS Integers, Sequences, FiniteSets, Functions

CONSTANTS
  Objects,                    \* addresses calloc may return
  ARC_GC_INITIAL_THRESHOLD,   \* in objects: every object has size 1
  MaxAllocs                   \* bound: allocations

ASSUME GcAssumption ==
  /\ ARC_GC_INITIAL_THRESHOLD \in Nat
  /\ MaxAllocs \in Nat

ARC_GC_GROW_FACTOR == 2
Kinds == {"leaf", "node"}

VARIABLES
  before, objects,             \* the chain, cut at pp
  kind, refs, marked,          \* the objects' headers and contents
  roots,                       \* stack, globals and open upvalues of the VM
  pending,                     \* mark calls to come
  pc,                          \* "run", "mark", "sweep" or "destroyed"
  bytes_allocated, next_gc, alloc_count

heap == <<kind, refs>>
tuning == <<bytes_allocated, next_gc, alloc_count>>
vars == <<before, objects, kind, refs, marked, roots, pending, pc,
          bytes_allocated, next_gc, alloc_count>>

Allocated == Range(before) \cup Range(objects)

-----------------------------------------------------------------------------
(* What instructions can still get at: the least set of objects that has   *)
(* the roots and whatever the objects of the set refer to.                 *)

Closed(S) == \A o \in S : refs[o] \subseteq S

Reachable ==
  {o \in Objects :
     \A S \in SUBSET Objects : (roots \subseteq S /\ Closed(S)) => o \in S}

-----------------------------------------------------------------------------
arc_gc_init ==
  /\ before = <<>>
  /\ objects = <<>>
  /\ bytes_allocated = 0
  /\ next_gc = ARC_GC_INITIAL_THRESHOLD
  /\ alloc_count = 0

Init ==
  /\ arc_gc_init
  /\ kind = [o \in Objects |-> "leaf"]
  /\ refs = [o \in Objects |-> {}]
  /\ marked = [o \in Objects |-> FALSE]
  /\ roots = {}
  /\ pending = {}
  /\ pc = "run"

\* arc_gc_alloc, in its critical section: the new object goes to the front of
\* the chain, unmarked.
arc_gc_alloc(o, k) ==
  /\ pc = "run"
  /\ alloc_count < MaxAllocs
  /\ o \notin Allocated
  /\ alloc_count' = alloc_count + 1
  /\ bytes_allocated' = bytes_allocated + 1
  /\ kind' = [kind EXCEPT ![o] = k]
  /\ marked' = [marked EXCEPT ![o] = FALSE]
  /\ objects' = <<o>> \o objects
  /\ UNCHANGED <<before, pending, pc, next_gc>>

-----------------------------------------------------------------------------
(* The program.  Instructions work on objects that the stack refers to.    *)

\* A constructor instruction leaves the new object on the stack.
New(o, k) ==
  /\ arc_gc_alloc(o, k)
  /\ refs' = [refs EXCEPT ![o] = {}]
  /\ roots' = roots \cup {o}

\* A container gets a reference: INDEX_SET, FIELD_SET, the push intrinsic,
\* SET_UPVAL, CHAN_SEND, a value sent to a coroutine...
Link(a, b) ==
  /\ pc = "run"
  /\ a \in roots /\ kind[a] # "leaf"
  /\ b \in roots
  /\ refs' = [refs EXCEPT ![a] = @ \cup {b}]
  /\ UNCHANGED <<before, objects, kind, marked, roots, pending, pc, tuning>>

\* ... or loses one, because it is overwritten, received or popped.
Unlink(a, b) ==
  /\ pc = "run"
  /\ a \in roots /\ b \in refs[a]
  /\ refs' = [refs EXCEPT ![a] = @ \ {b}]
  /\ UNCHANGED <<before, objects, kind, marked, roots, pending, pc, tuning>>

\* INDEX_GET, FIELD_GET, GET_UPVAL, CHAN_RECV...
Load(a, b) ==
  /\ pc = "run"
  /\ a \in roots /\ b \in refs[a]
  /\ roots' = roots \cup {b}
  /\ UNCHANGED <<before, objects, heap, marked, pending, pc, tuning>>

Drop(a) ==
  /\ pc = "run"
  /\ a \in roots
  /\ roots' = roots \ {a}
  /\ UNCHANGED <<before, objects, heap, marked, pending, pc, tuning>>

-----------------------------------------------------------------------------
(* A collection.                                                           *)

\* arc_gc_collect: the mark calls for the roots.
arc_gc_collect ==
  /\ pc = "run"
  /\ pc' = "mark"
  /\ pending' = roots
  /\ UNCHANGED <<before, objects, heap, marked, roots, tuning>>

\* The objects that marking an object goes on to.
Traced(o) == IF kind[o] = "leaf" THEN {} ELSE refs[o]

\* Mutant: a marked object's contents are not followed.
MarkShallow(o) ==
  /\ pc = "mark" /\ o \in pending
  /\ marked' = [marked EXCEPT ![o] = TRUE]
  /\ pending' = pending \ {o}
  /\ UNCHANGED <<before, objects, heap, roots, pc, tuning>>

\* Mutant: every call goes on to the contents, marked or not.
MarkAgain(o) ==
  /\ pc = "mark" /\ o \in pending
  /\ marked' = [marked EXCEPT ![o] = TRUE]
  /\ pending' = (pending \ {o}) \cup Traced(o)
  /\ UNCHANGED <<before, objects, heap, roots, pc, tuning>>

\* One call of arc_gc_mark_object.
arc_gc_mark_object(o) ==
  /\ pc = "mark" /\ o \in pending
  /\ IF marked[o]
     THEN /\ pending' = pending \ {o}
          /\ UNCHANGED marked
     ELSE /\ marked' = [marked EXCEPT ![o] = TRUE]
          /\ pending' = (pending \ {o}) \cup Traced(o)
  /\ UNCHANGED <<before, objects, heap, roots, pc, tuning>>

MarkDone ==
  /\ pc = "mark" /\ pending = {}
  /\ pc' = "sweep"
  /\ UNCHANGED <<before, objects, heap, marked, roots, pending, tuning>>

\* The sweep's loop: keep and unmark, or unlink and free.
SweepKeep ==
  /\ pc = "sweep" /\ objects # <<>>
  /\ marked[Head(objects)]
  /\ marked' = [marked EXCEPT ![Head(objects)] = FALSE]
  /\ before' = Append(before, Head(objects))
  /\ objects' = Tail(objects)
  /\ UNCHANGED <<heap, roots, pending, pc, tuning>>

\* Mutant: the pointer moves past the successor of a freed object.
SweepSkipsNext ==
  /\ pc = "sweep" /\ objects # <<>>
  /\ ~ marked[Head(objects)]
  /\ IF Len(objects) > 1
     THEN /\ before' = Append(before, objects[2])
          /\ objects' = Tail(Tail(objects))
     ELSE objects' = Tail(objects) /\ UNCHANGED before
  /\ UNCHANGED <<heap, marked, roots, pending, pc, tuning>>

SweepFree ==
  /\ pc = "sweep" /\ objects # <<>>
  /\ ~ marked[Head(objects)]
  /\ objects' = Tail(objects)
  /\ UNCHANGED <<before, heap, marked, roots, pending, pc, tuning>>

\* The end of arc_gc_collect.
SweepDone ==
  LET grown == bytes_allocated * ARC_GC_GROW_FACTOR IN
  /\ pc = "sweep" /\ objects = <<>>
  /\ pc' = "run"
  /\ objects' = before
  /\ before' = <<>>
  /\ next_gc' = IF grown < ARC_GC_INITIAL_THRESHOLD
                THEN ARC_GC_INITIAL_THRESHOLD ELSE grown
  /\ UNCHANGED <<heap, marked, roots, pending, bytes_allocated, alloc_count>>

\* arc_vm_destroy on the VM that owns the collector.
arc_gc_destroy ==
  /\ pc = "run"
  /\ pc' = "destroyed"
  /\ objects' = <<>>
  /\ bytes_allocated' = 0
  /\ roots' = {}
  /\ UNCHANGED <<before, heap, marked, pending, next_gc, alloc_count>>

-----------------------------------------------------------------------------
Collecting ==
  \/ \E o \in Objects : arc_gc_mark_object(o)
  \/ MarkDone \/ SweepKeep \/ SweepFree \/ SweepDone

Next ==
  \/ \E o \in Objects, k \in Kinds : New(o, k)
  \/ \E a, b \in Objects : Link(a, b) \/ Unlink(a, b) \/ Load(a, b)
  \/ \E a \in Objects : Drop(a)
  \/ arc_gc_collect \/ Collecting \/ arc_gc_destroy

Spec == Init /\ [][Next]_vars

-----------------------------------------------------------------------------
Marked == {o \in Objects : marked[o]}

TypeOK ==
  /\ before \in Seq(Objects) /\ objects \in Seq(Objects)
  /\ kind \in [Objects -> Kinds]
  /\ refs \in [Objects -> SUBSET Objects]
  /\ marked \in [Objects -> BOOLEAN]
  /\ roots \in SUBSET Objects
  /\ pending \in SUBSET Objects
  /\ pc \in {"run", "mark", "sweep", "destroyed"}
  /\ bytes_allocated \in Nat /\ next_gc \in Nat /\ alloc_count \in Nat

\* The collector frees nothing that the program can still reach, whatever the
\* shape of the heap and wherever the collection stands.
NoReachableFreed == Reachable \subseteq Allocated

\* Between collections no object is marked; a mark left over from the last
\* collection would keep the object's contents from being traced in the next.
NoStaleMark == pc = "run" => \A o \in Range(objects) : ~ marked[o]

\* A collection that ends has freed everything unreachable, cycles too.
AllGarbageFreed ==
  [][(pc = "sweep" /\ pc' = "run") => Range(objects') = Reachable]_vars

\* A collection makes progress with every step, although the heap may have
\* cycles: marking marks one more object or has one call fewer to make, and
\* the sweep has one object fewer before it.  On a finite heap it ends.
CollectionAdvances ==
  [][/\ pc = "mark" /\ pc' = "mark" =>
          \/ Marked \subseteq Marked' /\ Marked' # Marked
          \/ Marked' = Marked /\ pending' \subseteq pending /\ pending' # pending
     /\ pc = "sweep" /\ pc' = "sweep" => Len(objects') < Len(objects)]_vars

-----------------------------------------------------------------------------
(* The inductive invariant.                                                *)

\* The chain holds no object twice, and pp is at its front outside a sweep.
ChainSimple ==
  /\ IsInjective(before) /\ IsInjective(objects)
  /\ Range(before) \cap Range(objects) = {}
  /\ pc # "sweep" => before = <<>>

\* Marking follows everything that instructions can follow.
AllTraced == \A o \in Objects : kind[o] = "leaf" => refs[o] = {}

\* While marking: what is reachable and not yet marked hangs on a pending call,
\* and nothing else is or will be marked.
MarkInv ==
  pc = "mark" =>
    /\ roots \subseteq Marked \cup pending
    /\ \A o \in Marked : refs[o] \subseteq Marked \cup pending
    /\ Marked \cup pending \subseteq Reachable

\* While sweeping: the reachable objects are those kept and those marked.
SweepInv ==
  pc = "sweep" =>
    /\ Range(before) \cup Marked = Reachable
    /\ Range(before) \cap Marked = {}

GcInv ==
  /\ TypeOK /\ ChainSimple /\ AllTraced /\ NoReachableFreed /\ MarkInv /\ SweepInv
  /\ pc \in {"run", "destroyed"} => Marked = {}
=============================================================================
