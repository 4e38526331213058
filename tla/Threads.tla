------------------------------ MODULE Threads -------------------------------
(***************************************************************************)
(* Threads and mutexes of the language: OP_THREAD_SPAWN, OP_THREAD_JOIN,   *)
(* OP_MUTEX_LOCK, OP_MUTEX_UNLOCK (src/vm/vm_concurrency.c) on top of the  *)
(* platform layer (src/platform/thread.c), and arc_vm_destroy, which frees *)
(* the heap that all the VMs share.                                        *)
(*                                                                         *)
(* Thread handles and the mutex are values of the language, so any thread  *)
(* may come to hold them.  With Structured = TRUE the programs are those   *)
(* that fork and join: only its parent joins a thread, a thread joins all  *)
(* its children before it ends, unlocks only what it locked and holds no   *)
(* lock while it waits for a thread.  With Structured = FALSE anything     *)
(* goes.                                                                   *)
(***************************************************************************)
EXTENDS Integers, FiniteSets

CONSTANTS Threads, Main, NoThread,
          MaxOps,      \* bound: spawn, lock and work instructions per thread
          Structured

ASSUME ThreadAssumption ==
  /\ Main \in Threads
  /\ NoThread \notin Threads
  /\ MaxOps \in Nat
  /\ Structured \in BOOLEAN

VARIABLES
  pc,           \* what each thread is at
  parent,       \* who spawned it
  target,       \* whom it joins
  joined,       \* ArcObjThread.joined
  joins,        \* how often pthread_join was called on it by others
  owner,        \* who holds the platform mutex of the ArcObjMutex
  locked,       \* ArcObjMutex.locked
  result,       \* what its VM's stack has on top
  got,          \* what another thread's join of it returned, or -1
  heap_freed,   \* has arc_vm_destroy freed the shared heap?
  ops           \* the counter that MaxOps bounds

mutex == <<owner, locked>>
joining == <<target, joined, joins, got>>
vars == <<pc, parent, target, joined, joins, owner, locked, result, got,
          heap_freed, ops>>

Init ==
  /\ pc = [t \in Threads |-> IF t = Main THEN "run" ELSE "absent"]
  /\ parent = [t \in Threads |-> NoThread]
  /\ target = [t \in Threads |-> NoThread]
  /\ joined = [t \in Threads |-> FALSE]
  /\ joins = [t \in Threads |-> 0]
  /\ owner = NoThread
  /\ locked = FALSE
  /\ result = [t \in Threads |-> 0]
  /\ got = [t \in Threads |-> -1]
  /\ heap_freed = FALSE
  /\ ops = [t \in Threads |-> 0]

Goto(t, from, to) ==
  /\ pc[t] = from
  /\ pc' = [pc EXCEPT ![t] = to]

Count(t) ==
  /\ ops[t] < MaxOps
  /\ ops' = [ops EXCEPT ![t] = @ + 1]

\* The thread holds no lock and has joined every thread it spawned.
AllDone(t) ==
  /\ owner # t
  /\ \A u \in Threads : parent[u] = t => joined[u]

-----------------------------------------------------------------------------
\* Any other instruction: the value on top of the stack changes.
Work(t) ==
  /\ pc[t] = "run"
  /\ Count(t)
  /\ result' = [result EXCEPT ![t] = @ + 1]
  /\ UNCHANGED <<pc, parent, joining, mutex, heap_freed>>

\* The new VM gets its frame and arguments before the thread is created.
vm_exec_thread_spawn(t, u) ==
  /\ pc[t] = "run"
  /\ Count(t)
  /\ pc[u] = "absent"
  /\ pc' = [pc EXCEPT ![u] = "run"]
  /\ parent' = [parent EXCEPT ![u] = t]
  /\ UNCHANGED <<joining, mutex, result, heap_freed>>

\* The VM's loop ends; in the main thread the tool then destroys its VM.
thread_entry(t) ==
  /\ Structured => AllDone(t)
  /\ Goto(t, "run", "finished")
  /\ UNCHANGED <<parent, joining, mutex, result, heap_freed, ops>>

\* arc_vm_destroy of the VM that owns the collector frees every object, the
\* VMs inside the thread objects included.
arc_vm_destroy ==
  /\ pc[Main] = "finished"
  /\ ~ heap_freed
  /\ heap_freed' = TRUE
  /\ UNCHANGED <<pc, parent, joining, mutex, result, ops>>

-----------------------------------------------------------------------------
(* OP_THREAD_JOIN: test of joined, pthread_join, joined = true.            *)

vm_exec_thread_join(t, u) ==
  /\ pc[u] # "absent"
  /\ u # Main
  /\ Structured => parent[u] = t /\ owner # t
  /\ ~ joined[u]
  /\ Goto(t, "run", "join_wait")
  /\ target' = [target EXCEPT ![t] = u]
  /\ joins' = IF u = t THEN joins ELSE [joins EXCEPT ![u] = @ + 1]
  /\ UNCHANGED <<parent, joined, got, mutex, result, heap_freed, ops>>

\* "already joined": the VM stops with an error, and its thread ends.
JoinFails(t, u) ==
  /\ Structured => parent[u] = t /\ AllDone(t)
  /\ joined[u]
  /\ Goto(t, "run", "finished")
  /\ UNCHANGED <<parent, joining, mutex, result, heap_freed, ops>>

\* Mutant: the wait is left out.
JoinReturnsEarly(t) ==
  /\ Goto(t, "join_wait", "join_mark")
  /\ UNCHANGED <<parent, joining, mutex, result, heap_freed, ops>>

\* pthread_join returns when the target has ended, or at once with an error
\* if a thread joins itself.
JoinReturns(t) ==
  /\ Goto(t, "join_wait", "join_mark")
  /\ target[t] = t \/ pc[target[t]] = "finished"
  /\ UNCHANGED <<parent, joining, mutex, result, heap_freed, ops>>

JoinMark(t) ==
  LET u == target[t] IN
  /\ Goto(t, "join_mark", "run")
  /\ joined' = [joined EXCEPT ![u] = TRUE]
  /\ got' = IF u = t THEN got ELSE [got EXCEPT ![u] = result[u]]
  /\ target' = [target EXCEPT ![t] = NoThread]
  /\ UNCHANGED <<parent, joins, mutex, result, heap_freed, ops>>

-----------------------------------------------------------------------------
(* OP_MUTEX_LOCK and OP_MUTEX_UNLOCK.                                      *)

vm_exec_mutex_lock(t) ==
  /\ Structured => owner # t
  /\ Count(t)
  /\ Goto(t, "run", "lock_wait")
  /\ UNCHANGED <<parent, joining, mutex, result, heap_freed>>

LockTake(t) ==
  /\ owner = NoThread
  /\ owner' = t
  /\ Goto(t, "lock_wait", "lock_flag")
  /\ UNCHANGED <<parent, joining, locked, result, heap_freed, ops>>

LockFlag(t) ==
  /\ locked' = TRUE
  /\ Goto(t, "lock_flag", "run")
  /\ UNCHANGED <<parent, joining, owner, result, heap_freed, ops>>

\* Mutant: the mutex is released before the flag is cleared.
UnlockReleasesFirst(t) ==
  /\ Structured => owner = t
  /\ owner' = NoThread
  /\ Goto(t, "run", "unlock_release")
  /\ UNCHANGED <<parent, joining, locked, result, heap_freed, ops>>

vm_exec_mutex_unlock(t) ==
  /\ Structured => owner = t
  /\ locked' = FALSE
  /\ Goto(t, "run", "unlock_release")
  /\ UNCHANGED <<parent, joining, owner, result, heap_freed, ops>>

\* Mutant: the platform mutex is never released.
UnlockForgotten(t) ==
  /\ Goto(t, "unlock_release", "run")
  /\ UNCHANGED <<parent, joining, mutex, result, heap_freed, ops>>

UnlockRelease(t) ==
  /\ owner' = NoThread
  /\ Goto(t, "unlock_release", "run")
  /\ UNCHANGED <<parent, joining, locked, result, heap_freed, ops>>

-----------------------------------------------------------------------------
Step(t) ==
  \/ Work(t) \/ thread_entry(t)
  \/ \E u \in Threads :
       \/ vm_exec_thread_spawn(t, u)
       \/ vm_exec_thread_join(t, u) \/ JoinFails(t, u)
  \/ JoinReturns(t) \/ JoinMark(t)
  \/ vm_exec_mutex_lock(t) \/ LockTake(t) \/ LockFlag(t)
  \/ vm_exec_mutex_unlock(t) \/ UnlockRelease(t)

Next == (\E t \in Threads : Step(t)) \/ arc_vm_destroy

Spec == Init /\ [][Next]_vars

\* Every thread that can go on does.
FairSpec == Spec /\ WF_vars(arc_vm_destroy) /\ \A t \in Threads : WF_vars(Step(t))

-----------------------------------------------------------------------------
\* The platform layer is asked to join a thread once: a second pthread_join
\* on the same handle is undefined behaviour, which the flag is to prevent.
JoinedOnce == \A u \in Threads : joins[u] <= 1

\* A join returns the value with which the thread ended.
JoinReturnsResult ==
  \A u \in Threads : got[u] # -1 => pc[u] = "finished" /\ got[u] = result[u]

\* The flag of a mutex agrees with the lock underneath, except between the two
\* statements of its owner's lock or unlock.
FlagMatchesLock ==
  locked <=> \E t \in Threads : owner = t /\ pc[t] \notin {"lock_flag", "unlock_release"}

\* The shared heap is freed only after every thread has ended: no VM runs on
\* memory that arc_vm_destroy has freed.
HeapOutlivesThreads ==
  heap_freed => \A t \in Threads : pc[t] \in {"absent", "finished"}

\* Fork-join programs never deadlock: until the main thread has ended, some
\* thread is at an instruction it can execute (one that is not blocked in
\* arc_mutex_lock on a mutex that is held, or in arc_thread_join on a thread that
\* runs), however the tree of threads and their critical sections interleave.
CanGo(t) ==
  \/ pc[t] \in {"run", "join_mark", "lock_flag", "unlock_release"}
  \/ pc[t] = "lock_wait" /\ owner = NoThread
  \/ pc[t] = "join_wait" /\ pc[target[t]] = "finished"
NoOneStuck == pc[Main] # "finished" => \E t \in Threads : CanGo(t)

\* Fork-join programs end: no thread waits for ever for a lock or a join.
EveryoneEnds == <>(heap_freed)

-----------------------------------------------------------------------------
(* The inductive invariant of fork-join programs (Structured).             *)

TypeOK ==
  /\ pc \in [Threads -> {"absent", "run", "finished", "join_wait", "join_mark",
                         "lock_wait", "lock_flag", "unlock_release"}]
  /\ parent \in [Threads -> Threads \cup {NoThread}]
  /\ target \in [Threads -> Threads \cup {NoThread}]
  /\ joined \in [Threads -> BOOLEAN]
  /\ joins \in [Threads -> Nat]
  /\ owner \in Threads \cup {NoThread}
  /\ locked \in BOOLEAN
  /\ result \in [Threads -> Nat]
  /\ got \in [Threads -> Int]
  /\ heap_freed \in BOOLEAN
  /\ ops \in [Threads -> Nat]

\* The threads that were spawned form a tree with the main thread at its root.
\* That it is one is said of its sets of threads: every set without the root has
\* a thread whose parent is outside, and every set has a thread without a child in it.
Existing == {t \in Threads : pc[t] # "absent"}
TreeInv ==
  /\ Main \in Existing /\ parent[Main] = NoThread
  /\ \A t \in Existing \ {Main} : parent[t] \in Existing
  /\ \A t \in Threads \ Existing : parent[t] = NoThread
  /\ \A S \in SUBSET (Existing \ {Main}) : S # {} => \E t \in S : parent[t] \notin S
  /\ \A S \in SUBSET Existing : S # {} => \E t \in S : \A u \in S : parent[u] # t

\* A thread that is in a join is in one of a child of its own, which nobody has
\* joined yet; a join leaves its flag behind; and a thread that has ended has joined its
\* children.
Joining(t) == pc[t] \in {"join_wait", "join_mark"}
JoinInv ==
  /\ \A t \in Threads : Joining(t) =>
       /\ target[t] \in Existing /\ parent[target[t]] = t
       /\ ~ joined[target[t]]
       /\ pc[t] = "join_mark" => pc[target[t]] = "finished"
  /\ \A u \in Threads :
       /\ joins[u] \in {0, 1}
       /\ joins[u] = 1 => joined[u] \/ \E t \in Threads : Joining(t) /\ target[t] = u
  /\ \A u \in Threads : joined[u] => pc[u] = "finished"
  /\ \A t \in Threads : pc[t] = "finished" => AllDone(t)

\* Who is between the two statements of a lock or an unlock has the mutex, and
\* who waits, has ended or is not there does not have it.
LockInv ==
  \A t \in Threads :
    /\ pc[t] \in {"lock_flag", "unlock_release"} => owner = t
    /\ pc[t] \in {"lock_wait", "join_wait", "join_mark", "finished", "absent"} => owner # t

ForkJoinInv ==
  /\ TypeOK
  /\ TreeInv
  /\ JoinInv
  /\ LockInv
  /\ FlagMatchesLock
  /\ JoinReturnsResult
  /\ heap_freed => pc[Main] = "finished"
=============================================================================
