--------------------------- MODULE ThreadsProofs ----------------------------
(***************************************************************************)
(* Proof that fork-join programs use threads and the mutex safely, for any *)
(* number of threads and any tree of spawns: a thread is joined once and   *)
(* its join returns its result, the flag of the mutex tells the truth, no  *)
(* thread outlives the heap, and there is no deadlock.                     *)
(*                                                                         *)
(* The last two are about the whole tree of threads, so they need that it  *)
(* is one.  The invariant says so without counting or recursion: in every  *)
(* set of spawned threads without the main thread some thread has its      *)
(* parent outside the set, and in every set some thread has no child in    *)
(* the set.  Taking the threads that have not ended for the set, the first *)
(* shows that the main thread ends last, the second that some thread waits *)
(* for no other.                                                           *)
(***************************************************************************)
EXTENDS Threads, TLAPS

\* Every step keeps the types.
LEMMA TypeStep ==
  ASSUME TypeOK, JoinInv, [Next]_vars
  PROVE  TypeOK'
<1> USE ThreadAssumption DEF TypeOK
<1>1. ASSUME NEW t \in Threads, Work(t) PROVE TypeOK'
  BY <1>1 DEF Work, Count, joining, mutex
<1>2. ASSUME NEW t \in Threads, NEW u \in Threads, vm_exec_thread_spawn(t, u) PROVE TypeOK'
  BY <1>2 DEF vm_exec_thread_spawn, Count, joining, mutex
<1>3. ASSUME NEW t \in Threads, thread_entry(t) PROVE TypeOK'
  BY <1>3 DEF thread_entry, Goto, joining, mutex
<1>4. ASSUME NEW t \in Threads, NEW u \in Threads, vm_exec_thread_join(t, u) PROVE TypeOK'
  BY <1>4 DEF vm_exec_thread_join, Goto, mutex
<1>5. ASSUME NEW t \in Threads, NEW u \in Threads, JoinFails(t, u) PROVE TypeOK'
  BY <1>5 DEF JoinFails, Goto, joining, mutex
<1>6. ASSUME NEW t \in Threads, JoinReturns(t) PROVE TypeOK'
  BY <1>6 DEF JoinReturns, Goto, joining, mutex
<1>7. ASSUME NEW t \in Threads, JoinMark(t) PROVE TypeOK'
  <2>1. target[t] \in Threads
    BY <1>7 DEF JoinMark, Goto, JoinInv, Joining, Existing
  <2> QED
    BY <1>7, <2>1 DEF JoinMark, Goto, mutex
<1>8. ASSUME NEW t \in Threads, vm_exec_mutex_lock(t) PROVE TypeOK'
  BY <1>8 DEF vm_exec_mutex_lock, Count, Goto, joining, mutex
<1>9. ASSUME NEW t \in Threads, LockTake(t) PROVE TypeOK'
  BY <1>9 DEF LockTake, Goto, joining
<1>10. ASSUME NEW t \in Threads, LockFlag(t) PROVE TypeOK'
  BY <1>10 DEF LockFlag, Goto, joining
<1>11. ASSUME NEW t \in Threads, vm_exec_mutex_unlock(t) PROVE TypeOK'
  BY <1>11 DEF vm_exec_mutex_unlock, Goto, joining
<1>12. ASSUME NEW t \in Threads, UnlockRelease(t) PROVE TypeOK'
  BY <1>12 DEF UnlockRelease, Goto, joining
<1>13. ASSUME arc_vm_destroy PROVE TypeOK'
  BY <1>13 DEF arc_vm_destroy, joining, mutex
<1>14. ASSUME UNCHANGED vars PROVE TypeOK'
  BY <1>14 DEF vars
<1> QED
  BY <1>1, <1>2, <1>3, <1>4, <1>5, <1>6, <1>7, <1>8, <1>9, <1>10, <1>11, <1>12,
     <1>13, <1>14 DEF Next, Step

\* Only a spawn changes the tree.
LEMMA TreeUnchanged ==
  ASSUME TypeOK, [Next]_vars,
         ~ \E t, u \in Threads : vm_exec_thread_spawn(t, u)
  PROVE  Existing' = Existing /\ parent' = parent
<1>1. CASE \E t \in Threads : Work(t)
  BY <1>1 DEF Work, Existing
<1>2. CASE \E t \in Threads : thread_entry(t) \/ \E u \in Threads : JoinFails(t, u)
  BY <1>2 DEF thread_entry, JoinFails, Goto, Existing, TypeOK
<1>3. CASE \E t, u \in Threads : vm_exec_thread_join(t, u)
  BY <1>3 DEF vm_exec_thread_join, Goto, Existing, TypeOK
<1>4. CASE \E t \in Threads : JoinReturns(t) \/ JoinMark(t)
  BY <1>4 DEF JoinReturns, JoinMark, Goto, Existing, TypeOK
<1>5. CASE \E t \in Threads : vm_exec_mutex_lock(t) \/ LockTake(t) \/ LockFlag(t)
  BY <1>5 DEF vm_exec_mutex_lock, LockTake, LockFlag, Goto, Existing, TypeOK
<1>6. CASE \E t \in Threads : vm_exec_mutex_unlock(t) \/ UnlockRelease(t)
  BY <1>6 DEF vm_exec_mutex_unlock, UnlockRelease, Goto, Existing, TypeOK
<1>7. CASE arc_vm_destroy \/ UNCHANGED vars
  BY <1>7 DEF arc_vm_destroy, vars, Existing
<1> QED
  BY <1>1, <1>2, <1>3, <1>4, <1>5, <1>6, <1>7 DEF Next, Step

\* A spawn hangs a new leaf into the tree.
LEMMA TreeStep ==
  ASSUME TypeOK, TreeInv, [Next]_vars
  PROVE  TreeInv'
<1>1. CASE ~ \E t, u \in Threads : vm_exec_thread_spawn(t, u)
  BY <1>1, TreeUnchanged DEF TreeInv
<1>2. ASSUME NEW t \in Threads, NEW u \in Threads, vm_exec_thread_spawn(t, u)
      PROVE  TreeInv'
  <2>1. /\ t \in Existing /\ u \in Threads /\ u \notin Existing
        /\ Existing' = Existing \cup {u}
        /\ parent' = [parent EXCEPT ![u] = t]
    BY <1>2 DEF vm_exec_thread_spawn, Existing, TypeOK
  <2>2. parent'[u] = t /\ \A v \in Threads \ {u} : parent'[v] = parent[v]
    BY <2>1 DEF TypeOK
  <2>3. Existing \subseteq Threads /\ Main \in Existing /\ Main # u /\ NoThread \notin Existing
    BY <2>1, ThreadAssumption DEF TreeInv, Existing
  <2>4. \A v \in Existing : parent[v] # u
    BY <2>1, <2>3, ThreadAssumption DEF TreeInv
  <2>5. parent'[Main] = NoThread
    BY <2>2, <2>3 DEF TreeInv
  <2>6. \A v \in Existing' \ {Main} : parent'[v] \in Existing'
    BY <2>1, <2>2, <2>3 DEF TreeInv
  <2>7. \A v \in Threads \ Existing' : parent'[v] = NoThread
    BY <2>1, <2>2 DEF TreeInv
  <2>8. ASSUME NEW S \in SUBSET (Existing' \ {Main}), S # {}
        PROVE  \E v \in S : parent'[v] \notin S
    <3>1. CASE S \subseteq {u}
      BY <3>1, <2>1, <2>2, <2>8
    <3>2. CASE ~ S \subseteq {u}
      <4>1. S \ {u} \in SUBSET (Existing \ {Main}) /\ S \ {u} # {}
        BY <3>2, <2>1, <2>8
      <4>2. PICK v \in S \ {u} : parent[v] \notin S \ {u}
        BY <4>1 DEF TreeInv
      <4> QED
        BY <4>1, <4>2, <2>2, <2>3, <2>4
    <3> QED
      BY <3>1, <3>2
  <2>9. ASSUME NEW S \in SUBSET Existing', S # {}
        PROVE  \E v \in S : \A w \in S : parent'[w] # v
    <3>1. CASE u \in S
      <4>1. \A w \in S : parent'[w] # u
        BY <2>1, <2>2, <2>3, <2>4, <2>9
      <4> QED
        BY <3>1, <4>1
    <3>2. CASE u \notin S
      <4>1. S \in SUBSET Existing
        BY <3>2, <2>1, <2>9
      <4>2. PICK v \in S : \A w \in S : parent[w] # v
        BY <4>1, <2>9 DEF TreeInv
      <4>3. \A w \in S : parent'[w] = parent[w]
        BY <4>1, <3>2, <2>2, <2>3
      <4> QED
        BY <4>2, <4>3
    <3> QED
      BY <3>1, <3>2
  <2> QED
    BY <2>1, <2>3, <2>5, <2>6, <2>7, <2>8, <2>9 DEF TreeInv
<1> QED
  BY <1>1, <1>2

\* No thread is its own parent, and absent threads have no children.
LEMMA Parents ==
  ASSUME TypeOK, TreeInv
  PROVE  /\ \A t \in Threads : parent[t] # t
         /\ \A t, u \in Threads : parent[u] = t => pc[t] # "absent" /\ pc[u] # "absent" /\ u # Main
<1>1. ASSUME NEW t \in Threads PROVE parent[t] # t
  <2>1. CASE t \in Existing \ {Main}
    <3>1. {t} \in SUBSET (Existing \ {Main}) /\ {t} # {}
      BY <2>1
    <3> QED
      BY <3>1 DEF TreeInv
  <2>2. CASE t \notin Existing \ {Main}
    BY <2>2, ThreadAssumption DEF TreeInv
  <2> QED
    BY <2>1, <2>2
<1>2. ASSUME NEW t \in Threads, NEW u \in Threads, parent[u] = t
      PROVE  pc[t] # "absent" /\ pc[u] # "absent" /\ u # Main
  BY <1>2, ThreadAssumption DEF TreeInv, Existing
<1> QED
  BY <1>1, <1>2

\* Joins of fork-join programs, one step.
LEMMA JoinStep ==
  ASSUME Structured, TypeOK, TreeInv, JoinInv, LockInv, [Next]_vars
  PROVE  JoinInv'
<1> USE Structured, Parents, ThreadAssumption DEF TypeOK, JoinInv, Joining, AllDone
<1>1. ASSUME NEW t \in Threads, Work(t) PROVE JoinInv'
  BY <1>1 DEF Work, joining, mutex, Existing
<1>2. ASSUME NEW t \in Threads, NEW u \in Threads, vm_exec_thread_spawn(t, u) PROVE JoinInv'
  BY <1>2 DEF vm_exec_thread_spawn, joining, mutex, Existing
<1>3. ASSUME NEW t \in Threads, thread_entry(t) PROVE JoinInv'
  BY <1>3 DEF thread_entry, Goto, joining, mutex, Existing
<1>4. ASSUME NEW t \in Threads, NEW u \in Threads, vm_exec_thread_join(t, u) PROVE JoinInv'
  BY <1>4 DEF vm_exec_thread_join, Goto, mutex, Existing
<1>5. ASSUME NEW t \in Threads, NEW u \in Threads, JoinFails(t, u) PROVE JoinInv'
  BY <1>5 DEF JoinFails, Goto, joining, mutex, Existing
<1>6. ASSUME NEW t \in Threads, JoinReturns(t) PROVE JoinInv'
  BY <1>6 DEF JoinReturns, Goto, joining, mutex, Existing
<1>7. ASSUME NEW t \in Threads, JoinMark(t) PROVE JoinInv'
  BY <1>7 DEF JoinMark, Goto, mutex, Existing
<1>8. ASSUME NEW t \in Threads, vm_exec_mutex_lock(t) PROVE JoinInv'
  BY <1>8 DEF vm_exec_mutex_lock, Goto, joining, mutex, Existing
<1>9. ASSUME NEW t \in Threads, LockTake(t) PROVE JoinInv'
  BY <1>9 DEF LockTake, Goto, joining, Existing
<1>10. ASSUME NEW t \in Threads, LockFlag(t) PROVE JoinInv'
  BY <1>10 DEF LockFlag, Goto, joining, Existing
<1>11. ASSUME NEW t \in Threads, vm_exec_mutex_unlock(t) PROVE JoinInv'
  BY <1>11 DEF vm_exec_mutex_unlock, Goto, joining, Existing
<1>12. ASSUME NEW t \in Threads, UnlockRelease(t) PROVE JoinInv'
  BY <1>12 DEF UnlockRelease, Goto, joining, Existing
<1>13. ASSUME arc_vm_destroy PROVE JoinInv'
  BY <1>13 DEF arc_vm_destroy, joining, mutex, Existing
<1>14. ASSUME UNCHANGED vars PROVE JoinInv'
  BY <1>14 DEF vars, Existing
<1> QED
  BY <1>1, <1>2, <1>3, <1>4, <1>5, <1>6, <1>7, <1>8, <1>9, <1>10, <1>11, <1>12,
     <1>13, <1>14 DEF Next, Step

\* The mutex and its flag, one step.
LEMMA LockStep ==
  ASSUME Structured, TypeOK, LockInv, FlagMatchesLock, [Next]_vars
  PROVE  LockInv' /\ FlagMatchesLock'
<1> USE Structured, ThreadAssumption DEF TypeOK, LockInv, FlagMatchesLock, AllDone
<1> DEFINE Kept == LockInv' /\ FlagMatchesLock'
<1>1. ASSUME NEW t \in Threads, Work(t) PROVE Kept
  BY <1>1 DEF Work, joining, mutex
<1>2. ASSUME NEW t \in Threads, NEW u \in Threads, vm_exec_thread_spawn(t, u) PROVE Kept
  BY <1>2 DEF vm_exec_thread_spawn, joining, mutex
<1>3. ASSUME NEW t \in Threads, thread_entry(t) PROVE Kept
  BY <1>3 DEF thread_entry, Goto, joining, mutex
<1>4. ASSUME NEW t \in Threads, NEW u \in Threads, vm_exec_thread_join(t, u) PROVE Kept
  BY <1>4 DEF vm_exec_thread_join, Goto, mutex
<1>5. ASSUME NEW t \in Threads, NEW u \in Threads, JoinFails(t, u) PROVE Kept
  BY <1>5 DEF JoinFails, Goto, joining, mutex
<1>6. ASSUME NEW t \in Threads, JoinReturns(t) PROVE Kept
  BY <1>6 DEF JoinReturns, Goto, joining, mutex
<1>7. ASSUME NEW t \in Threads, JoinMark(t) PROVE Kept
  BY <1>7 DEF JoinMark, Goto, mutex
<1>8. ASSUME NEW t \in Threads, vm_exec_mutex_lock(t) PROVE Kept
  BY <1>8 DEF vm_exec_mutex_lock, Goto, joining, mutex
<1>9. ASSUME NEW t \in Threads, LockTake(t) PROVE Kept
  BY <1>9 DEF LockTake, Goto, joining
<1>10. ASSUME NEW t \in Threads, LockFlag(t) PROVE Kept
  BY <1>10 DEF LockFlag, Goto, joining
<1>11. ASSUME NEW t \in Threads, vm_exec_mutex_unlock(t) PROVE Kept
  BY <1>11 DEF vm_exec_mutex_unlock, Goto, joining
<1>12. ASSUME NEW t \in Threads, UnlockRelease(t) PROVE Kept
  BY <1>12 DEF UnlockRelease, Goto, joining
<1>13. ASSUME arc_vm_destroy PROVE Kept
  BY <1>13 DEF arc_vm_destroy, joining, mutex
<1>14. ASSUME UNCHANGED vars PROVE Kept
  BY <1>14 DEF vars
<1> QED
  BY <1>1, <1>2, <1>3, <1>4, <1>5, <1>6, <1>7, <1>8, <1>9, <1>10, <1>11, <1>12,
     <1>13, <1>14 DEF Next, Step

\* A thread that has ended stays so, with its result; what a join has returned
\* was the result of a thread that has ended.
LEMMA ReturnStep ==
  ASSUME Structured, TypeOK, JoinInv, JoinReturnsResult, heap_freed => pc[Main] = "finished",
         [Next]_vars
  PROVE  JoinReturnsResult' /\ (heap_freed => pc[Main] = "finished")'
<1> USE Structured, ThreadAssumption DEF TypeOK, JoinReturnsResult
<1> DEFINE Kept == JoinReturnsResult' /\ (heap_freed => pc[Main] = "finished")'
<1>1. ASSUME NEW t \in Threads, Work(t) PROVE Kept
  BY <1>1 DEF Work, joining, mutex
<1>2. ASSUME NEW t \in Threads, NEW u \in Threads, vm_exec_thread_spawn(t, u) PROVE Kept
  BY <1>2 DEF vm_exec_thread_spawn, joining, mutex
<1>3. ASSUME NEW t \in Threads, thread_entry(t) PROVE Kept
  BY <1>3 DEF thread_entry, Goto, joining, mutex
<1>4. ASSUME NEW t \in Threads, NEW u \in Threads, vm_exec_thread_join(t, u) PROVE Kept
  BY <1>4 DEF vm_exec_thread_join, Goto, mutex
<1>5. ASSUME NEW t \in Threads, NEW u \in Threads, JoinFails(t, u) PROVE Kept
  BY <1>5 DEF JoinFails, Goto, joining, mutex
<1>6. ASSUME NEW t \in Threads, JoinReturns(t) PROVE Kept
  BY <1>6 DEF JoinReturns, Goto, joining, mutex
<1>7. ASSUME NEW t \in Threads, JoinMark(t) PROVE Kept
  BY <1>7 DEF JoinMark, Goto, mutex, JoinInv, Joining, Existing
<1>8. ASSUME NEW t \in Threads, vm_exec_mutex_lock(t) PROVE Kept
  BY <1>8 DEF vm_exec_mutex_lock, Goto, joining, mutex
<1>9. ASSUME NEW t \in Threads, LockTake(t) PROVE Kept
  BY <1>9 DEF LockTake, Goto, joining
<1>10. ASSUME NEW t \in Threads, LockFlag(t) PROVE Kept
  BY <1>10 DEF LockFlag, Goto, joining
<1>11. ASSUME NEW t \in Threads, vm_exec_mutex_unlock(t) PROVE Kept
  BY <1>11 DEF vm_exec_mutex_unlock, Goto, joining
<1>12. ASSUME NEW t \in Threads, UnlockRelease(t) PROVE Kept
  BY <1>12 DEF UnlockRelease, Goto, joining
<1>13. ASSUME arc_vm_destroy PROVE Kept
  BY <1>13 DEF arc_vm_destroy, joining, mutex
<1>14. ASSUME UNCHANGED vars PROVE Kept
  BY <1>14 DEF vars
<1> QED
  BY <1>1, <1>2, <1>3, <1>4, <1>5, <1>6, <1>7, <1>8, <1>9, <1>10, <1>11, <1>12,
     <1>13, <1>14 DEF Next, Step

\* The invariant of fork-join programs.
LEMMA ForkJoinInvariant ==
  ASSUME Structured
  PROVE  Spec => []ForkJoinInv
<1>1. Init => ForkJoinInv
  <2> SUFFICES ASSUME Init PROVE ForkJoinInv
    OBVIOUS
  <2>1. TypeOK
    <3>1. joined \in [Threads -> BOOLEAN] /\ locked \in BOOLEAN /\ heap_freed \in BOOLEAN
      BY Zenon DEF Init
    <3>2. got \in [Threads -> Int] /\ joins \in [Threads -> Nat] /\ result \in [Threads -> Nat]
          /\ ops \in [Threads -> Nat]
      BY DEF Init
    <3> QED
      BY <3>1, <3>2 DEF Init, TypeOK
  <2>2. Existing = {Main}
    BY ThreadAssumption DEF Init, Existing
  <2>3. TreeInv
    <3>1. parent[Main] = NoThread /\ \A t \in Threads : parent[t] = NoThread
      BY ThreadAssumption DEF Init
    <3>2. ASSUME NEW S \in SUBSET Existing, S # {}
          PROVE  \E t \in S : \A u \in S : parent[u] # t
      <4>1. Main \in S /\ S \subseteq Threads
        BY <2>2, <3>2, ThreadAssumption
      <4> QED
        BY <3>1, <4>1, ThreadAssumption
    <3> QED
      BY <2>2, <3>1, <3>2, ThreadAssumption DEF TreeInv
  <2>4. JoinInv
    BY ThreadAssumption DEF Init, JoinInv, Joining, AllDone
  <2>5. LockInv /\ FlagMatchesLock /\ JoinReturnsResult
    BY ThreadAssumption DEF Init, LockInv, FlagMatchesLock, JoinReturnsResult
  <2> QED
    BY <2>1, <2>3, <2>4, <2>5 DEF ForkJoinInv, Init
<1>2. ForkJoinInv /\ [Next]_vars => ForkJoinInv'
  <2> SUFFICES ASSUME ForkJoinInv, [Next]_vars PROVE ForkJoinInv'
    OBVIOUS
  <2>1. TypeOK' /\ TreeInv'
    BY TypeStep, TreeStep DEF ForkJoinInv
  <2>2. JoinInv'
    BY JoinStep DEF ForkJoinInv
  <2>3. LockInv' /\ FlagMatchesLock'
    BY LockStep DEF ForkJoinInv
  <2>4. JoinReturnsResult' /\ (heap_freed => pc[Main] = "finished")'
    BY ReturnStep DEF ForkJoinInv
  <2> QED
    BY <2>1, <2>2, <2>3, <2>4 DEF ForkJoinInv
<1> QED
  BY <1>1, <1>2, PTL DEF Spec

\* The main thread ends last: if some thread had not ended, one of those would
\* have a parent that has ended and has therefore joined it.
LEMMA MainEndsLast ==
  ASSUME ForkJoinInv, pc[Main] = "finished", NEW t \in Threads
  PROVE  pc[t] \in {"absent", "finished"}
<1> DEFINE Going == {u \in Existing : pc[u] # "finished"}
<1>1. SUFFICES ASSUME Going # {} PROVE FALSE
  BY DEF Existing
<1>2. Going \in SUBSET (Existing \ {Main})
  OBVIOUS
<1>3. PICK u \in Going : parent[u] \notin Going
  BY <1>1, <1>2 DEF ForkJoinInv, TreeInv
<1>4. parent[u] \in Threads /\ pc[parent[u]] = "finished"
  BY <1>2, <1>3 DEF ForkJoinInv, TreeInv, Existing
<1>5. joined[u]
  BY <1>4 DEF ForkJoinInv, JoinInv, AllDone, Existing
<1> QED
  BY <1>5 DEF ForkJoinInv, JoinInv, Existing

\* Some thread can go on: the holder of the mutex if there is one, or else a
\* thread that has not ended and has no child that has not.
LEMMA SomeoneGoes ==
  ASSUME ForkJoinInv
  PROVE  NoOneStuck
<1> SUFFICES ASSUME pc[Main] # "finished" PROVE \E t \in Threads : CanGo(t)
  BY DEF NoOneStuck
<1> USE DEF ForkJoinInv
<1>1. CASE owner # NoThread
  <2>1. owner \in Threads /\ pc[owner] \in {"run", "lock_flag", "unlock_release"}
    BY <1>1 DEF TypeOK, LockInv
  <2> QED
    BY <2>1 DEF CanGo
<1>2. CASE owner = NoThread
  <2> DEFINE Going == {u \in Existing : pc[u] # "finished"}
  <2>1. Going \in SUBSET Existing /\ Main \in Going
    BY DEF TreeInv
  <2>2. PICK t \in Going : \A u \in Going : parent[u] # t
    BY <2>1 DEF TreeInv
  <2>3. t \in Threads /\ pc[t] \notin {"absent", "finished"}
    BY <2>2 DEF Existing
  <2>4. pc[t] = "join_wait" => pc[target[t]] = "finished"
    BY <2>2, <2>3 DEF JoinInv, Joining
  <2> QED
    BY <1>2, <2>3, <2>4 DEF CanGo, TypeOK
<1> QED
  BY <1>1, <1>2

-----------------------------------------------------------------------------
\* In a fork-join program pthread_join is called at most once on every thread.
THEOREM JoinSafe ==
  ASSUME Structured
  PROVE  Spec => []JoinedOnce
<1>1. ForkJoinInv => JoinedOnce
  BY DEF ForkJoinInv, JoinInv, JoinedOnce
<1> QED
  BY <1>1, ForkJoinInvariant, PTL

\* In a fork-join program OP_THREAD_JOIN returns what the thread left on its
\* stack when it ended.
THEOREM ResultSafe ==
  ASSUME Structured
  PROVE  Spec => []JoinReturnsResult
<1>1. ForkJoinInv => JoinReturnsResult
  BY DEF ForkJoinInv
<1> QED
  BY <1>1, ForkJoinInvariant, PTL

\* In a fork-join program ArcObjMutex.locked says whether the platform mutex is
\* held, but for the moment between the two statements of a lock or an unlock.
THEOREM FlagSafe ==
  ASSUME Structured
  PROVE  Spec => []FlagMatchesLock
<1>1. ForkJoinInv => FlagMatchesLock
  BY DEF ForkJoinInv
<1> QED
  BY <1>1, ForkJoinInvariant, PTL

\* In a fork-join program no thread runs on a heap that arc_vm_destroy has freed.
THEOREM HeapSafe ==
  ASSUME Structured
  PROVE  Spec => []HeapOutlivesThreads
<1>1. ForkJoinInv => HeapOutlivesThreads
  BY MainEndsLast DEF ForkJoinInv, HeapOutlivesThreads
<1> QED
  BY <1>1, ForkJoinInvariant, PTL

\* Fork-join programs do not deadlock, for any number of threads, any tree of
\* spawns and any use of the mutex.
THEOREM DeadlockFree ==
  ASSUME Structured
  PROVE  Spec => []NoOneStuck
<1>1. ForkJoinInv => NoOneStuck
  BY SomeoneGoes
<1> QED
  BY <1>1, ForkJoinInvariant, PTL
=============================================================================
