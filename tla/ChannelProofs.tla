--------------------------- MODULE ChannelProofs ----------------------------
(***************************************************************************)
(* Proofs about the channel, for any number of threads, any values and any *)
(* capacity.                                                               *)
(*                                                                         *)
(* RingInv is inductive: the mutex has one holder, and what a holder has   *)
(* tested (room, or a value) stays true until it counts, because nobody    *)
(* else is inside.  ReceiversWoken and SendersWoken are inductive on top   *)
(* of it, by counting the threads at each set of labels.  For the          *)
(* refinement InFlight says what the half-done send or receive holds; the  *)
(* increment of count is then the abstract Put, its decrement the abstract *)
(* Take, and every other step of the critical section a stutter.           *)
(***************************************************************************)
EXTENDS Channel, Sequences, FiniteSetTheorems, TLAPS

\* The wrap-around of an index that moves by one: the code writes (x + 1) % c.
LEMMA ModNext ==
  ASSUME NEW c \in Nat, c > 0, NEW x \in 0 .. c - 1
  PROVE  (x + 1) % c = IF x + 1 = c THEN 0 ELSE x + 1
  <1>1. c % c = 0 OBVIOUS
  <1>2. x + 1 < c => (x + 1) % c = x + 1 OBVIOUS
  <1>3. x + 1 = c \/ x + 1 < c OBVIOUS
  <1> QED BY <1>1, <1>2, <1>3

\* A channel has at least one slot, since a capacity of 0 becomes 1.
LEMMA CapPositive == cap \in Nat /\ cap > 0
  BY CapacityAssumption DEF cap

\* The next index of the ring is a slot again.
LEMMA NextSlot ==
  ASSUME NEW x \in Slots
  PROVE  /\ (x + 1) % cap = IF x + 1 = cap THEN 0 ELSE x + 1
         /\ (x + 1) % cap \in Slots
  <1>1. (x + 1) % cap = IF x + 1 = cap THEN 0 ELSE x + 1
    BY ModNext, CapPositive DEF Slots
  <1> QED BY <1>1, CapPositive DEF Slots

-----------------------------------------------------------------------------
\* The new channel satisfies the invariant of the ring.
LEMMA RingInvInit == Init => RingInv
  BY CapPositive, ThreadsAssumption, BoundsAssumption
  DEF Init, arc_obj_channel_new, RingInv, TypeOK, MutexHeld, MidUpdate,
      RingConsistent, Wrapped, Inside, Slots, Held, SendHeld, RecvHeld, Labels

\* Every step of a send, a receive or a wakeup keeps the invariant of the
\* ring; only the tail, head and count updates disturb RingConsistent.
LEMMA RingInvNext == RingInv /\ [Next]_vars => RingInv'
  <1> SUFFICES ASSUME RingInv, [Next]_vars PROVE RingInv'
    OBVIOUS
  <1> USE CapPositive, ThreadsAssumption, BoundsAssumption
      DEF RingInv, TypeOK, MutexHeld, MidUpdate, RingConsistent, Inside,
          Held, SendHeld, RecvHeld, Labels, Goto, ring
  <1>1. ASSUME NEW t \in Threads, NEW v \in Values, vm_exec_chan_send(t, v)
        PROVE  RingInv'
    BY <1>1 DEF vm_exec_chan_send
  <1>2. ASSUME NEW t \in Threads, vm_exec_chan_recv(t)
        PROVE  RingInv'
    BY <1>2 DEF vm_exec_chan_recv
  <1>3. ASSUME NEW t \in Threads, SendLock(t)
        PROVE  RingInv'
    BY <1>3 DEF SendLock, arc_mutex_lock
  <1>4. ASSUME NEW t \in Threads, SendWait(t)
        PROVE  RingInv'
    BY <1>4 DEF SendWait, arc_condvar_wait, arc_mutex_unlock
  <1>5. ASSUME NEW t \in Threads, SendGo(t)
        PROVE  RingInv'
    BY <1>5 DEF SendGo
  <1>6. ASSUME NEW t \in Threads, SendStore(t)
        PROVE  RingInv'
    BY <1>6 DEF SendStore
  <1>7. ASSUME NEW t \in Threads, SendTail(t)
        PROVE  RingInv'
    BY <1>7, NextSlot DEF SendTail, Wrapped, Slots
  <1>8. ASSUME NEW t \in Threads, SendCount(t)
        PROVE  RingInv'
    BY <1>8 DEF SendCount, Wrapped, Slots
  <1>9. ASSUME NEW t \in Threads, SendSignal(t)
        PROVE  RingInv'
    BY <1>9 DEF SendSignal, arc_condvar_signal, not_empty
  <1>10. ASSUME NEW t \in Threads, SendUnlock(t)
        PROVE  RingInv'
    BY <1>10 DEF SendUnlock, arc_mutex_unlock
  <1>11. ASSUME NEW t \in Threads, RecvLock(t)
        PROVE  RingInv'
    BY <1>11 DEF RecvLock, arc_mutex_lock
  <1>12. ASSUME NEW t \in Threads, RecvWait(t)
        PROVE  RingInv'
    BY <1>12 DEF RecvWait, arc_condvar_wait, arc_mutex_unlock
  <1>13. ASSUME NEW t \in Threads, RecvGo(t)
        PROVE  RingInv'
    BY <1>13 DEF RecvGo
  <1>14. ASSUME NEW t \in Threads, RecvLoad(t)
        PROVE  RingInv'
    BY <1>14 DEF RecvLoad
  <1>15. ASSUME NEW t \in Threads, RecvHead(t)
        PROVE  RingInv'
    BY <1>15, NextSlot DEF RecvHead, Wrapped, Slots
  <1>16. ASSUME NEW t \in Threads, RecvCount(t)
        PROVE  RingInv'
    BY <1>16 DEF RecvCount, Wrapped, Slots
  <1>17. ASSUME NEW t \in Threads, RecvSignal(t)
        PROVE  RingInv'
    BY <1>17 DEF RecvSignal, arc_condvar_signal, not_full
  <1>18. ASSUME NEW t \in Threads, RecvUnlock(t)
        PROVE  RingInv'
    BY <1>18 DEF RecvUnlock, arc_mutex_unlock
  <1>19. ASSUME NEW t \in Threads, SpuriousWakeup(t)
        PROVE  RingInv'
    BY <1>19 DEF SpuriousWakeup
  <1>20. CASE UNCHANGED vars
    BY <1>20 DEF vars
  <1> QED
    BY <1>1, <1>2, <1>3, <1>4, <1>5, <1>6, <1>7, <1>8, <1>9, <1>10, <1>11, 
       <1>12, <1>13, <1>14, <1>15, <1>16, <1>17, <1>18, <1>19, <1>20 DEF Next, Step

-----------------------------------------------------------------------------
\* Sets of threads are finite and can be counted.
LEMMA SubsetsFinite ==
  ASSUME NEW S \in SUBSET Threads
  PROVE  IsFiniteSet(S) /\ Cardinality(S) \in Nat
  BY ThreadsAssumption, FS_Subset, FS_CardinalityType

\* One more thread at a set of labels.
LEMMA AddThread ==
  ASSUME NEW S \in SUBSET Threads, NEW t, t \notin S
  PROVE  Cardinality(S \cup {t}) = Cardinality(S) + 1
  BY SubsetsFinite, FS_AddElement

\* One thread fewer at a set of labels.
LEMMA DropThread ==
  ASSUME NEW S \in SUBSET Threads, NEW t \in S
  PROVE  Cardinality(S \ {t}) = Cardinality(S) - 1
  BY SubsetsFinite, FS_RemoveElement

\* No step loses a wakeup of a receiver: count and the awake receivers move
\* together, and a receiver goes to sleep only on an empty ring.
LEMMA ReceiversWokenNext ==
  RingInv /\ ReceiversWoken /\ [Next]_vars => ReceiversWoken'
  <1> SUFFICES ASSUME RingInv, ReceiversWoken, [Next]_vars
               PROVE  ReceiversWoken'
    OBVIOUS
  <1> DEFINE Q == Signalling("send_signal")
  <1>a. /\ Receiving \in SUBSET Threads /\ Q \in SUBSET Threads
        /\ Receiving' \in SUBSET Threads /\ Q' \in SUBSET Threads
    BY DEF Receiving, Signalling
  <1>b. /\ Cardinality(Receiving) \in Nat /\ Cardinality(Q) \in Nat
        /\ Cardinality(Receiving') \in Nat /\ Cardinality(Q') \in Nat
    BY <1>a, SubsetsFinite
  <1>c. pc \in [Threads -> Labels] /\ count \in Nat
    BY CapPositive DEF RingInv, TypeOK
  <1>same. ASSUME Receiving' = Receiving, Q' = Q, count' = count,
                  not_empty' = not_empty
           PROVE  ReceiversWoken'
    BY <1>same DEF ReceiversWoken
  <1>1. ASSUME NEW t \in Threads,
               \/ \E v \in Values : vm_exec_chan_send(t, v)
               \/ SendLock(t) \/ SendWait(t) \/ SendGo(t) \/ SendStore(t)
               \/ SendTail(t) \/ SendUnlock(t) \/ RecvLock(t) \/ RecvGo(t)
               \/ RecvLoad(t) \/ RecvHead(t) \/ RecvSignal(t) \/ RecvUnlock(t)
               \/ SpuriousWakeup(t) /\ pc[t] = "send_wait"
        PROVE  ReceiversWoken'
    <2>1. Receiving' = Receiving /\ Q' = Q /\ count' = count
          /\ not_empty' = not_empty
      BY <1>1, <1>c DEF vm_exec_chan_send, SendLock, SendWait, SendGo, SendStore,
         SendTail, SendUnlock, RecvLock, RecvGo, RecvLoad, RecvHead, RecvSignal,
         RecvUnlock, SpuriousWakeup, Goto, arc_condvar_wait, arc_condvar_signal,
         not_full, not_empty, Receiving, Signalling, ring
    <2> QED BY <2>1, <1>same
  <1>2. ASSUME NEW t \in Threads,
               \/ vm_exec_chan_recv(t)
               \/ SpuriousWakeup(t) /\ pc[t] = "recv_wait"
        PROVE  ReceiversWoken'
    <2>1. /\ Receiving' = Receiving \cup {t} /\ t \notin Receiving
          /\ Q' = Q /\ count' = count /\ not_empty' \subseteq not_empty
      BY <1>2, <1>c DEF vm_exec_chan_recv, SpuriousWakeup, Goto, not_empty,
         Receiving, Signalling, ring
    <2>2. Cardinality(Receiving') = Cardinality(Receiving) + 1
      BY <2>1, <1>a, AddThread
    <2> QED BY <2>1, <2>2, <1>b, <1>c DEF ReceiversWoken
  <1>3. ASSUME NEW t \in Threads, RecvWait(t)
        PROVE  ReceiversWoken'
    BY <1>3, <1>b DEF RecvWait, ReceiversWoken, ring
  <1>4. ASSUME NEW t \in Threads, RecvCount(t)
        PROVE  ReceiversWoken'
    <2>1. /\ Receiving' = Receiving \ {t} /\ t \in Receiving
          /\ Q' = Q /\ count' = count - 1 /\ not_empty' = not_empty
      BY <1>4, <1>c DEF RecvCount, Goto, not_empty, Receiving, Signalling
    <2>2. Cardinality(Receiving') = Cardinality(Receiving) - 1
      BY <2>1, <1>a, DropThread
    <2> QED BY <2>1, <2>2, <1>b, <1>c DEF ReceiversWoken
  <1>5. ASSUME NEW t \in Threads, SendCount(t)
        PROVE  ReceiversWoken'
    <2>1. /\ Receiving' = Receiving /\ Q' = Q \cup {t} /\ t \notin Q
          /\ count' = count + 1 /\ not_empty' = not_empty
      BY <1>5, <1>c DEF SendCount, Goto, not_empty, Receiving, Signalling
    <2>2. Cardinality(Q') = Cardinality(Q) + 1
      BY <2>1, <1>a, AddThread
    <2> QED BY <2>1, <2>2, <1>b, <1>c DEF ReceiversWoken
  <1>6. ASSUME NEW t \in Threads, SendSignal(t)
        PROVE  ReceiversWoken'
    <2>1. /\ Q' = Q \ {t} /\ t \in Q /\ count' = count
      BY <1>6, <1>c DEF SendSignal, arc_condvar_signal, not_empty, Signalling, ring
    <2>2. Cardinality(Q') = Cardinality(Q) - 1
      BY <2>1, <1>a, DropThread
    <2>3. CASE not_empty = {}
      <3>1. not_empty' = {}
        BY <1>6, <2>3, <1>c DEF SendSignal, arc_condvar_signal, not_empty
      <3> QED BY <3>1 DEF ReceiversWoken
    <2>4. CASE not_empty # {}
      <3>1. PICK w \in not_empty :
              pc' = [pc EXCEPT ![t] = "send_unlock", ![w] = "recv_lock"]
        BY <1>6, <2>4 DEF SendSignal, arc_condvar_signal
      <3>2. Receiving' = Receiving \cup {w} /\ w \notin Receiving
        BY <1>6, <3>1, <1>c
        DEF SendSignal, arc_condvar_signal, not_empty, Receiving
      <3>3. Cardinality(Receiving') = Cardinality(Receiving) + 1
        BY <3>2, <1>a, AddThread
      <3> QED BY <2>1, <2>2, <2>4, <3>3, <1>b, <1>c DEF ReceiversWoken
    <2> QED BY <2>3, <2>4
  <1>7. CASE UNCHANGED vars
    BY <1>7, <1>same DEF vars, Receiving, Signalling, not_empty
  <1>8. ASSUME NEW t \in Threads, SpuriousWakeup(t)
        PROVE  pc[t] \in {"send_wait", "recv_wait"}
    BY <1>8 DEF SpuriousWakeup, Goto
  <1> QED
    BY <1>1, <1>2, <1>3, <1>4, <1>5, <1>6, <1>7, <1>8 DEF Next, Step

\* No step loses a wakeup of a sender: the dual of the above, with the free
\* slots in place of the values.
LEMMA SendersWokenNext ==
  RingInv /\ SendersWoken /\ [Next]_vars => SendersWoken'
  <1> SUFFICES ASSUME RingInv, SendersWoken, [Next]_vars
               PROVE  SendersWoken'
    OBVIOUS
  <1> DEFINE Q == Signalling("recv_signal")
  <1>a. /\ Sending \in SUBSET Threads /\ Q \in SUBSET Threads
        /\ Sending' \in SUBSET Threads /\ Q' \in SUBSET Threads
    BY DEF Sending, Signalling
  <1>b. /\ Cardinality(Sending) \in Nat /\ Cardinality(Q) \in Nat
        /\ Cardinality(Sending') \in Nat /\ Cardinality(Q') \in Nat
    BY <1>a, SubsetsFinite
  <1>c. pc \in [Threads -> Labels] /\ count \in Nat /\ cap \in Nat
    BY CapPositive DEF RingInv, TypeOK
  <1>same. ASSUME Sending' = Sending, Q' = Q, count' = count,
                  not_full' = not_full
           PROVE  SendersWoken'
    BY <1>same DEF SendersWoken
  <1>1. ASSUME NEW t \in Threads,
               \/ vm_exec_chan_recv(t)
               \/ RecvLock(t) \/ RecvWait(t) \/ RecvGo(t) \/ RecvLoad(t)
               \/ RecvHead(t) \/ RecvUnlock(t) \/ SendLock(t) \/ SendGo(t)
               \/ SendStore(t) \/ SendTail(t) \/ SendSignal(t) \/ SendUnlock(t)
               \/ SpuriousWakeup(t) /\ pc[t] = "recv_wait"
        PROVE  SendersWoken'
    <2>1. Sending' = Sending /\ Q' = Q /\ count' = count
          /\ not_full' = not_full
      BY <1>1, <1>c DEF vm_exec_chan_recv, RecvLock, RecvWait, RecvGo, RecvLoad,
         RecvHead, RecvUnlock, SendLock, SendGo, SendStore, SendTail, SendSignal,
         SendUnlock, SpuriousWakeup, Goto, arc_condvar_wait, arc_condvar_signal,
         not_empty, not_full, Sending, Signalling, ring
    <2> QED BY <2>1, <1>same
  <1>2. ASSUME NEW t \in Threads,
               \/ \E v \in Values : vm_exec_chan_send(t, v)
               \/ SpuriousWakeup(t) /\ pc[t] = "send_wait"
        PROVE  SendersWoken'
    <2>1. /\ Sending' = Sending \cup {t} /\ t \notin Sending
          /\ Q' = Q /\ count' = count /\ not_full' \subseteq not_full
      BY <1>2, <1>c DEF vm_exec_chan_send, SpuriousWakeup, Goto, not_full,
         Sending, Signalling, ring
    <2>2. Cardinality(Sending') = Cardinality(Sending) + 1
      BY <2>1, <1>a, AddThread
    <2> QED BY <2>1, <2>2, <1>b, <1>c DEF SendersWoken
  <1>3. ASSUME NEW t \in Threads, SendWait(t)
        PROVE  SendersWoken'
    BY <1>3, <1>b, <1>c DEF SendWait, SendersWoken, ring
  <1>4. ASSUME NEW t \in Threads, SendCount(t)
        PROVE  SendersWoken'
    <2>1. /\ Sending' = Sending \ {t} /\ t \in Sending
          /\ Q' = Q /\ count' = count + 1 /\ not_full' = not_full
      BY <1>4, <1>c DEF SendCount, Goto, not_full, Sending, Signalling
    <2>2. Cardinality(Sending') = Cardinality(Sending) - 1
      BY <2>1, <1>a, DropThread
    <2> QED BY <2>1, <2>2, <1>b, <1>c DEF SendersWoken
  <1>5. ASSUME NEW t \in Threads, RecvCount(t)
        PROVE  SendersWoken'
    <2>1. /\ Sending' = Sending /\ Q' = Q \cup {t} /\ t \notin Q
          /\ count' = count - 1 /\ not_full' = not_full
      BY <1>5, <1>c DEF RecvCount, Goto, not_full, Sending, Signalling
    <2>2. Cardinality(Q') = Cardinality(Q) + 1
      BY <2>1, <1>a, AddThread
    <2> QED BY <2>1, <2>2, <1>b, <1>c DEF SendersWoken
  <1>6. ASSUME NEW t \in Threads, RecvSignal(t)
        PROVE  SendersWoken'
    <2>1. /\ Q' = Q \ {t} /\ t \in Q /\ count' = count
      BY <1>6, <1>c DEF RecvSignal, arc_condvar_signal, not_full, Signalling, ring
    <2>2. Cardinality(Q') = Cardinality(Q) - 1
      BY <2>1, <1>a, DropThread
    <2>3. CASE not_full = {}
      <3>1. not_full' = {}
        BY <1>6, <2>3, <1>c DEF RecvSignal, arc_condvar_signal, not_full
      <3> QED BY <3>1 DEF SendersWoken
    <2>4. CASE not_full # {}
      <3>1. PICK w \in not_full :
              pc' = [pc EXCEPT ![t] = "recv_unlock", ![w] = "send_lock"]
        BY <1>6, <2>4 DEF RecvSignal, arc_condvar_signal
      <3>2. Sending' = Sending \cup {w} /\ w \notin Sending
        BY <1>6, <3>1, <1>c
        DEF RecvSignal, arc_condvar_signal, not_full, Sending
      <3>3. Cardinality(Sending') = Cardinality(Sending) + 1
        BY <3>2, <1>a, AddThread
      <3> QED BY <2>1, <2>2, <2>4, <3>3, <1>b, <1>c DEF SendersWoken
    <2> QED BY <2>3, <2>4
  <1>7. CASE UNCHANGED vars
    BY <1>7, <1>same DEF vars, Sending, Signalling, not_full
  <1>8. ASSUME NEW t \in Threads, SpuriousWakeup(t)
        PROVE  pc[t] \in {"recv_wait", "send_wait"}
    BY <1>8 DEF SpuriousWakeup, Goto
  <1> QED
    BY <1>1, <1>2, <1>3, <1>4, <1>5, <1>6, <1>7, <1>8 DEF Next, Step

-----------------------------------------------------------------------------
\* The ring is sound in every reachable state: TypeOK, MutexHeld and
\* RingConsistent, with MidUpdate as the strengthening that makes the
\* conjunction inductive.
THEOREM RingSafe == Spec => [](TypeOK /\ MutexHeld /\ RingConsistent)
  <1>1. RingInv => TypeOK /\ MutexHeld /\ RingConsistent
    BY DEF RingInv
  <1> QED BY <1>1, RingInvInit, RingInvNext, PTL DEF Spec

\* No wakeup is lost, for any number of threads and any capacity.
THEOREM WakeupsSafe == Spec => []NoLostWakeup
  <1>1. Init => NoLostWakeup
    BY DEF Init, NoLostWakeup, ReceiversWoken, SendersWoken, not_empty, not_full
  <1>2. RingInv /\ NoLostWakeup /\ [Next]_vars => NoLostWakeup'
    BY ReceiversWokenNext, SendersWokenNext DEF NoLostWakeup
  <1> QED BY <1>1, <1>2, RingInvInit, RingInvNext, PTL DEF Spec

\* Senders and receivers never sleep on each other.
THEOREM MutualWaitSafe == Spec => []NoMutualWait
  <1>1. RingInv /\ NoLostWakeup => NoMutualWait
    <2> SUFFICES ASSUME RingInv, NoLostWakeup, Threads # {},
                        \A t \in Threads : pc[t] \in {"send_wait", "recv_wait"}
                 PROVE  \/ count = cap /\ not_empty = {}
                        \/ count = 0 /\ not_full = {}
      BY DEF NoMutualWait
    <2>1. /\ Receiving = {} /\ Sending = {}
          /\ Signalling("send_signal") = {} /\ Signalling("recv_signal") = {}
      BY DEF Receiving, Sending, Signalling
    <2>2. Cardinality({}) = 0
      BY FS_EmptySet
    <2>3. not_empty # {} \/ not_full # {}
      BY DEF not_empty, not_full
    <2>4. count \in 0 .. cap /\ cap \in Nat /\ cap > 0
      BY CapPositive DEF RingInv, TypeOK
    <2>5. not_empty # {} => count = 0
      BY <2>1, <2>2, <2>4 DEF NoLostWakeup, ReceiversWoken
    <2>6. not_full # {} => count = cap
      BY <2>1, <2>2, <2>4 DEF NoLostWakeup, SendersWoken
    <2> QED BY <2>3, <2>4, <2>5, <2>6
  <1> QED BY <1>1, WakeupsSafe, RingInvInit, RingInvNext, PTL DEF Spec

-----------------------------------------------------------------------------
\* Modulo and a single subtraction agree below twice the capacity.
LEMMA ModWrap ==
  ASSUME NEW c \in Nat, c > 0, NEW n \in 0 .. 2 * c - 1
  PROVE  n % c = IF n < c THEN n ELSE n - c
  <1>1. n < c => n % c = n OBVIOUS
  <1>2. ASSUME n >= c PROVE n % c = n - c
    <2>1. n - c \in 0 .. c - 1 BY <1>2
    <2>2. (n - c) % c = n - c BY <2>1
    <2>3. n % c = (n - c) % c BY <2>1, <1>2
    <2> QED BY <2>2, <2>3
  <1> QED BY <1>1, <1>2

\* Slot i of the contents, without the modulus.
LEMMA SlotOf ==
  ASSUME NEW f \in Slots, NEW i \in 1 .. cap
  PROVE  /\ (f + i - 1) % cap = Wrapped(f + i - 1)
         /\ Wrapped(f + i - 1) \in Slots
  <1>1. cap \in Nat /\ cap > 0 /\ f \in 0 .. cap - 1
    BY CapPositive DEF Slots
  <1>2. f + i - 1 \in 0 .. 2 * cap - 1
    BY <1>1
  <1>3. (f + i - 1) % cap = Wrapped(f + i - 1)
    BY <1>1, <1>2, ModWrap DEF Wrapped
  <1> QED BY <1>1, <1>3 DEF Wrapped, Slots

\* The slot before head, in the form the refinement mapping has it.
LEMMA PrevSlot ==
  ASSUME NEW x \in Slots
  PROVE  /\ (x + cap - 1) % cap = IF x = 0 THEN cap - 1 ELSE x - 1
         /\ (x + cap - 1) % cap \in Slots
  <1>1. cap \in Nat /\ cap > 0 /\ x \in 0 .. cap - 1
    BY CapPositive DEF Slots
  <1>2. x + cap - 1 \in 0 .. 2 * cap - 1
    BY <1>1
  <1>3. (x + cap - 1) % cap = IF x + cap - 1 < cap THEN x + cap - 1 ELSE x - 1
    BY <1>1, <1>2, ModWrap
  <1> QED BY <1>1, <1>3 DEF Slots

\* Which slot is the oldest, and how a step of the holder moves it.
LEMMA FrontFacts ==
  ASSUME RingInv
  PROVE  /\ front \in Slots
         /\ ~ Inside({"recv_count"}) => front = head
         /\ Inside({"recv_count"}) =>
              front = IF head = 0 THEN cap - 1 ELSE head - 1
  <1>1. head \in Slots
    BY DEF RingInv, TypeOK
  <1> QED BY <1>1, PrevSlot DEF front

\* The facts about front in the next state.
LEMMA FrontFactsNext ==
  ASSUME RingInv'
  PROVE  /\ front' \in Slots
         /\ ~ Inside({"recv_count"})' => front' = head'
         /\ Inside({"recv_count"})' =>
              front' = IF head' = 0 THEN cap - 1 ELSE head' - 1
  <1>1. head' \in Slots
    BY DEF RingInv, TypeOK
  <1> QED BY <1>1, PrevSlot DEF front

\* Only the owner of the mutex is at a label of the critical section.
LEMMA OneHolder ==
  ASSUME RingInv, NEW t \in Threads, pc[t] \in Held,
         NEW u \in Threads, pc[u] \in Held
  PROVE  u = t
  BY DEF RingInv, MutexHeld

\* The oldest slot moves only when count does.
LEMMA FrontStep ==
  ASSUME RingInv, RingInv', [Next]_vars
  PROVE  /\ count' = count => front' = front
         /\ \A t \in Threads : SendCount(t) => front' = front
         /\ \A t \in Threads : RecvCount(t) =>
              front' = IF front + 1 = cap THEN 0 ELSE front + 1
  <1>0. /\ head \in 0 .. cap - 1 /\ cap \in Nat /\ cap > 0
        /\ pc \in [Threads -> Labels] /\ count \in Nat
    BY CapPositive DEF RingInv, TypeOK, Slots
  <1> USE DEF Held, SendHeld, RecvHeld
  <1>1. ASSUME NEW t \in Threads, RecvHead(t)
        PROVE  front' = front
    <2>1. ~ Inside({"recv_count"}) /\ Inside({"recv_count"})'
      BY <1>1, <1>0, OneHolder DEF RecvHead, Goto, Inside
    <2>2. head' = IF head + 1 = cap THEN 0 ELSE head + 1
      BY <1>1, <1>0, NextSlot DEF RecvHead, Slots
    <2> QED BY <2>1, <2>2, <1>0, FrontFacts, FrontFactsNext
  <1>2. ASSUME NEW t \in Threads, RecvCount(t)
        PROVE  front' = IF front + 1 = cap THEN 0 ELSE front + 1
    <2>1. Inside({"recv_count"}) /\ ~ Inside({"recv_count"})' /\ head' = head
      BY <1>2, <1>0, OneHolder DEF RecvCount, Goto, Inside
    <2> QED BY <2>1, <1>0, FrontFacts, FrontFactsNext
  <1>3. ASSUME NEW t \in Threads,
               \/ \E v \in Values : vm_exec_chan_send(t, v)
               \/ vm_exec_chan_recv(t)
               \/ SendLock(t) \/ SendWait(t) \/ SendGo(t) \/ SendStore(t)
               \/ SendTail(t) \/ SendCount(t) \/ SendSignal(t) \/ SendUnlock(t)
               \/ RecvLock(t) \/ RecvWait(t) \/ RecvGo(t) \/ RecvLoad(t)
               \/ RecvSignal(t) \/ RecvUnlock(t) \/ SpuriousWakeup(t)
        PROVE  front' = front
    <2>1. head' = head /\ (Inside({"recv_count"})' <=> Inside({"recv_count"}))
      BY <1>3, <1>0 DEF vm_exec_chan_send, vm_exec_chan_recv, SendLock, SendWait,
         SendGo, SendStore, SendTail, SendCount, SendSignal, SendUnlock, RecvLock,
         RecvWait, RecvGo, RecvLoad, RecvSignal, RecvUnlock, SpuriousWakeup, Goto,
         arc_condvar_wait, arc_condvar_signal, not_full, not_empty, Inside, ring
    <2> QED BY <2>1 DEF front
  <1>4. ASSUME UNCHANGED vars
        PROVE  front' = front
    BY <1>4 DEF vars, front, Inside
  <1>5. \A t \in Threads : RecvCount(t) => count' # count
    BY <1>0 DEF RecvCount
  <1>6. ASSUME count' = count
        PROVE  front' = front
    <2>1. CASE Next
      <3>1. PICK t \in Threads :
              \/ \E v \in Values : vm_exec_chan_send(t, v)
              \/ vm_exec_chan_recv(t)
              \/ Step(t)
              \/ SpuriousWakeup(t)
        BY <2>1 DEF Next
      <3>2. ~ RecvCount(t)
        BY <1>5, <1>6
      <3> QED BY <3>1, <3>2, <1>1, <1>3 DEF Step
    <2> QED BY <2>1, <1>4
  <1>7. \A t \in Threads : SendCount(t) => front' = front
    BY <1>3
  <1> QED BY <1>2, <1>6, <1>7

\* Every step keeps what the half-done send or receive holds.
LEMMA InFlightNext ==
  RingInv /\ RingInv' /\ InFlight /\ [Next]_vars => InFlight'
  <1> SUFFICES ASSUME RingInv, RingInv', InFlight, [Next]_vars
               PROVE  InFlight'
    OBVIOUS
  <1>0. /\ head \in 0 .. cap - 1 /\ tail \in 0 .. cap - 1
        /\ cap \in Nat /\ cap > 0 /\ count \in 0 .. cap
        /\ pc \in [Threads -> Labels]
        /\ buffer \in [0 .. cap - 1 -> Values \cup {NoValue}]
        /\ val \in [Threads -> Values \cup {NoValue}]
    BY CapPositive DEF RingInv, TypeOK, Slots
  <1> USE DEF Held, SendHeld, RecvHeld
  <1>1. ASSUME NEW t \in Threads,
               \/ vm_exec_chan_recv(t)
               \/ \E v \in Values : vm_exec_chan_send(t, v)
               \/ SendLock(t) \/ SendWait(t) \/ SendGo(t) \/ SendTail(t)
               \/ SendSignal(t) \/ SendUnlock(t) \/ RecvLock(t) \/ RecvWait(t)
               \/ RecvGo(t) \/ RecvSignal(t) \/ RecvUnlock(t)
               \/ SpuriousWakeup(t)
        PROVE  InFlight'
    <2>1. buffer' = buffer /\ head' = head /\ count' = count
      BY <1>1 DEF vm_exec_chan_send, vm_exec_chan_recv, SendLock, SendWait,
         SendGo, SendTail, SendSignal, SendUnlock, RecvLock, RecvWait, RecvGo,
         RecvSignal, RecvUnlock, SpuriousWakeup, ring
    <2>2. front' = front
      BY <2>1, FrontStep
    <2> QED
      BY <1>0, <1>1, <2>1, <2>2 DEF vm_exec_chan_send, vm_exec_chan_recv,
         SendLock, SendWait, SendGo, SendTail, SendSignal, SendUnlock, RecvLock,
         RecvWait, RecvGo, RecvSignal, RecvUnlock, SpuriousWakeup, Goto,
         arc_condvar_wait, arc_condvar_signal, not_full, not_empty, InFlight,
         Wrapped
  <1>2. ASSUME NEW t \in Threads, SendStore(t)
        PROVE  InFlight'
    <2>1. tail = Wrapped(head + count) /\ ~ Inside({"recv_count"})
      BY <1>2, OneHolder DEF SendStore, Goto, RingInv, RingConsistent, Inside
    <2>2. pc' = [pc EXCEPT ![t] = "send_tail"] /\ head' = head /\ count' = count
          /\ val' = val /\ buffer' = [buffer EXCEPT ![tail] = val[t]]
      BY <1>2 DEF SendStore, Goto
    <2>3. \A u \in Threads \ {t} : pc[u] \notin Held
      BY <1>2, OneHolder DEF SendStore, Goto
    <2> QED BY <1>0, <2>1, <2>2, <2>3 DEF InFlight, Wrapped
  <1>3. ASSUME NEW t \in Threads, SendCount(t) \/ RecvCount(t)
        PROVE  InFlight'
    <2>1. /\ pc' = [pc EXCEPT ![t] = "send_signal"]
             \/ pc' = [pc EXCEPT ![t] = "recv_signal"]
          /\ val' = val
      BY <1>3 DEF SendCount, RecvCount, Goto
    <2>2. \A u \in Threads \ {t} : pc[u] \notin Held
      BY <1>3, OneHolder DEF SendCount, RecvCount, Goto
    <2> QED BY <1>0, <2>1, <2>2 DEF InFlight
  <1>4. ASSUME NEW t \in Threads, RecvLoad(t) \/ RecvHead(t)
        PROVE  InFlight'
    <2>1. /\ buffer' = buffer /\ count' = count
          /\ pc[t] \in {"recv_load", "recv_head"}
          /\ pc' = [pc EXCEPT ![t] = "recv_head"]
             \/ pc' = [pc EXCEPT ![t] = "recv_count"]
          /\ \A u \in Threads \ {t} : val'[u] = val[u]
      BY <1>0, <1>4 DEF RecvLoad, RecvHead, Goto, ring
    <2>2. \A u \in Threads \ {t} : pc[u] \notin Held
      BY <2>1, OneHolder
    <2>3. front' = front
      BY <2>1, FrontStep
    <2>4. val'[t] = buffer[front]
      <3>1. CASE RecvLoad(t)
        <4>1. ~ Inside({"recv_count"})
          BY <2>1, <2>2, <3>1 DEF RecvLoad, Goto, Inside
        <4> QED BY <3>1, <4>1, <1>0, FrontFacts DEF RecvLoad
      <3>2. CASE RecvHead(t)
        BY <3>2 DEF RecvHead, Goto, InFlight
      <3> QED BY <1>4, <3>1, <3>2
    <2> QED BY <1>0, <2>1, <2>2, <2>3, <2>4 DEF InFlight
  <1>5. CASE UNCHANGED vars
    <2>1. front' = front
      BY <1>5, FrontStep DEF vars
    <2> QED BY <1>5, <2>1 DEF vars, InFlight, Wrapped
  <1> QED
    BY <1>1, <1>2, <1>3, <1>4, <1>5 DEF Next, Step

-----------------------------------------------------------------------------
\* The contents as a sequence, and what the steps do to it.
RingSeq(b, f, n) == [i \in 1 .. n |-> b[(f + i - 1) % cap]]

\* The abstract queue read off a buffer, a first slot and a length.
LEMMA ContentsForm ==
  ASSUME NEW V, NEW b \in [Slots -> V], NEW f \in Slots, NEW n \in 0 .. cap
  PROVE  /\ RingSeq(b, f, n) = [i \in 1 .. n |-> b[Wrapped(f + i - 1)]]
         /\ RingSeq(b, f, n) \in Seq(V) /\ Len(RingSeq(b, f, n)) = n
  <1>1. ASSUME NEW i \in 1 .. n
        PROVE  /\ b[(f + i - 1) % cap] = b[Wrapped(f + i - 1)]
               /\ b[(f + i - 1) % cap] \in V
    <2>1. i \in 1 .. cap
      BY CapPositive
    <2> QED BY <2>1, SlotOf
  <1> QED BY <1>1, CapPositive DEF RingSeq

\* The abstract queue in this state: a sequence of count values.
LEMMA ContentsNow ==
  ASSUME RingInv
  PROVE  /\ contents = [i \in 1 .. count |-> buffer[Wrapped(front + i - 1)]]
         /\ contents \in Seq(Values \cup {NoValue}) /\ Len(contents) = count
  <1>1. contents = RingSeq(buffer, front, count)
    BY DEF contents, RingSeq
  <1>2. /\ buffer \in [Slots -> Values \cup {NoValue}]
        /\ front \in Slots /\ count \in 0 .. cap
    BY FrontFacts DEF RingInv, TypeOK
  <1> QED BY <1>1, <1>2, ContentsForm

\* The abstract queue in the next state.
LEMMA ContentsThen ==
  ASSUME RingInv'
  PROVE  /\ contents' = [i \in 1 .. count' |-> buffer'[Wrapped(front' + i - 1)]]
         /\ contents' \in Seq(Values \cup {NoValue}) /\ Len(contents') = count'
  <1>1. contents' = RingSeq(buffer', front', count')
    BY DEF contents, RingSeq
  <1>2. /\ buffer' \in [Slots -> Values \cup {NoValue}]
        /\ front' \in Slots /\ count' \in 0 .. cap
    BY FrontFactsNext DEF RingInv, TypeOK
  <1>3. \A b \in [Slots -> Values \cup {NoValue}], f \in Slots, n \in 0 .. cap :
          /\ RingSeq(b, f, n) = [i \in 1 .. n |-> b[Wrapped(f + i - 1)]]
          /\ RingSeq(b, f, n) \in Seq(Values \cup {NoValue})
          /\ Len(RingSeq(b, f, n)) = n
    BY ContentsForm
  <1> QED BY <1>1, <1>2, <1>3, Zenon

\* Storing at tail touches no slot of the abstract queue.
LEMMA StoreKeepsContents ==
  ASSUME RingInv, RingInv', [Next]_vars, NEW t \in Threads, SendStore(t)
  PROVE  contents' = contents
  <1>0. /\ head \in 0 .. cap - 1 /\ cap \in Nat /\ cap > 0
        /\ count \in 0 .. cap /\ count < cap
        /\ buffer \in [0 .. cap - 1 -> Values \cup {NoValue}]
    BY CapPositive DEF RingInv, TypeOK, Slots, MidUpdate, SendStore, Goto
  <1>1. ~ Inside({"recv_count"}) /\ ~ Inside({"send_count"})
    BY OneHolder DEF SendStore, Goto, Inside, Held, SendHeld, RecvHeld
  <1>2. tail = Wrapped(head + count) /\ front = head
    BY <1>1, FrontFacts DEF RingInv, RingConsistent, Inside
  <1>3. /\ buffer' = [buffer EXCEPT ![tail] = val[t]]
        /\ count' = count /\ front' = front
    BY FrontStep DEF SendStore
  <1>4. ASSUME NEW i \in 1 .. count
        PROVE  buffer'[Wrapped(front + i - 1)] = buffer[Wrapped(front + i - 1)]
    BY <1>0, <1>2, <1>3 DEF Wrapped
  <1> QED BY <1>3, <1>4, ContentsNow, ContentsThen

\* Incrementing count appends the value the sender has stored.
LEMMA CountAppends ==
  ASSUME RingInv, RingInv', InFlight, [Next]_vars,
         NEW t \in Threads, SendCount(t)
  PROVE  contents' = Append(contents, val[t])
  <1>0. /\ cap \in Nat /\ cap > 0 /\ count \in 0 .. cap /\ count < cap
    BY CapPositive DEF RingInv, TypeOK, MidUpdate, SendCount, Goto
  <1>1. ~ Inside({"recv_count"})
    BY OneHolder DEF SendCount, Goto, Inside, Held, SendHeld, RecvHeld
  <1>2. /\ front = head /\ front' = front /\ buffer' = buffer
        /\ count' = count + 1
    BY <1>1, FrontFacts, FrontStep DEF SendCount
  <1>3. head \in Nat /\ buffer[Wrapped(front + count)] = val[t]
    BY <1>2 DEF InFlight, SendCount, Goto, RingInv, TypeOK, Slots
  <1>4. contents' = [i \in 1 .. count + 1 |-> buffer[Wrapped(front + i - 1)]]
    BY <1>2, ContentsThen
  <1>5. front + (count + 1) - 1 = front + count
    BY <1>0, <1>2, <1>3
  <1>6. /\ contents \in Seq(Values \cup {NoValue}) /\ Len(contents) = count
        /\ contents = [i \in 1 .. count |-> buffer[Wrapped(front + i - 1)]]
    BY ContentsNow
  <1> QED BY <1>0, <1>3, <1>4, <1>5, <1>6

\* Decrementing count removes the oldest value, which the receiver has copied.
LEMMA CountTakes ==
  ASSUME RingInv, RingInv', InFlight, [Next]_vars,
         NEW t \in Threads, RecvCount(t)
  PROVE  contents # <<>> /\ val[t] = Head(contents) /\ contents' = Tail(contents)
  <1>0. /\ cap \in Nat /\ cap > 0 /\ count \in 1 .. cap
        /\ front \in 0 .. cap - 1
    BY CapPositive, FrontFacts
    DEF RingInv, TypeOK, MidUpdate, RecvCount, Goto, Slots
  <1>1. /\ front' = IF front + 1 = cap THEN 0 ELSE front + 1
        /\ buffer' = buffer /\ count' = count - 1 /\ val[t] = buffer[front]
    BY FrontStep DEF RecvCount, Goto, InFlight
  <1>2. /\ contents \in Seq(Values \cup {NoValue}) /\ Len(contents) = count
        /\ contents = [i \in 1 .. count |-> buffer[Wrapped(front + i - 1)]]
    BY ContentsNow
  <1>3. contents' = [i \in 1 .. count - 1 |-> buffer[Wrapped(front' + i - 1)]]
    BY <1>1, ContentsThen
  <1>4. ASSUME NEW i \in 1 .. count - 1
        PROVE  Wrapped(front' + i - 1) = Wrapped(front + (i + 1) - 1)
    BY <1>0, <1>1 DEF Wrapped
  <1>5. contents' = [i \in 1 .. count - 1 |-> contents[i + 1]]
    <2>1. ASSUME NEW i \in 1 .. count - 1
          PROVE  contents[i + 1] = buffer[Wrapped(front' + i - 1)]
      <3>1. i + 1 \in 1 .. count
        BY <1>0
      <3>2. contents[i + 1] = buffer[Wrapped(front + (i + 1) - 1)]
        BY <1>2, <3>1
      <3> QED BY <3>2, <1>4
    <2> QED BY <2>1, <1>3
  <1>6. Wrapped(front + 1 - 1) = front
    BY <1>0 DEF Wrapped
  <1>7. contents[1] = val[t]
    BY <1>0, <1>1, <1>2, <1>6
  <1> QED BY <1>0, <1>2, <1>5, <1>7

-----------------------------------------------------------------------------
\* Steps that no user of the queue sees.
LEMMA SilentSteps ==
  ASSUME RingInv, RingInv', InFlight, [Next]_vars, NEW t \in Threads,
         \/ SendLock(t) \/ SendWait(t) \/ SendGo(t) \/ SendStore(t)
         \/ SendTail(t) \/ SendSignal(t) \/ RecvLock(t) \/ RecvWait(t)
         \/ RecvGo(t) \/ RecvLoad(t) \/ RecvHead(t) \/ RecvSignal(t)
         \/ SpuriousWakeup(t)
  PROVE  UNCHANGED <<contents, phases, results>>
  <1>0. pc \in [Threads -> Labels] /\ val \in [Threads -> Values \cup {NoValue}]
    BY DEF RingInv, TypeOK
  <1>1. contents' = contents
    <2>1. CASE SendStore(t)
      BY <2>1, StoreKeepsContents
    <2>2. CASE ~ SendStore(t)
      <3>1. buffer' = buffer /\ count' = count
        BY <2>2 DEF SendLock, SendWait, SendGo, SendTail, SendSignal, RecvLock,
           RecvWait, RecvGo, RecvLoad, RecvHead, RecvSignal, SpuriousWakeup, ring
      <3>2. front' = front
        BY <3>1, FrontStep
      <3> QED BY <3>1, <3>2 DEF contents
    <2> QED BY <2>1, <2>2
  <1>2. phases' = phases
    BY <1>0 DEF phases, Phase, SendLock, SendWait, SendGo, SendStore, SendTail,
       SendSignal, RecvLock, RecvWait, RecvGo, RecvLoad, RecvHead, RecvSignal,
       SpuriousWakeup, Goto, arc_condvar_wait, arc_condvar_signal, not_full,
       not_empty
  <1>3. results' = results
    BY <1>0 DEF results, InFlight, SendLock, SendWait, SendGo, SendStore,
       SendTail, SendSignal, RecvLock, RecvWait, RecvGo, RecvLoad, RecvHead,
       RecvSignal, SpuriousWakeup, Goto, arc_condvar_wait, arc_condvar_signal,
       not_full, not_empty
  <1> QED BY <1>1, <1>2, <1>3

\* How the abstract phase follows a thread's label.
LEMMA PhaseStep ==
  ASSUME RingInv, NEW t \in Threads, NEW from \in Labels, NEW to \in Labels,
         Goto(t, from, to)
  PROVE  phases[t] = Phase(from) /\ phases' = [phases EXCEPT ![t] = Phase(to)]
  BY DEF Goto, phases, RingInv, TypeOK

\* Every step of the channel is a step of the FIFO queue or a stutter.
LEMMA RefinementStep ==
  RingInv /\ RingInv' /\ InFlight /\ [Next]_vars => [Queue!Next]_(Queue!vars)
  <1> SUFFICES ASSUME RingInv, RingInv', InFlight, [Next]_vars
               PROVE  [Queue!Next]_(Queue!vars)
    OBVIOUS
  <1>0. pc \in [Threads -> Labels] /\ val \in [Threads -> Values \cup {NoValue}]
    BY DEF RingInv, TypeOK
  <1> USE DEF Labels, Held, SendHeld, RecvHeld
  <1>same. ASSUME buffer' = buffer, count' = count
           PROVE  contents' = contents
    <2>1. front' = front
      BY <1>same, FrontStep
    <2> QED BY <1>same, <2>1 DEF contents
  <1>1. ASSUME NEW t \in Threads, NEW v \in Values, vm_exec_chan_send(t, v)
        PROVE  Queue!CallSend(t, v)
    <2>1. phases[t] = "run" /\ phases' = [phases EXCEPT ![t] = "send"]
      BY <1>1, PhaseStep DEF vm_exec_chan_send, Phase
    <2>2. results' = [results EXCEPT ![t] = v]
      BY <1>1, <1>0 DEF vm_exec_chan_send, Goto, results
    <2>3. contents' = contents
      BY <1>1, <1>same DEF vm_exec_chan_send, ring
    <2> QED BY <2>1, <2>2, <2>3 DEF Queue!CallSend, Queue!Move
  <1>2. ASSUME NEW t \in Threads, vm_exec_chan_recv(t)
        PROVE  Queue!CallRecv(t)
    <2>1. phases[t] = "run" /\ phases' = [phases EXCEPT ![t] = "recv"]
      BY <1>2, PhaseStep DEF vm_exec_chan_recv, Phase
    <2>2. results' = results
      BY <1>2, <1>0 DEF vm_exec_chan_recv, Goto, results
    <2>3. contents' = contents
      BY <1>2, <1>same DEF vm_exec_chan_recv, ring
    <2> QED BY <2>1, <2>2, <2>3 DEF Queue!CallRecv, Queue!Move
  <1>3. ASSUME NEW t \in Threads, SendCount(t)
        PROVE  Queue!Put(t)
    <2>1. phases[t] = "send" /\ phases' = [phases EXCEPT ![t] = "sent"]
      BY <1>3, PhaseStep DEF SendCount, Phase
    <2>2. results' = results /\ results[t] = val[t]
      BY <1>3, <1>0 DEF SendCount, Goto, results
    <2>3. contents' = Append(contents, val[t])
      BY <1>3, CountAppends
    <2>4. Len(contents) = count /\ count < cap
      BY <1>3, ContentsNow DEF RingInv, MidUpdate, SendCount, Goto
    <2> QED BY <2>1, <2>2, <2>3, <2>4 DEF Queue!Put, Queue!Move
  <1>4. ASSUME NEW t \in Threads, RecvCount(t)
        PROVE  Queue!Take(t)
    <2>1. phases[t] = "recv" /\ phases' = [phases EXCEPT ![t] = "received"]
      BY <1>4, PhaseStep DEF RecvCount, Phase
    <2>2. results' = [results EXCEPT ![t] = val[t]]
      BY <1>4, <1>0 DEF RecvCount, Goto, results
    <2>3. contents # <<>> /\ val[t] = Head(contents) /\ contents' = Tail(contents)
      BY <1>4, CountTakes
    <2> QED BY <2>1, <2>2, <2>3 DEF Queue!Take, Queue!Move
  <1>5. ASSUME NEW t \in Threads, SendUnlock(t) \/ RecvUnlock(t)
        PROVE  Queue!Return(t)
    <2>1. /\ phases[t] \in {"sent", "received"}
          /\ phases' = [phases EXCEPT ![t] = "run"]
      BY <1>5, PhaseStep DEF SendUnlock, RecvUnlock, Phase
    <2>2. results' = [results EXCEPT ![t] = NoValue]
      BY <1>5, <1>0 DEF SendUnlock, RecvUnlock, Goto, results
    <2>3. contents' = contents
      BY <1>5, <1>same DEF SendUnlock, RecvUnlock, ring
    <2> QED BY <2>1, <2>2, <2>3 DEF Queue!Return, Queue!Move
  <1>6. ASSUME NEW t \in Threads,
               \/ SendLock(t) \/ SendWait(t) \/ SendGo(t) \/ SendStore(t)
               \/ SendTail(t) \/ SendSignal(t) \/ RecvLock(t) \/ RecvWait(t)
               \/ RecvGo(t) \/ RecvLoad(t) \/ RecvHead(t) \/ RecvSignal(t)
               \/ SpuriousWakeup(t)
        PROVE  UNCHANGED Queue!vars
    BY <1>6, SilentSteps DEF Queue!vars
  <1>7. CASE UNCHANGED vars
    <2>1. contents' = contents
      BY <1>7, <1>same DEF vars
    <2>2. phases' = phases /\ results' = results
      BY <1>7 DEF vars, phases, results
    <2> QED BY <2>1, <2>2 DEF Queue!vars
  <1>8. ASSUME NEW t \in Threads, Step(t) \/ SpuriousWakeup(t)
        PROVE  [Queue!Next]_(Queue!vars)
    BY <1>3, <1>4, <1>5, <1>6, <1>8 DEF Step, Queue!Next
  <1> QED
    BY <1>1, <1>2, <1>7, <1>8 DEF Next, Queue!Next

\* The channel implements the bounded FIFO queue, for any number of threads,
\* any values and any capacity.
THEOREM ChannelIsFifo == Spec => IsFifoQueue
  <1>1. Init => Queue!Init /\ InFlight
    BY CapPositive DEF Init, arc_obj_channel_new, Queue!Init, contents, phases,
       Phase, results, InFlight
  <1> QED
    BY <1>1, RingInvInit, RingInvNext, InFlightNext, RefinementStep, PTL
    DEF Spec, IsFifoQueue, Queue!Spec
=============================================================================
