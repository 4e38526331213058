------------------------------ MODULE Channel -------------------------------
(***************************************************************************)
(* The language-level channel of src/runtime/concurrency.c as the VMs of   *)
(* several OS threads use it through OP_CHAN_SEND and OP_CHAN_RECV.        *)
(*                                                                         *)
(* The channel is a ring buffer (buffer, head, tail, count) guarded by one *)
(* platform mutex and two condition variables.  Each statement of          *)
(* arc_channel_send and arc_channel_recv that touches shared state is a    *)
(* step of its own, so the interleavings are those of the C code.          *)
(*                                                                         *)
(* `closed` is set to false by the constructor and by nothing else in the  *)
(* repository; the tests of it in the two loops are therefore constantly   *)
(* false and the error branches behind them unreachable.                   *)
(***************************************************************************)
EXTENDS Integers, FiniteSets

CONSTANTS Threads,      \* the OS threads whose VMs hold a reference
          Values,       \* what is sent
          Capacity,     \* the operand of OP_CHAN_NEW
          NoThread,     \* owner of a free mutex
          NoValue,      \* not a value of the language
          MaxCalls,     \* bound: channel calls per thread
          MaxSpurious   \* bound: spurious wakeups, over all threads

ASSUME ThreadsAssumption == IsFiniteSet(Threads) /\ NoThread \notin Threads
ASSUME ValuesAssumption == NoValue \notin Values
ASSUME CapacityAssumption == Capacity \in Nat
ASSUME BoundsAssumption == MaxCalls \in Nat /\ MaxSpurious \in Nat

VARIABLES
  buffer, head, tail, count,  \* ArcObjChannel's ring
  mtx,                        \* who holds ch->mtx, or NoThread
  pc,                         \* where each thread is, see the label sets
  val,                        \* the thread's `val` (send) or `*out` (recv)
  calls, spurious             \* the counters that the bounds are about

ring == <<buffer, head, tail, count>>
vars == <<buffer, head, tail, count, mtx, pc, val, calls, spurious>>

\* A capacity of 0 makes a channel of capacity 1.
cap == IF Capacity > 0 THEN Capacity ELSE 1

Slots == 0 .. cap - 1

\* Labels at which a thread holds ch->mtx, in the order of the code.
SendHeld == {"send_test", "send_store", "send_tail", "send_count",
             "send_signal", "send_unlock"}
RecvHeld == {"recv_test", "recv_load", "recv_head", "recv_count",
             "recv_signal", "recv_unlock"}
Held == SendHeld \cup RecvHeld
Labels == Held \cup {"run", "send_lock", "send_wait", "recv_lock", "recv_wait"}

\* The threads blocked in arc_condvar_wait on each condition variable.
not_full == {t \in Threads : pc[t] = "send_wait"}
not_empty == {t \in Threads : pc[t] = "recv_wait"}

-----------------------------------------------------------------------------
arc_obj_channel_new ==
  /\ buffer = [i \in Slots |-> NoValue]
  /\ head = 0
  /\ tail = 0
  /\ count = 0
  /\ mtx = NoThread

Init ==
  /\ arc_obj_channel_new
  /\ pc = [t \in Threads |-> "run"]
  /\ val = [t \in Threads |-> NoValue]
  /\ calls = [t \in Threads |-> 0]
  /\ spurious = 0

Goto(t, from, to) ==
  /\ pc[t] = from
  /\ pc' = [pc EXCEPT ![t] = to]

\* arc_mutex_lock: blocks while another thread holds the mutex.
arc_mutex_lock(t) == mtx = NoThread /\ mtx' = t

arc_mutex_unlock == mtx' = NoThread

\* arc_condvar_wait: gives the mutex up and blocks, in one step; when it is
\* woken the thread takes the mutex again and tests the loop's condition.
arc_condvar_wait(t, from, blocked) ==
  /\ Goto(t, from, blocked)
  /\ arc_mutex_unlock

\* arc_condvar_signal: wakes one of the blocked threads, if there is one.
arc_condvar_signal(t, from, to, waiters, woken) ==
  /\ pc[t] = from
  /\ \/ /\ waiters = {}
        /\ pc' = [pc EXCEPT ![t] = to]
     \/ \E w \in waiters : pc' = [pc EXCEPT ![t] = to, ![w] = woken]

-----------------------------------------------------------------------------
(* OP_CHAN_SEND: the VM pops the value and the channel and calls           *)
(* arc_channel_send.                                                       *)

vm_exec_chan_send(t, v) ==
  /\ calls[t] < MaxCalls
  /\ calls' = [calls EXCEPT ![t] = @ + 1]
  /\ Goto(t, "run", "send_lock")
  /\ val' = [val EXCEPT ![t] = v]
  /\ UNCHANGED <<ring, mtx, spurious>>

SendLock(t) ==
  /\ Goto(t, "send_lock", "send_test")
  /\ arc_mutex_lock(t)
  /\ UNCHANGED <<ring, val, calls, spurious>>

SendWait(t) ==
  /\ count >= cap
  /\ arc_condvar_wait(t, "send_test", "send_wait")
  /\ UNCHANGED <<ring, val, calls, spurious>>

SendGo(t) ==
  /\ count < cap
  /\ Goto(t, "send_test", "send_store")
  /\ UNCHANGED <<ring, mtx, val, calls, spurious>>

\* Mutant: the value is stored at the wrong end of the ring.
SendStoreAtHead(t) ==
  /\ Goto(t, "send_store", "send_tail")
  /\ buffer' = [buffer EXCEPT ![head] = val[t]]
  /\ UNCHANGED <<head, tail, count, mtx, val, calls, spurious>>

SendStore(t) ==
  /\ Goto(t, "send_store", "send_tail")
  /\ buffer' = [buffer EXCEPT ![tail] = val[t]]
  /\ UNCHANGED <<head, tail, count, mtx, val, calls, spurious>>

SendTail(t) ==
  /\ Goto(t, "send_tail", "send_count")
  /\ tail' = (tail + 1) % cap
  /\ UNCHANGED <<buffer, head, count, mtx, val, calls, spurious>>

SendCount(t) ==
  /\ Goto(t, "send_count", "send_signal")
  /\ count' = count + 1
  /\ UNCHANGED <<buffer, head, tail, mtx, val, calls, spurious>>

\* Mutant: signal only when the ring was empty before this send.
SendSignalOnEdge(t) ==
  /\ \/ /\ count = 1
        /\ arc_condvar_signal(t, "send_signal", "send_unlock",
                              not_empty, "recv_lock")
     \/ count > 1 /\ Goto(t, "send_signal", "send_unlock")
  /\ UNCHANGED <<ring, mtx, val, calls, spurious>>

\* Mutant: a send does not signal at all.
SendSignalMissing(t) ==
  /\ Goto(t, "send_signal", "send_unlock")
  /\ UNCHANGED <<ring, mtx, val, calls, spurious>>

SendSignal(t) ==
  /\ arc_condvar_signal(t, "send_signal", "send_unlock", not_empty, "recv_lock")
  /\ UNCHANGED <<ring, mtx, val, calls, spurious>>

SendUnlock(t) ==
  /\ Goto(t, "send_unlock", "run")
  /\ arc_mutex_unlock
  /\ val' = [val EXCEPT ![t] = NoValue]
  /\ UNCHANGED <<ring, calls, spurious>>

-----------------------------------------------------------------------------
(* OP_CHAN_RECV: the VM pops the channel, calls arc_channel_recv and       *)
(* pushes what it returned.                                                *)

vm_exec_chan_recv(t) ==
  /\ calls[t] < MaxCalls
  /\ calls' = [calls EXCEPT ![t] = @ + 1]
  /\ Goto(t, "run", "recv_lock")
  /\ UNCHANGED <<ring, mtx, val, spurious>>

RecvLock(t) ==
  /\ Goto(t, "recv_lock", "recv_test")
  /\ arc_mutex_lock(t)
  /\ UNCHANGED <<ring, val, calls, spurious>>

RecvWait(t) ==
  /\ count = 0
  /\ arc_condvar_wait(t, "recv_test", "recv_wait")
  /\ UNCHANGED <<ring, val, calls, spurious>>

RecvGo(t) ==
  /\ count # 0
  /\ Goto(t, "recv_test", "recv_load")
  /\ UNCHANGED <<ring, mtx, val, calls, spurious>>

RecvLoad(t) ==
  /\ Goto(t, "recv_load", "recv_head")
  /\ val' = [val EXCEPT ![t] = buffer[head]]
  /\ UNCHANGED <<ring, mtx, calls, spurious>>

\* Mutant: the head is not advanced.
RecvHeadStuck(t) ==
  /\ Goto(t, "recv_head", "recv_count")
  /\ UNCHANGED <<ring, mtx, val, calls, spurious>>

RecvHead(t) ==
  /\ Goto(t, "recv_head", "recv_count")
  /\ head' = (head + 1) % cap
  /\ UNCHANGED <<buffer, tail, count, mtx, val, calls, spurious>>

RecvCount(t) ==
  /\ Goto(t, "recv_count", "recv_signal")
  /\ count' = count - 1
  /\ UNCHANGED <<buffer, head, tail, mtx, val, calls, spurious>>

\* Mutant: a receive signals the wrong condition variable.
RecvSignalWrong(t) ==
  /\ arc_condvar_signal(t, "recv_signal", "recv_unlock", not_empty, "recv_lock")
  /\ UNCHANGED <<ring, mtx, val, calls, spurious>>

RecvSignal(t) ==
  /\ arc_condvar_signal(t, "recv_signal", "recv_unlock", not_full, "send_lock")
  /\ UNCHANGED <<ring, mtx, val, calls, spurious>>

RecvUnlock(t) ==
  /\ Goto(t, "recv_unlock", "run")
  /\ arc_mutex_unlock
  /\ val' = [val EXCEPT ![t] = NoValue]
  /\ UNCHANGED <<ring, calls, spurious>>

\* A condition variable may wake a thread that nobody signalled.
SpuriousWakeup(t) ==
  /\ spurious < MaxSpurious
  /\ spurious' = spurious + 1
  /\ Goto(t, "send_wait", "send_lock") \/ Goto(t, "recv_wait", "recv_lock")
  /\ UNCHANGED <<ring, mtx, val, calls>>

-----------------------------------------------------------------------------
\* What the scheduler must let a thread that is inside a channel call do.
Step(t) ==
  \/ SendLock(t) \/ SendWait(t) \/ SendGo(t) \/ SendStore(t) \/ SendTail(t)
  \/ SendCount(t) \/ SendSignal(t) \/ SendUnlock(t)
  \/ RecvLock(t) \/ RecvWait(t) \/ RecvGo(t) \/ RecvLoad(t) \/ RecvHead(t)
  \/ RecvCount(t) \/ RecvSignal(t) \/ RecvUnlock(t)

Next ==
  \E t \in Threads :
    \/ \E v \in Values : vm_exec_chan_send(t, v)
    \/ vm_exec_chan_recv(t)
    \/ Step(t)
    \/ SpuriousWakeup(t)

Spec == Init /\ [][Next]_vars

\* A thread that is not blocked keeps running.  Nothing is assumed of the
\* order in which the mutex is granted.
FairSpec == Spec /\ \A t \in Threads : WF_vars(Step(t))

-----------------------------------------------------------------------------
TypeOK ==
  /\ buffer \in [Slots -> Values \cup {NoValue}]
  /\ head \in Slots
  /\ tail \in Slots
  /\ count \in 0 .. cap
  /\ mtx \in Threads \cup {NoThread}
  /\ pc \in [Threads -> Labels]
  /\ val \in [Threads -> Values \cup {NoValue}]
  /\ calls \in [Threads -> 0 .. MaxCalls]
  /\ spurious \in 0 .. MaxSpurious

\* A thread is inside the critical section exactly when it owns the mutex:
\* no wakeup, spurious or not, lets a second thread between lock and unlock.
MutexHeld == \A t \in Threads : pc[t] \in Held <=> mtx = t

\* The three ring indices agree whenever nobody is in the middle of an
\* update; a GC mark or a send that starts then sees a consistent ring.
Wrapped(n) == IF n < cap THEN n ELSE n - cap
Inside(labels) == \E t \in Threads : pc[t] \in labels
RingConsistent ==
  ~ Inside({"send_count", "recv_count"}) => tail = Wrapped(head + count)

\* What a thread in the middle of an update has established by its test, and
\* how far its half-done update has put the indices apart.
MidUpdate ==
  \A t \in Threads :
    /\ pc[t] \in {"send_store", "send_tail", "send_count"} => count < cap
    /\ pc[t] \in {"recv_load", "recv_head", "recv_count"} => count > 0
    /\ pc[t] = "send_count" => tail = Wrapped(head + count + 1)
    /\ pc[t] = "recv_count" => tail = Wrapped(head + count - 1)

\* The inductive invariant behind the safety of the ring.
RingInv == TypeOK /\ MutexHeld /\ MidUpdate /\ RingConsistent

\* The receivers on their way to the loop's test or past it with the value
\* not yet taken, and the sender that has stored but not yet signalled.
Receiving == {t \in Threads : pc[t] \in {"recv_lock", "recv_test", "recv_load",
                                         "recv_head", "recv_count"}}
Sending == {t \in Threads : pc[t] \in {"send_lock", "send_test", "send_store",
                                       "send_tail", "send_count"}}
Signalling(label) == {t \in Threads : pc[t] = label}

\* No wakeup is lost: while receivers sleep, every value in the ring has a
\* receiver awake to take it or a signal about to be sent; and while senders
\* sleep, every free slot has a sender awake or a signal about to be sent.
\* One signal per operation, without broadcast, is enough.
ReceiversWoken ==
  not_empty # {} =>
    count <= Cardinality(Receiving) + Cardinality(Signalling("send_signal"))
SendersWoken ==
  not_full # {} =>
    cap - count <= Cardinality(Sending) + Cardinality(Signalling("recv_signal"))
NoLostWakeup == ReceiversWoken /\ SendersWoken

\* Senders and receivers never all sleep on each other: if everyone is
\* blocked then all are senders on a full ring or all receivers on an empty one.
NoMutualWait ==
  (Threads # {} /\ \A t \in Threads : pc[t] \in {"send_wait", "recv_wait"})
    => \/ count = cap /\ not_empty = {}
       \/ count = 0 /\ not_full = {}

\* A thread that calls the channel gets back to its program, or ends up
\* blocked for ever for a good reason: a sender on a ring that stays full,
\* a receiver on one that stays empty.
BlockedForCause ==
  \A t \in Threads :
    \/ []<>(pc[t] = "run")
    \/ <>[](pc[t] = "send_wait" /\ count = cap)
    \/ <>[](pc[t] = "recv_wait" /\ count = 0)

-----------------------------------------------------------------------------
(* The channel implements the bounded FIFO queue of ChannelAbs.  A send    *)
(* takes effect when count is incremented, a receive when it is            *)
(* decremented; between the update of head and that of count the oldest    *)
(* value is the one in the slot before head.                               *)

front == IF Inside({"recv_count"}) THEN (head + cap - 1) % cap ELSE head

contents == [i \in 1 .. count |-> buffer[(front + i - 1) % cap]]

Phase(label) ==
  CASE label \in {"send_lock", "send_wait", "send_test", "send_store",
                  "send_tail", "send_count"}                        -> "send"
    [] label \in {"send_signal", "send_unlock"}                     -> "sent"
    [] label \in {"recv_lock", "recv_wait", "recv_test", "recv_load",
                  "recv_head", "recv_count"}                        -> "recv"
    [] label \in {"recv_signal", "recv_unlock"}                     -> "received"
    [] OTHER                                                        -> "run"

phases == [t \in Threads |-> Phase(pc[t])]

\* *out is written before the receive takes effect.
results ==
  [t \in Threads |->
     IF pc[t] \in {"recv_head", "recv_count"} THEN NoValue ELSE val[t]]

\* What the values in flight are, for the proof of the refinement: the value
\* a sender has stored but not yet counted, the one a receiver has copied but
\* not yet uncounted, and that nobody else holds one.
InFlight ==
  \A t \in Threads :
    /\ pc[t] \in {"send_tail", "send_count"} =>
         buffer[Wrapped(head + count)] = val[t]
    /\ pc[t] \in {"recv_head", "recv_count"} => val[t] = buffer[front]
    /\ pc[t] \in {"run", "recv_lock", "recv_wait", "recv_test", "recv_load"} =>
         val[t] = NoValue

Queue == INSTANCE ChannelAbs WITH
  Room <- cap, queue <- contents, phase <- phases, held <- results

\* Every behaviour of the ring, lock and condition variables is one of the
\* FIFO queue: nothing is lost, duplicated, reordered or overwritten.
IsFifoQueue == Queue!Spec
=============================================================================
