----------------------------- MODULE ChannelAbs -----------------------------
(***************************************************************************)
(* What a channel promises to the program: a bounded FIFO queue.  A send   *)
(* takes effect in one step, at some moment between its call and its       *)
(* return and only while the queue has room; a receive takes the oldest    *)
(* value in one step, only while there is one.  Nothing here knows of      *)
(* locks, condition variables or ring indices.                             *)
(***************************************************************************)
EXTENDS Naturals, Sequences

CONSTANTS Threads,   \* the VMs that share the channel
          Values,    \* what is sent
          NoValue,   \* a thread holds no value of the channel
          Room       \* how many values the queue holds

VARIABLES queue, phase, held

vars == <<queue, phase, held>>

Phases == {"run", "send", "sent", "recv", "received"}

TypeOK ==
  /\ queue \in Seq(Values)
  /\ Len(queue) <= Room
  /\ phase \in [Threads -> Phases]
  /\ held \in [Threads -> Values \cup {NoValue}]

Init ==
  /\ queue = <<>>
  /\ phase = [t \in Threads |-> "run"]
  /\ held = [t \in Threads |-> NoValue]

Move(t, from, to) ==
  /\ phase[t] = from
  /\ phase' = [phase EXCEPT ![t] = to]

CallSend(t, v) ==
  /\ Move(t, "run", "send")
  /\ held' = [held EXCEPT ![t] = v]
  /\ UNCHANGED queue

CallRecv(t) ==
  /\ Move(t, "run", "recv")
  /\ UNCHANGED <<queue, held>>

Put(t) ==
  /\ Move(t, "send", "sent")
  /\ Len(queue) < Room
  /\ queue' = Append(queue, held[t])
  /\ UNCHANGED held

Take(t) ==
  /\ Move(t, "recv", "received")
  /\ queue # <<>>
  /\ held' = [held EXCEPT ![t] = Head(queue)]
  /\ queue' = Tail(queue)

Return(t) ==
  /\ Move(t, "sent", "run") \/ Move(t, "received", "run")
  /\ held' = [held EXCEPT ![t] = NoValue]
  /\ UNCHANGED queue

Next ==
  \E t \in Threads :
    \/ \E v \in Values : CallSend(t, v)
    \/ CallRecv(t)
    \/ Put(t)
    \/ Take(t)
    \/ Return(t)

Spec == Init /\ [][Next]_vars
=============================================================================
