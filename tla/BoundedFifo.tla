---------------------------- MODULE BoundedFifo ----------------------------
(***************************************************************************)
(* What the buffers of this system promise to the threads that share them: *)
(* a first-in first-out queue of at most Capacity values.  Every call      *)
(* takes effect at one instant.  A call that finds the queue full (or      *)
(* empty) may be refused, if the implementation has non-blocking calls.    *)
(* TaskManagement and UScheduler are shown to implement it.                *)
(***************************************************************************)
EXTENDS Naturals, Sequences

CONSTANTS Threads,   \* the threads that call the buffer
          Values,    \* the values it can hold
          Capacity   \* how many of them at once

VARIABLES queue,     \* the values held, oldest first
          ret        \* ret[t]: the answer to the last call of thread t

fifoVars == <<queue, ret>>

Answer(t, a) == ret' = [ret EXCEPT ![t] = a]

FifoInit == queue = <<>> /\ ret = [t \in Threads |-> "none"]

Put(t, v) ==
    /\ Len(queue) < Capacity
    /\ queue' = Append(queue, v)
    /\ Answer(t, "stored")

Refuse(t) ==
    /\ Len(queue) = Capacity
    /\ Answer(t, "full")
    /\ UNCHANGED queue

Take(t) ==
    /\ queue # <<>>
    /\ queue' = Tail(queue)
    /\ Answer(t, Head(queue))

FindEmpty(t) ==
    /\ queue = <<>>
    /\ Answer(t, "empty")
    /\ UNCHANGED queue

AskEmpty(t) ==
    /\ Answer(t, IF queue = <<>> THEN "yes" ELSE "no")
    /\ UNCHANGED queue

FifoNext ==
    \E t \in Threads :
        \/ \E v \in Values : Put(t, v)
        \/ Refuse(t)
        \/ Take(t)
        \/ FindEmpty(t)
        \/ AskEmpty(t)

FifoSpec == FifoInit /\ [][FifoNext]_fifoVars
=============================================================================
