-------------------------- MODULE USchedulerProofs --------------------------
(***************************************************************************)
(* The blocking buffer of volcom_uscheduler.c keeps TypeOK and             *)
(* NoLostWakeup for any finite sets of producers and consumers and any     *)
(* number of slots.  The two together are inductive.  With the ring's      *)
(* invariant the buffer is a bounded FIFO queue.                           *)
(***************************************************************************)
EXTENDS UScheduler, FifoFacts, FiniteSetTheorems

LEMMA StepType ==
    ASSUME TypeOK, Next
    PROVE  TypeOK'
  <1> USE MaxTasksAssumption, ThreadsAssumption DEF TypeOK, Slots, Threads, buf
  <1>1. ASSUME NEW t \in Threads, Call(t) PROVE TypeOK'
    BY <1>1 DEF Call
  <1>2. ASSUME NEW p \in Producers, EnqueueWait(p) PROVE TypeOK'
    BY <1>2 DEF EnqueueWait
  <1>3. ASSUME NEW p \in Producers, Enqueue(p) PROVE TypeOK'
    <2>1. not_empty' \subseteq not_empty
      BY <1>3 DEF Enqueue, SignalNotEmpty
    <2> QED
      BY <1>3, <2>1 DEF Enqueue, Next1
  <1>4. ASSUME NEW c \in Consumers, DequeueWait(c) PROVE TypeOK'
    BY <1>4 DEF DequeueWait
  <1>5. ASSUME NEW c \in Consumers, Dequeue(c) PROVE TypeOK'
    <2>1. not_full' \subseteq not_full
      BY <1>5 DEF Dequeue, SignalNotFull
    <2> QED
      BY <1>5, <2>1 DEF Dequeue, Next1, Oldest
  <1>6. ASSUME NEW t \in Threads, SpuriousWakeup(t) PROVE TypeOK'
    BY <1>6 DEF SpuriousWakeup
  <1> QED
    BY <1>1, <1>2, <1>3, <1>4, <1>5, <1>6 DEF Next, Producer, Consumer

LEMMA AwakeFinite ==
    /\ IsFiniteSet(AwakeProducers) /\ Cardinality(AwakeProducers) \in Nat
    /\ IsFiniteSet(AwakeConsumers) /\ Cardinality(AwakeConsumers) \in Nat
  <1>1. AwakeProducers \subseteq Producers /\ AwakeConsumers \subseteq Consumers
    BY DEF AwakeProducers, AwakeConsumers
  <1> QED
    BY <1>1, ThreadsAssumption, FS_Subset, FS_CardinalityType

\* The same after a step.
LEMMA AwakeFiniteNext ==
    /\ IsFiniteSet(AwakeProducers') /\ Cardinality(AwakeProducers') \in Nat
    /\ IsFiniteSet(AwakeConsumers') /\ Cardinality(AwakeConsumers') \in Nat
  <1>1. AwakeProducers' \subseteq Producers /\ AwakeConsumers' \subseteq Consumers
    BY DEF AwakeProducers, AwakeConsumers
  <1> QED
    BY <1>1, ThreadsAssumption, FS_Subset, FS_CardinalityType

LEMMA StepWakeup ==
    ASSUME TypeOK, NoLostWakeup, Next
    PROVE  NoLostWakeup'
  <1>1. /\ count \in 0 .. MaxTasks /\ MaxTasks \in Nat \ {0}
        /\ Producers \cap Consumers = {}
        /\ Cardinality(AwakeProducers) \in Nat /\ Cardinality(AwakeConsumers) \in Nat
        /\ Cardinality(AwakeProducers') \in Nat /\ Cardinality(AwakeConsumers') \in Nat
    BY MaxTasksAssumption, ThreadsAssumption, AwakeFinite, AwakeFiniteNext DEF TypeOK
  \* Nothing but more threads awake: neither bound gets harder.
  <1>2. ASSUME AwakeProducers \subseteq AwakeProducers', AwakeConsumers \subseteq AwakeConsumers',
               not_full' # {} => not_full # {}, not_empty' # {} => not_empty # {},
               count' = count
        PROVE  NoLostWakeup'
    <2>1. /\ Cardinality(AwakeProducers) <= Cardinality(AwakeProducers')
          /\ Cardinality(AwakeConsumers) <= Cardinality(AwakeConsumers')
      BY <1>2, AwakeFiniteNext, FS_Subset
    <2> QED
      BY <1>1, <1>2, <2>1 DEF NoLostWakeup
  <1>3. ASSUME NEW t \in Threads, Call(t) PROVE NoLostWakeup'
    <2>1. \A u \in Threads : pc[u] = "inside" => pc'[u] = "inside"
      BY <1>3 DEF Call, TypeOK
    <2> QED
      BY <1>2, <1>3, <2>1 DEF Call, buf, AwakeProducers, AwakeConsumers, Threads
  <1>4. ASSUME NEW p \in Producers, EnqueueWait(p) PROVE NoLostWakeup'
    <2>1. AwakeConsumers' = AwakeConsumers
      BY <1>4 DEF EnqueueWait, AwakeConsumers
    <2> QED
      BY <1>1, <1>4, <2>1 DEF EnqueueWait, buf, NoLostWakeup
  <1>5. ASSUME NEW c \in Consumers, DequeueWait(c) PROVE NoLostWakeup'
    <2>1. AwakeProducers' = AwakeProducers
      BY <1>5 DEF DequeueWait, AwakeProducers
    <2> QED
      BY <1>1, <1>5, <2>1 DEF DequeueWait, buf, NoLostWakeup
  \* A task comes in: the producer is done, and a sleeping consumer wakes.
  <1>6. ASSUME NEW p \in Producers, Enqueue(p) PROVE NoLostWakeup'
    <2>1. p \in AwakeProducers /\ AwakeProducers' = AwakeProducers \ {p}
      BY <1>6 DEF Enqueue, AwakeProducers, TypeOK, Threads
    <2>2. Cardinality(AwakeProducers') = Cardinality(AwakeProducers) - 1
      BY <2>1, AwakeFinite, FS_RemoveElement
    <2>3. ASSUME not_empty' # {}
          PROVE  Cardinality(AwakeConsumers') = Cardinality(AwakeConsumers) + 1
      <3>1. PICK c \in not_empty : not_empty' = not_empty \ {c}
        BY <1>6, <2>3 DEF Enqueue, SignalNotEmpty
      <3>2. c \notin AwakeConsumers /\ AwakeConsumers' = AwakeConsumers \cup {c}
        BY <1>1, <1>6, <3>1 DEF Enqueue, AwakeConsumers, TypeOK, Threads
      <3> QED
        BY <3>2, AwakeFinite, FS_AddElement
    <2>4. not_empty' # {} => not_empty # {}
      BY <1>6 DEF Enqueue, SignalNotEmpty
    <2>5. count' = count + 1 /\ count < MaxTasks /\ not_full' = not_full
      BY <1>1, <1>6 DEF Enqueue
    <2> QED
      BY <1>1, <2>2, <2>3, <2>4, <2>5 DEF NoLostWakeup
  \* A slot is freed: the consumer is done, and a sleeping producer wakes.
  <1>7. ASSUME NEW c \in Consumers, Dequeue(c) PROVE NoLostWakeup'
    <2>1. c \in AwakeConsumers /\ AwakeConsumers' = AwakeConsumers \ {c}
      BY <1>7 DEF Dequeue, AwakeConsumers, TypeOK, Threads
    <2>2. Cardinality(AwakeConsumers') = Cardinality(AwakeConsumers) - 1
      BY <2>1, AwakeFinite, FS_RemoveElement
    <2>3. ASSUME not_full' # {}
          PROVE  Cardinality(AwakeProducers') = Cardinality(AwakeProducers) + 1
      <3>1. PICK p \in not_full : not_full' = not_full \ {p}
        BY <1>7, <2>3 DEF Dequeue, SignalNotFull
      <3>2. p \notin AwakeProducers /\ AwakeProducers' = AwakeProducers \cup {p}
        BY <1>1, <1>7, <3>1 DEF Dequeue, AwakeProducers, TypeOK, Threads
      <3> QED
        BY <3>2, AwakeFinite, FS_AddElement
    <2>4. not_full' # {} => not_full # {}
      BY <1>7 DEF Dequeue, SignalNotFull
    <2>5. count' = count - 1 /\ count > 0 /\ not_empty' = not_empty
      BY <1>1, <1>7 DEF Dequeue
    <2> QED
      BY <1>1, <2>2, <2>3, <2>4, <2>5 DEF NoLostWakeup
  <1>8. ASSUME NEW t \in Threads, SpuriousWakeup(t) PROVE NoLostWakeup'
    BY <1>2, <1>8 DEF SpuriousWakeup, buf, AwakeProducers, AwakeConsumers
  <1> QED
    BY <1>3, <1>4, <1>5, <1>6, <1>7, <1>8 DEF Next, Producer, Consumer, Threads

-----------------------------------------------------------------------------
LEMMA InitInv == Init => TypeOK /\ NoLostWakeup
  BY MaxTasksAssumption DEF Init, TypeOK, NoLostWakeup, Slots

LEMMA NextInv == TypeOK /\ NoLostWakeup /\ [Next]_vars => (TypeOK /\ NoLostWakeup)'
  <1> SUFFICES ASSUME TypeOK, NoLostWakeup, [Next]_vars
               PROVE  (TypeOK /\ NoLostWakeup)'
    OBVIOUS
  <1>1. CASE Next
    BY <1>1, StepType, StepWakeup
  <1>2. CASE UNCHANGED vars
    BY <1>2 DEF vars, TypeOK, NoLostWakeup, AwakeProducers, AwakeConsumers
  <1> QED
    BY <1>1, <1>2

\* The indices stay inside the array, and only callers sleep
\* (volcom_uscheduler.c 18-52).
THEOREM TypeCorrect == Spec => []TypeOK
  <1>1. Spec => [](TypeOK /\ NoLostWakeup)
    BY InitInv, NextInv, PTL DEF Spec
  <1> QED
    BY <1>1, PTL

\* Signalling once per enqueue and once per dequeue loses no wakeup, however
\* many threads wait (volcom_uscheduler.c 31, 49).
THEOREM WakeupsSuffice == Spec => []NoLostWakeup
  <1>1. Spec => [](TypeOK /\ NoLostWakeup)
    BY InitInv, NextInv, PTL DEF Spec
  <1> QED
    BY <1>1, PTL

-----------------------------------------------------------------------------
\* The two conditions never wait for each other: while producers and consumers both
\* sleep, some thread is awake inside a call and about to take the mutex.  TLC's
\* deadlock check does not see this, because a spurious wakeup is always possible.
SomebodyComes ==
    not_full # {} /\ not_empty # {} => AwakeProducers \cup AwakeConsumers # {}
THEOREM NeverAllAsleep == Spec => []SomebodyComes
  <1>1. TypeOK /\ NoLostWakeup => SomebodyComes
    <2> SUFFICES ASSUME TypeOK, NoLostWakeup, not_full # {}, not_empty # {},
                        AwakeProducers = {}, AwakeConsumers = {}
                 PROVE  FALSE
      BY DEF SomebodyComes
    <2>1. Cardinality(AwakeProducers) = 0 /\ Cardinality(AwakeConsumers) = 0
      BY FS_EmptySet
    <2>2. count <= 0 /\ MaxTasks - count <= 0
      BY <2>1 DEF NoLostWakeup
    <2> QED
      BY <2>2, MaxTasksAssumption DEF TypeOK
  <1>2. Spec => [](TypeOK /\ NoLostWakeup)
    BY InitInv, NextInv, PTL DEF Spec
  <1> QED
    BY <1>1, <1>2, PTL

-----------------------------------------------------------------------------
\* The ring implements BoundedFifo.  head and tail are count apart, and what is
\* between them, or on its way in, is a task.
RingInv ==
    /\ tail = (head + count) % MaxTasks
    /\ \A k \in 0 .. count - 1 : tasks[(head + k) % MaxTasks] \in Tasks
    /\ \A p \in Producers : pc[p] = "inside" => task[p] \in Tasks

\* Advancing the head and counting one less, or advancing the tail and counting
\* one more, come to the same slot.
LEMMA RingShift ==
    ASSUME NEW a \in Slots, NEW k \in 0 .. MaxTasks - 1
    PROVE  /\ Next1(a) \in Slots
           /\ (Next1(a) + k) % MaxTasks = (a + (k + 1)) % MaxTasks
           /\ Next1((a + k) % MaxTasks) = (a + (k + 1)) % MaxTasks
  <1> USE MaxTasksAssumption
  <1>1. ASSUME NEW b \in Slots, NEW m \in 0 .. MaxTasks
        PROVE  (b + m) % MaxTasks = IF b + m < MaxTasks THEN b + m ELSE b + m - MaxTasks
    BY DEF Slots
  <1>2. ASSUME NEW b \in Slots
        PROVE  /\ Next1(b) = IF b + 1 < MaxTasks THEN b + 1 ELSE b + 1 - MaxTasks
               /\ Next1(b) \in Slots
    BY <1>1 DEF Next1, Slots
  <1>3. (a + (k + 1)) % MaxTasks
          = IF a + (k + 1) < MaxTasks THEN a + (k + 1) ELSE a + (k + 1) - MaxTasks
    <2>1. k + 1 \in 0 .. MaxTasks
      OBVIOUS
    <2> QED
      BY <1>1, <2>1
  <1>4. (Next1(a) + k) % MaxTasks
          = IF Next1(a) + k < MaxTasks THEN Next1(a) + k ELSE Next1(a) + k - MaxTasks
    BY <1>1, <1>2
  <1>5. /\ (a + k) % MaxTasks = IF a + k < MaxTasks THEN a + k ELSE a + k - MaxTasks
        /\ (a + k) % MaxTasks \in Slots
    BY <1>1 DEF Slots
  <1>6. (Next1(a) + k) % MaxTasks = (a + (k + 1)) % MaxTasks
    BY <1>2, <1>3, <1>4 DEF Slots
  <1>7. Next1((a + k) % MaxTasks) = (a + (k + 1)) % MaxTasks
    BY <1>2, <1>3, <1>5 DEF Slots
  <1> QED
    BY <1>2, <1>6, <1>7

LEMMA EnqueueRing ==
    ASSUME TypeOK, RingInv, NEW p \in Producers, Enqueue(p)
    PROVE  RingInv'
  <1>1. /\ tasks' = [tasks EXCEPT ![tail] = task[p]] /\ tail' = Next1(tail)
        /\ count' = count + 1 /\ head' = head /\ task' = task /\ task[p] \in Tasks
        /\ \A q \in Producers : pc'[q] = "inside" => pc[q] = "inside"
    BY DEF Enqueue, RingInv, TypeOK, Threads
  <1>2. /\ count \in 0 .. MaxTasks - 1 /\ head \in Slots /\ tail \in Slots
        /\ MaxTasks \in Nat \ {0} /\ tasks \in [Slots -> Tasks \cup {Garbage}]
    BY MaxTasksAssumption DEF Enqueue, TypeOK
  <1>3. tail' = (head' + count') % MaxTasks
    BY <1>1, <1>2, RingShift DEF RingInv
  <1>4. ASSUME NEW k \in 0 .. count' - 1 PROVE tasks'[(head' + k) % MaxTasks] \in Tasks
    <2>1. k = count \/ k \in 0 .. count - 1
      BY <1>1, <1>2, <1>4
    <2>2. CASE k = count
      BY <1>1, <1>2, <2>2 DEF RingInv
    <2>3. CASE k \in 0 .. count - 1
      <3>1. tasks[(head + k) % MaxTasks] \in Tasks
        BY <2>3 DEF RingInv
      <3>2. (head + k) % MaxTasks \in Slots
        <4>1. head \in 0 .. MaxTasks - 1 /\ k \in 0 .. MaxTasks - 1
          BY <1>2, <2>3 DEF Slots
        <4> QED
          BY <1>2, <4>1, RingPlaces DEF Slots
      <3> QED
        BY <1>1, <1>2, <3>1, <3>2
    <2> QED
      BY <2>1, <2>2, <2>3
  <1> QED
    BY <1>1, <1>3, <1>4 DEF RingInv

LEMMA DequeueRing ==
    ASSUME TypeOK, RingInv, NEW c \in Consumers, Dequeue(c)
    PROVE  RingInv'
  <1>1. /\ head' = Next1(head) /\ count' = count - 1 /\ tasks' = tasks /\ tail' = tail
        /\ task' = task /\ \A q \in Producers : pc'[q] = "inside" => pc[q] = "inside"
    BY DEF Dequeue, TypeOK, Threads
  <1>2. /\ count \in 1 .. MaxTasks /\ head \in Slots /\ MaxTasks \in Nat \ {0}
    BY MaxTasksAssumption DEF Dequeue, TypeOK
  <1>3. ASSUME NEW k \in 0 .. count - 1
        PROVE  (Next1(head) + k) % MaxTasks = (head + (k + 1)) % MaxTasks
    <2>1. k \in 0 .. MaxTasks - 1
      BY <1>2
    <2> QED
      BY <1>2, <2>1, RingShift
  <1>4. tail' = (head' + count') % MaxTasks
    <2>1. count - 1 \in 0 .. count - 1 /\ (count - 1) + 1 = count
      BY <1>2
    <2>2. (Next1(head) + (count - 1)) % MaxTasks = (head + ((count - 1) + 1)) % MaxTasks
      BY <1>3, <2>1
    <2> QED
      BY <1>1, <2>1, <2>2 DEF RingInv
  <1>5. ASSUME NEW k \in 0 .. count' - 1 PROVE tasks'[(head' + k) % MaxTasks] \in Tasks
    <2>1. k \in 0 .. count - 1 /\ k + 1 \in 0 .. count - 1
      BY <1>1, <1>2, <1>5
    <2>2. (Next1(head) + k) % MaxTasks = (head + (k + 1)) % MaxTasks
      BY <1>3, <2>1
    <2>3. tasks[(head + (k + 1)) % MaxTasks] \in Tasks
      BY <2>1 DEF RingInv
    <2> QED
      BY <1>1, <2>2, <2>3
  <1> QED
    BY <1>1, <1>4, <1>5 DEF RingInv

LEMMA NextRing == TypeOK /\ RingInv /\ [Next]_vars => RingInv'
  <1> SUFFICES ASSUME TypeOK, RingInv, [Next]_vars PROVE RingInv'
    OBVIOUS
  <1>1. ASSUME NEW p \in Producers, Enqueue(p) PROVE RingInv'
    BY <1>1, EnqueueRing
  <1>2. ASSUME NEW c \in Consumers, Dequeue(c) PROVE RingInv'
    BY <1>2, DequeueRing
  <1>3. ASSUME NEW t \in Threads, Call(t) PROVE RingInv'
    <2>1. /\ UNCHANGED buf
          /\ \A p \in Producers : pc'[p] = "inside" => task'[p] \in Tasks
      BY <1>3, ThreadsAssumption DEF Call, TypeOK, Threads, RingInv
    <2> QED
      BY <2>1 DEF RingInv, buf
  <1>4. CASE UNCHANGED <<buf, pc, task>>
    BY <1>4 DEF RingInv, buf
  <1> QED
    BY <1>1, <1>2, <1>3, <1>4 DEF Next, Producer, Consumer, EnqueueWait, DequeueWait,
       SpuriousWakeup, Threads, vars, buf

QueueShape == count \in 0 .. MaxTasks /\ Queue \in [1 .. count -> Tasks]

LEMMA QueueIs == TypeOK /\ RingInv => QueueShape
  <1> SUFFICES ASSUME TypeOK, RingInv PROVE QueueShape
    OBVIOUS
  <1>1. count \in 0 .. MaxTasks /\ head \in 0 .. MaxTasks - 1 /\ MaxTasks \in Nat
    BY MaxTasksAssumption DEF TypeOK, Slots
  <1>2. ASSUME NEW i \in 1 .. count PROVE tasks[(head + i - 1) % MaxTasks] \in Tasks
    <2>1. i - 1 \in 0 .. count - 1 /\ head + i - 1 = head + (i - 1)
      BY <1>1
    <2>2. tasks[(head + (i - 1)) % MaxTasks] \in Tasks
      BY <2>1 DEF RingInv
    <2> QED
      BY <2>1, <2>2
  <1> QED
    BY <1>1, <1>2 DEF QueueShape, Queue

LEMMA EnqueueFifo ==
    ASSUME TypeOK, RingInv, QueueShape', NEW p \in Producers, Enqueue(p)
    PROVE  Fifo!Put(p, task[p])
  <1>1. /\ tasks' = [tasks EXCEPT ![tail] = task[p]] /\ head' = head /\ count' = count + 1
        /\ ret' = [ret EXCEPT ![p] = "stored"]
    BY DEF Enqueue
  <1>2. /\ count \in 0 .. MaxTasks - 1 /\ head \in 0 .. MaxTasks - 1 /\ tail \in Slots
        /\ MaxTasks \in Nat \ {0} /\ tasks \in [Slots -> Tasks \cup {Garbage}]
        /\ tail = (head + count) % MaxTasks
    BY MaxTasksAssumption DEF Enqueue, TypeOK, Slots, RingInv
  <1>3. Queue \in [1 .. count -> Tasks] /\ Queue' \in [1 .. count + 1 -> Tasks] /\ count \in Nat
    BY <1>1, <1>2, QueueIs DEF QueueShape
  <1>4. ASSUME NEW k \in 1 .. count PROVE Queue'[k] = Queue[k]
    <2>1. k - 1 \in 0 .. MaxTasks - 1 /\ k - 1 # count /\ head + k - 1 = head + (k - 1)
          /\ k \in 1 .. count'
      BY <1>1, <1>2
    <2>2. /\ (head + (k - 1)) % MaxTasks \in 0 .. MaxTasks - 1
          /\ (head + (k - 1)) % MaxTasks # tail
      BY <1>2, <2>1, RingPlaces
    <2>3. tasks'[(head + (k - 1)) % MaxTasks] = tasks[(head + (k - 1)) % MaxTasks]
      BY <1>1, <1>2, <2>2 DEF Slots
    <2> QED
      BY <1>1, <2>1, <2>3 DEF Queue
  <1>5. Queue'[count + 1] = task[p]
    <2>1. count + 1 \in 1 .. count' /\ head + (count + 1) - 1 = head + count
      BY <1>1, <1>2
    <2>2. tasks'[(head + count) % MaxTasks] = task[p]
      BY <1>1, <1>2
    <2> QED
      BY <1>1, <2>1, <2>2 DEF Queue
  <1>6. Queue' = Append(Queue, Queue'[count + 1])
    BY <1>3, <1>4, PutAtEnd
  <1>7. Len(Queue) = count /\ count < MaxTasks
    BY <1>2, <1>3, FunctionIsSequence
  <1> QED
    BY <1>1, <1>5, <1>6, <1>7 DEF Fifo!Put, Fifo!Answer

LEMMA DequeueFifo ==
    ASSUME TypeOK, RingInv, QueueShape', NEW c \in Consumers, Dequeue(c)
    PROVE  Fifo!Take(c)
  <1>1. /\ head' = Next1(head) /\ count' = count - 1 /\ tasks' = tasks
        /\ ret' = [ret EXCEPT ![c] = tasks[head]]
    BY DEF Dequeue, Oldest
  <1>2. /\ count \in Nat \ {0} /\ count <= MaxTasks /\ head \in Slots
        /\ MaxTasks \in Nat \ {0}
    BY MaxTasksAssumption DEF Dequeue, TypeOK
  <1>3. Queue \in [1 .. count -> Tasks] /\ Queue' \in [1 .. count - 1 -> Tasks]
    BY <1>1, QueueIs DEF QueueShape
  <1>4. ASSUME NEW k \in 1 .. count - 1 PROVE Queue'[k] = Queue[k + 1]
    <2>1. /\ k - 1 \in 0 .. MaxTasks - 1 /\ k + 1 \in 1 .. count /\ k \in 1 .. count'
          /\ head + (k + 1) - 1 = head + ((k - 1) + 1)
          /\ Next1(head) + k - 1 = Next1(head) + (k - 1)
      BY <1>1, <1>2, RingShift DEF Slots
    <2>2. (Next1(head) + (k - 1)) % MaxTasks = (head + ((k - 1) + 1)) % MaxTasks
      BY <1>2, <2>1, RingShift
    <2>3. Queue[k + 1] = tasks[(head + (k + 1) - 1) % MaxTasks]
      BY <2>1 DEF Queue
    <2>4. Queue'[k] = tasks'[(head' + k - 1) % MaxTasks]
      BY <2>1 DEF Queue
    <2> QED
      BY <1>1, <2>1, <2>2, <2>3, <2>4
  <1>5. Queue # <<>> /\ Queue' = Tail(Queue) /\ Head(Queue) = Queue[1]
    BY <1>2, <1>3, <1>4, TakeFirst
  <1>6. Queue[1] = tasks[head]
    <2>1. (head + 1 - 1) % MaxTasks = head
      BY <1>2 DEF Slots
    <2>2. 1 \in 1 .. count
      BY <1>2
    <2> QED
      BY <2>1, <2>2 DEF Queue
  <1> QED
    BY <1>1, <1>5, <1>6 DEF Fifo!Take, Fifo!Answer

\* Every behaviour of the blocking buffer, with any number of threads and slots, is
\* one of BoundedFifo: tasks leave once each, in the order they came in, however the
\* waiters wake (volcom_uscheduler.c 18-52).
THEOREM BufferIsFifo == Spec => ImplementsFifo
  <1>1. Init => RingInv /\ Fifo!FifoInit
    <2> SUFFICES ASSUME Init PROVE RingInv /\ Fifo!FifoInit
      OBVIOUS
    <2>1. RingInv
      <3>1. 0 % MaxTasks = 0
        BY MaxTasksAssumption
      <3> QED
        BY <3>1 DEF Init, RingInv, Threads
    <2>2. Queue = <<>>
      <3>1. QueueShape /\ count = 0
        BY <2>1, InitInv, QueueIs DEF Init
      <3> QED
        BY <3>1, FunctionIsSequence, EmptySeq DEF QueueShape
    <2> QED
      BY <2>1, <2>2 DEF Init, Fifo!FifoInit
  <1>2. (TypeOK /\ RingInv)' => QueueShape'
    BY QueueIs, PTL
  <1>3. TypeOK /\ RingInv /\ (TypeOK /\ RingInv)' /\ [Next]_vars
          => [Fifo!FifoNext]_(Fifo!fifoVars)
    <2> SUFFICES ASSUME TypeOK, RingInv, QueueShape', [Next]_vars
                 PROVE  Fifo!FifoNext \/ UNCHANGED <<Queue, ret>>
      BY <1>2 DEF Fifo!fifoVars
    <2>1. ASSUME NEW p \in Producers, Enqueue(p) PROVE Fifo!FifoNext
      <3>1. task[p] \in Tasks /\ p \in Threads
        BY <2>1 DEF Enqueue, RingInv, Threads
      <3> QED
        BY <2>1, <3>1, EnqueueFifo DEF Fifo!FifoNext
    <2>2. ASSUME NEW c \in Consumers, Dequeue(c) PROVE Fifo!FifoNext
      BY <2>2, DequeueFifo DEF Fifo!FifoNext, Threads
    <2>3. CASE UNCHANGED <<buf, ret>>
      BY <2>3 DEF buf, Queue
    <2> QED
      BY <2>1, <2>2, <2>3 DEF Next, Producer, Consumer, Call, EnqueueWait, DequeueWait,
         SpuriousWakeup, vars, buf
  <1>4. Spec => []TypeOK
    BY TypeCorrect
  <1>5. Spec => []RingInv
    BY <1>1, <1>4, NextRing, PTL DEF Spec
  <1> QED
    BY <1>1, <1>3, <1>4, <1>5, PTL DEF Spec, ImplementsFifo, Fifo!FifoSpec
=============================================================================
