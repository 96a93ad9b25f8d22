----------------------------- MODULE UScheduler -----------------------------
(***************************************************************************)
(* The blocking task buffer of volcom_uscheduler: a ring of MaxTasks slots *)
(* guarded by one mutex and two condition variables.  A producer waits on  *)
(* not_full, a consumer on not_empty.                                      *)
(*                                                                         *)
(* A critical section is one action: it runs under the mutex and gives it  *)
(* up only in pthread_cond_wait.  A thread that was signalled has to take  *)
(* the mutex and test the condition again, so others may overtake it.      *)
(***************************************************************************)
EXTENDS Naturals, FiniteSets

CONSTANTS Producers, Consumers,  \* threads that enqueue, threads that dequeue
          Tasks,                 \* the tasks they pass
          MaxTasks,              \* MAX_TASKS
          Garbage                \* a slot nothing was written to

ASSUME MaxTasksAssumption == MaxTasks \in Nat \ {0}
ASSUME ThreadsAssumption ==
    /\ IsFiniteSet(Producers) /\ IsFiniteSet(Consumers)
    /\ Producers \cap Consumers = {}
ASSUME TasksAssumption ==
    Tasks \cap {"none", "stored", Garbage} = {}

VARIABLES tasks, head, tail, count,   \* struct task_buffer
          not_full, not_empty,        \* the threads asleep on each condition
          pc,                         \* "idle", or about to take the mutex
          task,                       \* the task a producer passes
          ret                         \* ret[t]: what t's last call gave back

buf  == <<tasks, head, tail, count>>
vars == <<tasks, head, tail, count, not_full, not_empty, pc, task, ret>>

Threads == Producers \cup Consumers
Slots == 0 .. MaxTasks - 1

NextNoWrap(i) == i + 1               \* mutant: the modulo forgotten
Next1(i) == (i + 1) % MaxTasks
Newest == tasks[tail]                \* mutant: the wrong index
Oldest == tasks[head]

Init ==
    /\ tasks = [i \in Slots |-> Garbage]
    /\ head = 0 /\ tail = 0 /\ count = 0
    /\ not_full = {} /\ not_empty = {}
    /\ pc = [t \in Threads |-> "idle"]
    /\ task = [t \in Producers |-> Garbage]
    /\ ret = [t \in Threads |-> "none"]

\* pthread_cond_signal wakes one of the threads asleep, if there is one.
\* Those a signal leaves asleep remain in the set.
NoSignalNotEmpty == UNCHANGED not_empty    \* mutants: the signal forgotten
NoSignalNotFull == UNCHANGED not_full

SignalNotEmpty ==
    \/ not_empty = {} /\ UNCHANGED not_empty
    \/ \E c \in not_empty : not_empty' = not_empty \ {c}
SignalNotFull ==
    \/ not_full = {} /\ UNCHANGED not_full
    \/ \E p \in not_full : not_full' = not_full \ {p}

Call(t) ==
    /\ pc[t] = "idle"
    /\ pc' = [pc EXCEPT ![t] = "inside"]
    /\ IF t \in Producers
       THEN \E x \in Tasks : task' = [task EXCEPT ![t] = x]
       ELSE UNCHANGED task
    /\ UNCHANGED <<buf, not_full, not_empty, ret>>

EnqueueWait(p) ==
    /\ pc[p] = "inside" /\ p \notin not_full
    /\ count = MaxTasks
    /\ not_full' = not_full \cup {p}
    /\ UNCHANGED <<buf, not_empty, pc, task, ret>>

Enqueue(p) ==
    /\ pc[p] = "inside" /\ p \notin not_full
    /\ count # MaxTasks
    /\ tasks' = [tasks EXCEPT ![tail] = task[p]]
    /\ tail' = Next1(tail)
    /\ count' = count + 1
    /\ SignalNotEmpty
    /\ pc' = [pc EXCEPT ![p] = "idle"]
    /\ ret' = [ret EXCEPT ![p] = "stored"]
    /\ UNCHANGED <<head, not_full, task>>

DequeueWait(c) ==
    /\ pc[c] = "inside" /\ c \notin not_empty
    /\ count = 0
    /\ not_empty' = not_empty \cup {c}
    /\ UNCHANGED <<buf, not_full, pc, task, ret>>

Dequeue(c) ==
    /\ pc[c] = "inside" /\ c \notin not_empty
    /\ count # 0
    /\ ret' = [ret EXCEPT ![c] = Oldest]
    /\ head' = Next1(head)
    /\ count' = count - 1
    /\ SignalNotFull
    /\ pc' = [pc EXCEPT ![c] = "idle"]
    /\ UNCHANGED <<tasks, tail, not_empty, task>>

\* POSIX lets a condition wait return without a signal.
SpuriousWakeup(t) ==
    /\ t \in not_full \cup not_empty
    /\ not_full' = not_full \ {t}
    /\ not_empty' = not_empty \ {t}
    /\ UNCHANGED <<buf, pc, task, ret>>

Producer(p) == Call(p) \/ EnqueueWait(p) \/ Enqueue(p)
Consumer(c) == Call(c) \/ DequeueWait(c) \/ Dequeue(c)

Next ==
    \/ \E p \in Producers : Producer(p)
    \/ \E c \in Consumers : Consumer(c)
    \/ \E t \in Threads : SpuriousWakeup(t)

Spec == Init /\ [][Next]_vars

\* Threads are scheduled, and the test programs call the buffer in a loop.
\* Nothing says which of the threads that want the mutex gets it.
FairSpec ==
    /\ Spec
    /\ \A p \in Producers : WF_vars(Producer(p))
    /\ \A c \in Consumers : WF_vars(Consumer(c))

-----------------------------------------------------------------------------
AwakeProducers == {p \in Producers : pc[p] = "inside"} \ not_full
AwakeConsumers == {c \in Consumers : pc[c] = "inside"} \ not_empty

\* The tasks in the buffer, in the order task_buffer_print lists them.
Queue == [i \in 1 .. count |-> tasks[(head + i - 1) % MaxTasks]]

\* Type correctness: the indices stay inside the array of MAX_TASKS, and only
\* threads inside a call sleep on the condition of their own role.
TypeOK ==
    /\ tasks \in [Slots -> Tasks \cup {Garbage}]
    /\ head \in Slots /\ tail \in Slots
    /\ count \in 0 .. MaxTasks
    /\ not_full \in SUBSET {p \in Producers : pc[p] = "inside"}
    /\ not_empty \in SUBSET {c \in Consumers : pc[c] = "inside"}
    /\ pc \in [Threads -> {"idle", "inside"}]
    /\ task \in [Producers -> Tasks \cup {Garbage}]
    /\ ret \in [Threads -> Tasks \cup {Garbage, "none", "stored"}]

\* No wakeup is lost: while a consumer sleeps, every task in the buffer has an
\* awake consumer coming for it, and while a producer sleeps, every free slot
\* has an awake producer.  One signal per enqueue and per dequeue is enough
\* (volcom_uscheduler.c 31, 49) because a waiter tests its condition again.
NoLostWakeup ==
    /\ not_empty # {} => count <= Cardinality(AwakeConsumers)
    /\ not_full # {} => MaxTasks - count <= Cardinality(AwakeProducers)

\* The buffer is a bounded FIFO queue: tasks leave in the order in which they
\* were stored, each of them once, and never more than MAX_TASKS are held.
Fifo == INSTANCE BoundedFifo WITH
          Values <- Tasks, Capacity <- MaxTasks, queue <- Queue
ImplementsFifo == Fifo!FifoSpec

\* The buffer keeps moving: the oldest task is eventually dequeued, and a full
\* buffer never blocks both sides for good.
OldestLeaves == \A i \in Slots : (count > 0 /\ head = i) ~> (head # i \/ count = 0)
=============================================================================
