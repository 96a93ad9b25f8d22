--------------------------- MODULE TaskManagement ---------------------------
(***************************************************************************)
(* The ring buffer of volcom_agents/task_management.c, in which an         *)
(* employee keeps the data chunks it received (task_buffer_t) and, in a    *)
(* second copy of the same code, the results it has to return              *)
(* (result_queue_t).  The accept thread and the worker thread call it.     *)
(*                                                                         *)
(* The steps inside each critical section are separate actions, so that    *)
(* what the mutex is for can be checked; they run between ..Lock and       *)
(* Unlock.  ret[t] records the answer of a call where it is decided.       *)
(***************************************************************************)
EXTENDS Naturals

CONSTANTS Threads,   \* threads that share the buffer
          Values,    \* what a slot can hold (received_task_t / result_info_t)
          Capacity,  \* the capacity passed to init
          NoThread,  \* the mutex is free
          Garbage    \* the content of memory malloc returned

ASSUME CapacityAssumption == Capacity \in Nat \ {0}
ASSUME NoThreadAssumption == NoThread \notin Threads
ASSUME ValuesAssumption ==
    Values \cap {"none", "stored", "full", "empty", "yes", "no", Garbage} = {}

VARIABLES tasks, head, tail, count,  \* the fields of the buffer
          mutex,                     \* who holds buffer->mutex
          pc,                        \* pc[t]: the statement t is at
          task,                      \* task[t]: the *task of t's call
          ret                        \* ret[t]: the answer to t's last call

buffer == <<tasks, head, tail, count>>
vars   == <<tasks, head, tail, count, mutex, pc, task, ret>>

Slots == 0 .. Capacity - 1
NextNoWrap(i) == i + 1               \* mutant: the modulo forgotten
Next1(i) == (i + 1) % Capacity

Locations == {"idle", "add", "addHead", "addCount",
              "get", "getTail", "getCount", "isEmpty", "unlock"}

Init ==
    /\ tasks = [i \in Slots |-> Garbage]
    /\ head = 0 /\ tail = 0 /\ count = 0
    /\ mutex = NoThread
    /\ pc = [t \in Threads |-> "idle"]
    /\ task = [t \in Threads |-> Garbage]
    /\ ret = [t \in Threads |-> "none"]

Goto(t, l) == pc' = [pc EXCEPT ![t] = l]
Return(t, a) == ret' = [ret EXCEPT ![t] = a]

LockUnchecked(t, l) ==               \* mutant: no pthread_mutex_lock
    pc[t] = "idle" /\ mutex' = t /\ Goto(t, l)

Lock(t, l) ==
    /\ pc[t] = "idle"
    /\ mutex = NoThread
    /\ mutex' = t
    /\ Goto(t, l)

AddLock(t, v) ==
    /\ Lock(t, "add")
    /\ task' = [task EXCEPT ![t] = v]
    /\ UNCHANGED <<buffer, ret>>

AddFullEarly(t) ==                   \* mutant: one slot kept free
    /\ pc[t] = "add"
    /\ count >= Capacity - 1
    /\ Return(t, "full")
    /\ Goto(t, "unlock")
    /\ UNCHANGED <<buffer, mutex, task>>

AddFull(t) ==
    /\ pc[t] = "add"
    /\ count >= Capacity
    /\ Return(t, "full")
    /\ Goto(t, "unlock")
    /\ UNCHANGED <<buffer, mutex, task>>

AddStore(t) ==
    /\ pc[t] = "add"
    /\ count < Capacity
    /\ tasks' = [tasks EXCEPT ![head] = task[t]]
    /\ Goto(t, "addHead")
    /\ UNCHANGED <<head, tail, count, mutex, task, ret>>

AddHead(t) ==
    /\ pc[t] = "addHead"
    /\ head' = Next1(head)
    /\ Goto(t, "addCount")
    /\ UNCHANGED <<tasks, tail, count, mutex, task, ret>>

AddCount(t) ==
    /\ pc[t] = "addCount"
    /\ count' = count + 1
    /\ Return(t, "stored")
    /\ Goto(t, "unlock")
    /\ UNCHANGED <<tasks, head, tail, mutex, task>>

GetLock(t) ==
    /\ Lock(t, "get")
    /\ UNCHANGED <<buffer, task, ret>>

GetEmpty(t) ==
    /\ pc[t] = "get"
    /\ count = 0
    /\ Return(t, "empty")
    /\ Goto(t, "unlock")
    /\ UNCHANGED <<buffer, mutex, task>>

GetLoad(t) ==
    /\ pc[t] = "get"
    /\ count # 0
    /\ task' = [task EXCEPT ![t] = tasks[tail]]
    /\ Goto(t, "getTail")
    /\ UNCHANGED <<buffer, mutex, ret>>

GetTail(t) ==
    /\ pc[t] = "getTail"
    /\ tail' = Next1(tail)
    /\ Return(t, task[t])
    /\ Goto(t, "getCount")
    /\ UNCHANGED <<tasks, head, count, mutex, task>>

GetCount(t) ==
    /\ pc[t] = "getCount"
    /\ count' = count - 1
    /\ Goto(t, "unlock")
    /\ UNCHANGED <<tasks, head, tail, mutex, task, ret>>

IsEmptyLock(t) ==
    /\ Lock(t, "isEmpty")
    /\ UNCHANGED <<buffer, task, ret>>

IsEmpty(t) ==
    /\ pc[t] = "isEmpty"
    /\ Return(t, IF count = 0 THEN "yes" ELSE "no")
    /\ Goto(t, "unlock")
    /\ UNCHANGED <<buffer, mutex, task>>

Unlock(t) ==
    /\ pc[t] = "unlock"
    /\ mutex' = NoThread
    /\ Goto(t, "idle")
    /\ UNCHANGED <<buffer, task, ret>>

Step(t) ==
    \/ \E v \in Values : AddLock(t, v)
    \/ AddFull(t) \/ AddStore(t) \/ AddHead(t) \/ AddCount(t)
    \/ GetLock(t)
    \/ GetEmpty(t) \/ GetLoad(t) \/ GetTail(t) \/ GetCount(t)
    \/ IsEmptyLock(t) \/ IsEmpty(t)
    \/ Unlock(t)

Next == \E t \in Threads : Step(t)

Spec == Init /\ [][Next]_vars

-----------------------------------------------------------------------------
At(l) == \E t \in Threads : pc[t] = l

\* The number of values the buffer holds for its callers: a value being added
\* counts from the count++ on, a value being taken no longer counts once the
\* tail has left its slot.
Held == IF At("getCount") THEN count - 1 ELSE count

\* The ring read from the tail, oldest value first.
Queue == [i \in 1 .. Held |-> tasks[(tail + i - 1) % Capacity]]

\* Type correctness: the indices stay inside the malloc'd array and the count
\* inside 0 .. capacity whatever the interleaving of the callers
\* (task_management.c 26-57).
TypeOK ==
    /\ tasks \in [Slots -> Values \cup {Garbage}]
    /\ head \in Slots /\ tail \in Slots
    /\ count \in 0 .. Capacity
    /\ mutex \in Threads \cup {NoThread}
    /\ pc \in [Threads -> Locations]
    /\ task \in [Threads -> Values \cup {Garbage}]
    /\ ret \in [Threads -> Values \cup {"none", "stored", "full", "empty", "yes", "no"}]

\* RingInv, which with TypeOK is inductive, has four parts.
\* Mutual exclusion: a thread inside a critical section is the one that holds
\* the mutex (the lock/unlock pairs of every operation, on every return path).
Exclusion == \A t \in Threads : pc[t] # "idle" <=> mutex = t

\* head, tail and count are three views of one thing and may disagree only by
\* the step the lock holder is in the middle of.
Distance == IF At("addCount") THEN count + 1 ELSE Held
IndicesAgree == head = (tail + Distance) % Capacity

\* Only stored values can be read: every slot of the live part of the ring
\* holds a value, never the uninitialised memory of malloc.
LiveSlotsInitialised == \A i \in 1 .. Held : Queue[i] \in Values

\* What a thread in the middle of a call may rely on: what it tested under the
\* mutex still holds, and the value it adds or takes is a stored one.
InFlight ==
    \A t \in Threads :
        /\ pc[t] \in {"add", "addHead", "addCount", "getTail"} => task[t] \in Values
        /\ pc[t] \in {"addHead", "addCount"} =>
              count < Capacity /\ tasks[(tail + count) % Capacity] \in Values
        /\ pc[t] \in {"getTail", "getCount"} => count > 0

\* The ring is consistent between any two steps of any two threads
\* (task_management.c 26-57): its four parts above.
RingInv == Exclusion /\ IndicesAgree /\ LiveSlotsInitialised /\ InFlight

\* The buffer is a bounded FIFO queue: no value is lost, duplicated, reordered
\* or invented, "full" is answered only at capacity, "empty" only when empty.
Fifo == INSTANCE BoundedFifo WITH queue <- Queue
ImplementsFifo == Fifo!FifoSpec
=============================================================================
