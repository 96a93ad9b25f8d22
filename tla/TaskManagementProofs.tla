------------------------ MODULE TaskManagementProofs ------------------------
(***************************************************************************)
(* The ring buffer of task_management.c keeps TypeOK and RingInv for every *)
(* number of threads, every set of values and every capacity.              *)
(***************************************************************************)
EXTENDS TaskManagement, FifoFacts

\* A ring position reached by at most Capacity steps from a slot: the one use
\* of % that the proofs need.
LEMMA RingPosition ==
    ASSUME NEW a \in Slots, NEW k \in 0 .. Capacity
    PROVE  (a + k) % Capacity = IF a + k < Capacity THEN a + k ELSE a + k - Capacity
  BY CapacityAssumption DEF Slots

\* Advancing the tail and counting one value less, or advancing the head and
\* counting one more, come to the same slot.
LEMMA RingShift ==
    ASSUME NEW a \in Slots, NEW k \in 0 .. Capacity - 1
    PROVE  /\ Next1(a) \in Slots
           /\ (Next1(a) + k) % Capacity = (a + (k + 1)) % Capacity
           /\ Next1((a + k) % Capacity) = (a + (k + 1)) % Capacity
  <1> USE CapacityAssumption
  <1>1. Next1(a) = IF a + 1 < Capacity THEN a + 1 ELSE a + 1 - Capacity
    BY RingPosition DEF Next1, Slots
  <1>2. Next1(a) \in Slots
    BY <1>1 DEF Slots
  <1>3. (a + (k + 1)) % Capacity
          = IF a + (k + 1) < Capacity THEN a + (k + 1) ELSE a + (k + 1) - Capacity
    <2>1. k + 1 \in 0 .. Capacity
      OBVIOUS
    <2> QED
      BY <2>1, RingPosition
  <1>4. (Next1(a) + k) % Capacity
          = IF Next1(a) + k < Capacity THEN Next1(a) + k ELSE Next1(a) + k - Capacity
    BY <1>2, RingPosition
  <1>5. (a + k) % Capacity = IF a + k < Capacity THEN a + k ELSE a + k - Capacity
    BY RingPosition
  <1>6. (a + k) % Capacity \in Slots
    BY <1>5 DEF Slots
  <1>7. ASSUME NEW b \in Slots
        PROVE  Next1(b) = IF b + 1 < Capacity THEN b + 1 ELSE b + 1 - Capacity
    BY RingPosition DEF Next1, Slots
  <1>8. (Next1(a) + k) % Capacity = (a + (k + 1)) % Capacity
    BY <1>1, <1>3, <1>4 DEF Slots
  <1>9. Next1((a + k) % Capacity) = (a + (k + 1)) % Capacity
    BY <1>3, <1>5, <1>6, <1>7 DEF Slots
  <1> QED
    BY <1>2, <1>8, <1>9

\* LiveSlotsInitialised without the sequence that shows the ring to a reader.
LEMMA LiveSlots ==
    TypeOK => (LiveSlotsInitialised <=>
        \A k \in 0 .. Held - 1 : tasks[(tail + k) % Capacity] \in Values)
  <1> SUFFICES ASSUME TypeOK
               PROVE  LiveSlotsInitialised <=>
                        \A k \in 0 .. Held - 1 : tasks[(tail + k) % Capacity] \in Values
    OBVIOUS
  <1>1. Held \in Int /\ tail \in Int
    BY DEF TypeOK, Held, Slots
  <1>2. ASSUME LiveSlotsInitialised, NEW k \in 0 .. Held - 1
        PROVE  tasks[(tail + k) % Capacity] \in Values
    <2>1. k + 1 \in 1 .. Held /\ tail + (k + 1) - 1 = tail + k
      BY <1>1
    <2> QED
      BY <1>2, <2>1 DEF LiveSlotsInitialised, Queue
  <1>3. ASSUME \A k \in 0 .. Held - 1 : tasks[(tail + k) % Capacity] \in Values,
               NEW i \in 1 .. Held
        PROVE  Queue[i] \in Values
    <2>1. i - 1 \in 0 .. Held - 1 /\ tail + (i - 1) = tail + i - 1
      BY <1>1
    <2> QED
      BY <1>3, <2>1 DEF Queue
  <1> QED
    BY <1>2, <1>3 DEF LiveSlotsInitialised

LEMMA StepType ==
    ASSUME TypeOK, RingInv, NEW t \in Threads, Step(t)
    PROVE  TypeOK'
  <1> USE CapacityAssumption DEF TypeOK, Goto, Return, buffer, Slots, Locations
  <1>1. ASSUME NEW v \in Values, AddLock(t, v) PROVE TypeOK'
    BY <1>1 DEF AddLock, Lock
  <1>2. CASE AddFull(t)
    BY <1>2 DEF AddFull
  <1>3. CASE AddStore(t)
    BY <1>3 DEF AddStore
  <1>4. CASE AddHead(t)
    BY <1>4 DEF AddHead, Next1
  <1>5. CASE AddCount(t)
    BY <1>5 DEF AddCount, RingInv, InFlight
  <1>6. CASE GetLock(t)
    BY <1>6 DEF GetLock, Lock
  <1>7. CASE GetEmpty(t)
    BY <1>7 DEF GetEmpty
  <1>8. CASE GetLoad(t)
    BY <1>8 DEF GetLoad
  <1>9. CASE GetTail(t)
    BY <1>9 DEF GetTail, Next1, RingInv, InFlight
  <1>10. CASE GetCount(t)
    BY <1>10 DEF GetCount, RingInv, InFlight
  <1>11. CASE IsEmptyLock(t)
    BY <1>11 DEF IsEmptyLock, Lock
  <1>12. CASE IsEmpty(t)
    BY <1>12 DEF IsEmpty
  <1>13. CASE Unlock(t)
    BY <1>13 DEF Unlock
  <1> QED
    BY <1>1, <1>2, <1>3, <1>4, <1>5, <1>6, <1>7, <1>8, <1>9, <1>10, <1>11, <1>12, <1>13
    DEF Step

LEMMA StepExclusion ==
    ASSUME TypeOK, RingInv, NEW t \in Threads, Step(t)
    PROVE  Exclusion'
  <1> USE NoThreadAssumption DEF Exclusion, Goto, Locations
  <1>1. CASE \E l \in Locations \ {"idle"} : Lock(t, l)
    BY <1>1 DEF Lock, TypeOK, RingInv
  <1>2. CASE mutex' = mutex /\ \E l \in Locations \ {"idle"} : pc[t] # "idle" /\ Goto(t, l)
    BY <1>2 DEF TypeOK, RingInv
  <1>3. CASE Unlock(t)
    BY <1>3 DEF Unlock, TypeOK, RingInv
  <1> QED
    BY <1>1, <1>2, <1>3 DEF Step, AddLock, AddFull, AddStore, AddHead, AddCount, GetLock,
       GetEmpty, GetLoad, GetTail, GetCount, IsEmptyLock, IsEmpty

\* Where the other threads are: all of them idle, before and after.
LEMMA StepAt ==
    ASSUME TypeOK, RingInv, NEW t \in Threads, Step(t), NEW l, l # "idle"
    PROVE  /\ At(l) <=> pc[t] = l
           /\ At(l)' <=> pc'[t] = l
           /\ \A u \in Threads \ {t} : pc[u] = "idle" /\ pc'[u] = "idle"
  <1>1. Exclusion'
    BY StepExclusion
  <1>2. \A u \in Threads \ {t} : pc'[u] = pc[u]
    BY DEF TypeOK, Step, Goto, Lock, Unlock, AddLock, AddFull, AddStore, AddHead, AddCount,
       GetLock, GetEmpty, GetLoad, GetTail, GetCount, IsEmptyLock, IsEmpty
  <1>3. \A u \in Threads \ {t} : pc[u] = "idle"
    <2>1. mutex = t \/ mutex = NoThread
      BY DEF TypeOK, RingInv, Exclusion, Step, Lock, Unlock, AddLock, AddFull, AddStore,
         AddHead, AddCount, GetLock, GetEmpty, GetLoad, GetTail, GetCount, IsEmptyLock, IsEmpty
    <2> QED
      BY <2>1, NoThreadAssumption DEF RingInv, Exclusion
  <1> QED
    BY <1>2, <1>3 DEF At

\* count, corrected by what the thread inside has yet to do to it.
LEMMA StepDistance ==
    ASSUME TypeOK, RingInv, NEW t \in Threads, Step(t)
    PROVE  /\ Distance = IF pc[t] = "addCount" THEN count + 1
                         ELSE IF pc[t] = "getCount" THEN count - 1 ELSE count
           /\ Distance' = IF pc'[t] = "addCount" THEN count' + 1
                          ELSE IF pc'[t] = "getCount" THEN count' - 1 ELSE count'
           /\ Held = IF pc[t] = "getCount" THEN count - 1 ELSE count
           /\ Held' = IF pc'[t] = "getCount" THEN count' - 1 ELSE count'
  <1>1. /\ At("addCount") <=> pc[t] = "addCount"
        /\ At("getCount") <=> pc[t] = "getCount"
    BY StepAt
  <1>2. /\ At("addCount")' <=> pc'[t] = "addCount"
        /\ At("getCount")' <=> pc'[t] = "getCount"
    BY StepAt
  <1>3. /\ At("addCount")' = (pc'[t] = "addCount") /\ At("getCount")' = (pc'[t] = "getCount")
        /\ At("addCount") = (pc[t] = "addCount") /\ At("getCount") = (pc[t] = "getCount")
    BY <1>1, <1>2 DEF At
  <1> QED
    BY <1>3 DEF Distance, Held

LEMMA StepIndices ==
    ASSUME TypeOK, RingInv, NEW t \in Threads, Step(t)
    PROVE  IndicesAgree'
  <1>1. /\ IndicesAgree /\ InFlight
        /\ tail \in Slots /\ head \in Slots /\ count \in 0 .. Capacity
        /\ Capacity \in Nat \ {0}
    BY CapacityAssumption DEF RingInv, TypeOK
  <1>2. CASE AddHead(t)
    <2>1. /\ pc[t] = "addHead" /\ pc'[t] = "addCount" /\ head' = Next1(head)
          /\ tail' = tail /\ count' = count /\ count < Capacity
      BY <1>1, <1>2 DEF AddHead, Goto, TypeOK, InFlight
    <2>2. Distance = count /\ Distance' = count + 1
      BY <2>1, StepDistance
    <2>3. head = (tail + count) % Capacity
      BY <1>1, <2>2 DEF IndicesAgree
    <2>4. tail \in Slots /\ count \in 0 .. Capacity - 1
      BY <1>1, <2>1
    <2>5. Next1((tail + count) % Capacity) = (tail + (count + 1)) % Capacity
      BY <2>4, RingShift, Zenon
    <2>6. head' = (tail + (count + 1)) % Capacity
      BY <2>1, <2>3, <2>5, Zenon
    <2> QED
      BY <2>1, <2>2, <2>6 DEF IndicesAgree
  <1>3. CASE GetTail(t)
    <2>1. /\ pc[t] = "getTail" /\ pc'[t] = "getCount" /\ tail' = Next1(tail)
          /\ head' = head /\ count' = count /\ count > 0
      BY <1>1, <1>3 DEF GetTail, Goto, TypeOK, InFlight
    <2>2. Distance = count /\ Distance' = count - 1
      BY <2>1, StepDistance
    <2>3. head = (tail + count) % Capacity
      BY <1>1, <2>2 DEF IndicesAgree
    <2>4. count - 1 \in 0 .. Capacity - 1 /\ (count - 1) + 1 = count
      BY <1>1, <2>1
    <2>5. (Next1(tail) + (count - 1)) % Capacity = (tail + ((count - 1) + 1)) % Capacity
      BY <1>1, <2>4, RingShift, Zenon
    <2>6. head = (tail' + (count - 1)) % Capacity
      BY <2>1, <2>3, <2>4, <2>5, Zenon
    <2> QED
      BY <2>1, <2>2, <2>6 DEF IndicesAgree
  <1>4. CASE UNCHANGED <<head, tail>> /\ Distance' = Distance
    BY <1>1, <1>4 DEF IndicesAgree
  <1>5. CASE AddCount(t) \/ GetCount(t)
    <2>1. /\ UNCHANGED <<head, tail>> /\ pc'[t] = "unlock"
          /\ \/ pc[t] = "addCount" /\ count' = count + 1
             \/ pc[t] = "getCount" /\ count' = count - 1
      BY <1>5 DEF AddCount, GetCount, Goto, TypeOK
    <2> QED
      BY <1>4, <2>1, StepDistance
  <1>6. CASE /\ UNCHANGED <<head, tail, count>>
             /\ pc[t] \notin {"addCount", "getCount"} /\ pc'[t] \notin {"addCount", "getCount"}
    BY <1>4, <1>6, StepDistance
  <1> QED
    BY <1>2, <1>3, <1>5, <1>6 DEF Step, Goto, Lock, Unlock, AddLock, AddFull, AddStore,
       GetLock, GetEmpty, GetLoad, IsEmptyLock, IsEmpty, TypeOK, buffer

LEMMA StepLive ==
    ASSUME TypeOK, RingInv, NEW t \in Threads, Step(t)
    PROVE  LiveSlotsInitialised'
  <1>1. /\ IndicesAgree /\ InFlight
        /\ tail \in Slots /\ head \in Slots /\ count \in 0 .. Capacity
        /\ Capacity \in Nat \ {0}
    BY CapacityAssumption DEF RingInv, TypeOK
  <1>2. \A k \in 0 .. Held - 1 : tasks[(tail + k) % Capacity] \in Values
    BY LiveSlots DEF RingInv
  <1>3. SUFFICES \A k \in 0 .. Held' - 1 : tasks'[(tail' + k) % Capacity] \in Values
    <2>1. TypeOK'
      BY StepType
    <2>2. (TypeOK => (LiveSlotsInitialised <=>
             \A k \in 0 .. Held - 1 : tasks[(tail + k) % Capacity] \in Values))'
      BY LiveSlots, PTL
    <2> QED
      BY <2>1, <2>2
  <1>4. CASE AddStore(t)
    <2>1. /\ pc[t] = "add" /\ pc'[t] = "addHead" /\ tail' = tail /\ count' = count
          /\ tasks' = [tasks EXCEPT ![head] = task[t]] /\ task[t] \in Values
      BY <1>1, <1>4 DEF AddStore, Goto, TypeOK, InFlight
    <2>2. Held' = Held
      BY <2>1, StepDistance
    <2> QED
      BY <1>2, <2>1, <2>2 DEF TypeOK
  <1>5. CASE AddCount(t)
    <2>1. /\ pc[t] = "addCount" /\ pc'[t] = "unlock" /\ tail' = tail /\ count' = count + 1
          /\ tasks' = tasks /\ tasks[(tail + count) % Capacity] \in Values
      BY <1>1, <1>5 DEF AddCount, Goto, TypeOK, InFlight
    <2>2. Held = count /\ Held' = count + 1
      BY <2>1, StepDistance
    <2>3. \A k \in 0 .. Held' - 1 : k = count \/ k \in 0 .. Held - 1
      BY <1>1, <2>2
    <2> QED
      BY <1>2, <2>1, <2>3
  <1>6. CASE GetTail(t)
    <2>1. /\ pc[t] = "getTail" /\ pc'[t] = "getCount" /\ tail' = Next1(tail)
          /\ count' = count /\ tasks' = tasks
      BY <1>1, <1>6 DEF GetTail, Goto, TypeOK, InFlight
    <2>2. Held = count /\ Held' = count - 1
      BY <2>1, StepDistance
    <2>3. ASSUME NEW k \in 0 .. Held' - 1
          PROVE  k \in 0 .. Capacity - 1 /\ k + 1 \in 0 .. Held - 1
      BY <1>1, <2>2
    <2>4. ASSUME NEW k \in 0 .. Held' - 1
          PROVE  (Next1(tail) + k) % Capacity = (tail + (k + 1)) % Capacity
      BY <1>1, <2>3, RingShift, Zenon
    <2> QED
      BY <1>2, <2>1, <2>3, <2>4, Zenon
  <1>7. CASE GetCount(t)
    <2>1. /\ pc[t] = "getCount" /\ pc'[t] = "unlock" /\ tail' = tail
          /\ count' = count - 1 /\ tasks' = tasks
      BY <1>1, <1>7 DEF GetCount, Goto, TypeOK
    <2>2. Held' = Held
      BY <2>1, StepDistance
    <2> QED
      BY <1>2, <2>1, <2>2
  <1>8. CASE /\ UNCHANGED <<tasks, tail, count>>
             /\ pc[t] # "getCount" /\ pc'[t] # "getCount"
    BY <1>2, <1>8, StepDistance
  <1> QED
    BY <1>4, <1>5, <1>6, <1>7, <1>8 DEF Step, Goto, Lock, Unlock, AddLock, AddFull, AddHead,
       GetLock, GetEmpty, GetLoad, IsEmptyLock, IsEmpty, TypeOK, buffer

LEMMA StepInFlight ==
    ASSUME TypeOK, RingInv, NEW t \in Threads, Step(t)
    PROVE  InFlight'
  <1> DEFINE Sound(u) ==
        /\ pc[u] \in {"add", "addHead", "addCount", "getTail"} => task[u] \in Values
        /\ pc[u] \in {"addHead", "addCount"} =>
              count < Capacity /\ tasks[(tail + count) % Capacity] \in Values
        /\ pc[u] \in {"getTail", "getCount"} => count > 0
  <1>1. /\ IndicesAgree /\ Sound(t)
        /\ tail \in Slots /\ head \in Slots /\ count \in 0 .. Capacity
        /\ Capacity \in Nat \ {0}
    BY CapacityAssumption DEF RingInv, TypeOK, InFlight
  <1>2. SUFFICES Sound(t)'
    <2>1. \A u \in Threads \ {t} : pc'[u] = "idle"
      BY StepAt
    <2> QED
      BY <2>1 DEF InFlight
  <1>3. ASSUME NEW v \in Values, AddLock(t, v) PROVE Sound(t)'
    BY <1>3 DEF AddLock, Lock, Goto, TypeOK
  <1>4. CASE AddStore(t)
    <2>1. /\ pc[t] = "add" /\ pc'[t] = "addHead" /\ tail' = tail /\ count' = count
          /\ task' = task /\ count < Capacity /\ task[t] \in Values
          /\ tasks' = [tasks EXCEPT ![head] = task[t]]
      BY <1>1, <1>4 DEF AddStore, Goto, TypeOK
    <2>2. head = (tail + count) % Capacity
      BY <1>1, <2>1, StepDistance DEF IndicesAgree
    <2>3. tasks'[head] = task[t]
      BY <1>1, <2>1 DEF TypeOK
    <2> QED
      BY <2>1, <2>2, <2>3
  <1>5. CASE AddHead(t)
    BY <1>1, <1>5 DEF AddHead, Goto, TypeOK
  <1>6. CASE GetLoad(t)
    <2>1. /\ pc[t] = "get" /\ pc'[t] = "getTail" /\ count' = count /\ count > 0
          /\ task'[t] = tasks[tail]
      BY <1>1, <1>6 DEF GetLoad, Goto, TypeOK, buffer
    <2>2. Held = count /\ 0 \in 0 .. Held - 1
      BY <1>1, <2>1, StepDistance
    <2>3. tasks[(tail + 0) % Capacity] \in Values
      BY <2>2, LiveSlots DEF RingInv
    <2>4. (tail + 0) % Capacity = tail
      <3>1. tail \in 0 .. Capacity - 1 /\ Capacity \in Nat \ {0}
        BY <1>1 DEF Slots
      <3> QED
        BY <3>1
    <2> QED
      BY <2>1, <2>3, <2>4
  <1>7. CASE GetTail(t)
    BY <1>1, <1>7 DEF GetTail, Goto, TypeOK
  <1>8. CASE pc'[t] \in {"idle", "get", "isEmpty", "unlock"}
    BY <1>8
  <1> QED
    BY <1>3, <1>4, <1>5, <1>6, <1>7, <1>8 DEF Step, Goto, Lock, Unlock, AddFull, AddCount,
       GetLock, GetEmpty, GetCount, IsEmptyLock, IsEmpty, TypeOK

-----------------------------------------------------------------------------
LEMMA InitInv == Init => TypeOK /\ RingInv
  <1> SUFFICES ASSUME Init PROVE TypeOK /\ RingInv
    OBVIOUS
  <1>1. TypeOK
    BY CapacityAssumption DEF Init, TypeOK, Slots, Locations
  <1>2. Exclusion /\ InFlight
    BY NoThreadAssumption DEF Init, Exclusion, InFlight
  <1>3. Distance = 0 /\ Held = 0
    BY DEF Init, Distance, Held, At
  <1>4. IndicesAgree
    <2>1. 0 \in Slots /\ 0 \in 0 .. Capacity
      BY CapacityAssumption DEF Slots
    <2>2. (0 + 0) % Capacity = 0
      BY <2>1, RingPosition, CapacityAssumption
    <2> QED
      BY <1>3, <2>2 DEF Init, IndicesAgree
  <1>5. LiveSlotsInitialised
    BY <1>3 DEF LiveSlotsInitialised
  <1> QED
    BY <1>1, <1>2, <1>4, <1>5 DEF RingInv

LEMMA NextInv == TypeOK /\ RingInv /\ [Next]_vars => (TypeOK /\ RingInv)'
  <1> SUFFICES ASSUME TypeOK, RingInv, [Next]_vars PROVE (TypeOK /\ RingInv)'
    OBVIOUS
  <1>1. ASSUME NEW t \in Threads, Step(t) PROVE (TypeOK /\ RingInv)'
    BY <1>1, StepType, StepExclusion, StepIndices, StepLive, StepInFlight DEF RingInv
  <1>2. CASE UNCHANGED vars
    BY <1>2 DEF vars, TypeOK, RingInv, Exclusion, IndicesAgree, Distance, Held, At,
       LiveSlotsInitialised, Queue, InFlight
  <1> QED
    BY <1>1, <1>2 DEF Next

\* The indices stay inside the array and the count inside 0 .. capacity under
\* every interleaving of the callers (task_management.c 26-57).
THEOREM TypeCorrect == Spec => []TypeOK
  <1>1. Spec => [](TypeOK /\ RingInv)
    BY InitInv, NextInv, PTL DEF Spec
  <1> QED
    BY <1>1, PTL

\* The ring stays consistent, and no caller is ever given memory that nothing
\* was stored in (task_management.c 26-57).
THEOREM RingCorrect == Spec => []RingInv
  <1>1. Spec => [](TypeOK /\ RingInv)
    BY InitInv, NextInv, PTL DEF Spec
  <1> QED
    BY <1>1, PTL

-----------------------------------------------------------------------------
\* The ring implements BoundedFifo.  What a getter took is the oldest value
\* until it moves the tail.
Loaded == \A t \in Threads : pc[t] = "getTail" => task[t] = tasks[tail]

LEMMA StepLoaded ==
    ASSUME TypeOK, RingInv, Loaded, NEW t \in Threads, Step(t)
    PROVE  Loaded'
  <1>1. \A u \in Threads \ {t} : pc'[u] = "idle"
    BY StepAt
  <1>2. CASE GetLoad(t)
    BY <1>1, <1>2 DEF GetLoad, Loaded, TypeOK, buffer
  <1>3. CASE pc'[t] # "getTail"
    BY <1>1, <1>3 DEF Loaded
  <1> QED
    BY <1>2, <1>3 DEF Step, Goto, Lock, Unlock, AddLock, AddFull, AddStore, AddHead, AddCount,
       GetLock, GetEmpty, GetTail, GetCount, IsEmptyLock, IsEmpty, TypeOK

\* The queue a caller sees is Held values long, and they are stored values.
QueueShape == Held \in 0 .. Capacity /\ Queue \in [1 .. Held -> Values]

LEMMA QueueIs == TypeOK /\ RingInv => QueueShape
  <1> SUFFICES ASSUME TypeOK, RingInv PROVE QueueShape
    OBVIOUS
  <1>1. At("getCount") => count > 0
    BY DEF At, RingInv, InFlight
  <1>2. Held \in 0 .. Capacity
    BY <1>1, CapacityAssumption DEF Held, TypeOK
  <1>3. \A i \in 1 .. Held : Queue[i] \in Values
    BY DEF RingInv, LiveSlotsInitialised
  <1> QED
    BY <1>2, <1>3 DEF QueueShape, Queue

\* The queue stays as long as it is, and its slots are left alone.
LEMMA SameQueue ==
    ASSUME Held' = Held, tail' = tail,
           \A i \in 1 .. Held : tasks'[(tail + i - 1) % Capacity] = tasks[(tail + i - 1) % Capacity]
    PROVE  Queue' = Queue
  BY DEF Queue

LEMMA StoreFifo ==
    ASSUME TypeOK, RingInv, NEW t \in Threads, AddStore(t)
    PROVE  Queue' = Queue /\ ret' = ret
  <1>1. /\ pc[t] = "add" /\ pc'[t] = "addHead" /\ tail' = tail /\ count' = count
        /\ count < Capacity /\ tasks' = [tasks EXCEPT ![head] = task[t]] /\ ret' = ret
    BY DEF AddStore, Goto, TypeOK
  <1>2. Held = count /\ Held' = count /\ head = (tail + count) % Capacity
    BY <1>1, StepDistance DEF Step, RingInv, IndicesAgree
  <1>3. /\ tail \in 0 .. Capacity - 1 /\ count \in 0 .. Capacity - 1
        /\ Capacity \in Nat \ {0} /\ tasks \in [Slots -> Values \cup {Garbage}]
    BY <1>1, CapacityAssumption DEF TypeOK, Slots
  <1>4. ASSUME NEW i \in 1 .. Held
        PROVE  tasks'[(tail + i - 1) % Capacity] = tasks[(tail + i - 1) % Capacity]
    <2>1. i - 1 \in 0 .. Capacity - 1 /\ i - 1 # count /\ tail + i - 1 = tail + (i - 1)
      BY <1>2, <1>3
    <2>2. /\ (tail + (i - 1)) % Capacity \in 0 .. Capacity - 1
          /\ (tail + (i - 1)) % Capacity # head
      BY <1>2, <1>3, <2>1, RingPlaces
    <2> QED
      BY <1>1, <1>3, <2>1, <2>2 DEF Slots
  <1> QED
    BY <1>1, <1>2, <1>4, SameQueue

LEMMA CountFifo ==
    ASSUME TypeOK, RingInv, QueueShape', NEW t \in Threads, AddCount(t)
    PROVE  \E v \in Values : Fifo!Put(t, v)
  <1>1. /\ pc[t] = "addCount" /\ pc'[t] = "unlock" /\ tail' = tail /\ count' = count + 1
        /\ count < Capacity /\ tasks' = tasks /\ ret' = [ret EXCEPT ![t] = "stored"]
    BY DEF AddCount, Goto, Return, TypeOK, RingInv, InFlight
  <1>2. Held = count /\ Held' = count + 1 /\ count \in Nat
    BY <1>1, StepDistance, CapacityAssumption DEF Step, TypeOK
  <1>3. Queue \in [1 .. count -> Values] /\ Queue' \in [1 .. count + 1 -> Values]
    BY <1>2, QueueIs DEF QueueShape
  <1>4. \A k \in 1 .. count : Queue'[k] = Queue[k]
    <2>1. Queue = [k \in 1 .. count |-> tasks[(tail + k - 1) % Capacity]]
      BY <1>2 DEF Queue
    <2>2. Queue' = [k \in 1 .. count + 1 |-> tasks[(tail + k - 1) % Capacity]]
      BY <1>1, <1>2 DEF Queue
    <2> QED
      BY <1>2, <2>1, <2>2
  <1>5. Queue' = Append(Queue, Queue'[count + 1])
    BY <1>2, <1>3, <1>4, PutAtEnd
  <1>6. Queue'[count + 1] \in Values /\ Len(Queue) = count
    BY <1>2, <1>3, FunctionIsSequence
  <1> QED
    BY <1>1, <1>5, <1>6 DEF Fifo!Put, Fifo!Answer

LEMMA TailFifo ==
    ASSUME TypeOK, RingInv, Loaded, QueueShape', NEW t \in Threads, GetTail(t)
    PROVE  Fifo!Take(t)
  <1>1. /\ pc[t] = "getTail" /\ pc'[t] = "getCount" /\ tail' = Next1(tail) /\ count' = count
        /\ count > 0 /\ tasks' = tasks /\ ret' = [ret EXCEPT ![t] = tasks[tail]]
    BY DEF GetTail, Goto, Return, TypeOK, RingInv, InFlight, Loaded
  <1>2. /\ Held = count /\ Held' = count - 1 /\ count \in Nat \ {0} /\ count <= Capacity
        /\ tail \in Slots /\ Capacity \in Nat \ {0}
    BY <1>1, StepDistance, CapacityAssumption DEF Step, TypeOK
  <1>3. Queue \in [1 .. count -> Values] /\ Queue' \in [1 .. count - 1 -> Values]
    BY <1>2, QueueIs DEF QueueShape
  <1>4. ASSUME NEW k \in 1 .. count - 1 PROVE Queue'[k] = Queue[k + 1]
    <2>1. /\ k - 1 \in 0 .. Capacity - 1 /\ k + 1 \in 1 .. Held /\ k \in 1 .. Held'
          /\ tail + (k + 1) - 1 = tail + ((k - 1) + 1)
          /\ Next1(tail) + k - 1 = Next1(tail) + (k - 1)
      BY <1>2, RingShift DEF Slots
    <2>2. (Next1(tail) + (k - 1)) % Capacity = (tail + ((k - 1) + 1)) % Capacity
      BY <1>2, <2>1, RingShift
    <2>3. Queue[k + 1] = tasks[(tail + (k + 1) - 1) % Capacity]
      BY <2>1 DEF Queue
    <2>4. Queue'[k] = tasks'[(tail' + k - 1) % Capacity]
      BY <2>1 DEF Queue
    <2> QED
      BY <1>1, <2>1, <2>2, <2>3, <2>4
  <1>5. Queue # <<>> /\ Queue' = Tail(Queue) /\ Head(Queue) = Queue[1]
    BY <1>2, <1>3, <1>4, TakeFirst
  <1>6. Queue[1] = tasks[tail]
    <2>1. (tail + 1 - 1) % Capacity = tail
      BY <1>2 DEF Slots
    <2>2. 1 \in 1 .. Held
      BY <1>2
    <2> QED
      BY <2>1, <2>2 DEF Queue
  <1> QED
    BY <1>1, <1>5, <1>6 DEF Fifo!Take, Fifo!Answer

\* The answers that change nothing are true when they are given.
LEMMA AnswersFifo ==
    ASSUME TypeOK, RingInv, NEW t \in Threads, AddFull(t) \/ GetEmpty(t) \/ IsEmpty(t)
    PROVE  Fifo!Refuse(t) \/ Fifo!FindEmpty(t) \/ Fifo!AskEmpty(t)
  <1>1. /\ pc[t] # "getCount" /\ pc'[t] = "unlock" /\ UNCHANGED <<tasks, tail, count>>
    BY DEF AddFull, GetEmpty, IsEmpty, Goto, buffer, TypeOK
  <1>2. Held = count /\ Held' = count
    BY <1>1, StepDistance DEF Step
  <1>3. Queue' = Queue
    BY <1>1, <1>2, SameQueue
  <1>4. Len(Queue) = count /\ Queue \in Seq(Values) /\ count \in 0 .. Capacity
    BY <1>2, QueueIs, FunctionIsSequence, CapacityAssumption DEF QueueShape
  <1>5. Queue = <<>> <=> count = 0
    BY <1>4, EmptySeq
  <1>6. CASE AddFull(t)
    BY <1>3, <1>4, <1>6, CapacityAssumption DEF AddFull, Return, Fifo!Refuse, Fifo!Answer
  <1>7. CASE GetEmpty(t)
    BY <1>3, <1>5, <1>7 DEF GetEmpty, Return, Fifo!FindEmpty, Fifo!Answer
  <1>8. CASE IsEmpty(t)
    BY <1>3, <1>5, <1>8 DEF IsEmpty, Return, Fifo!AskEmpty, Fifo!Answer
  <1> QED
    BY <1>6, <1>7, <1>8

LEMMA StepFifo ==
    ASSUME TypeOK, RingInv, Loaded, QueueShape', NEW t \in Threads, Step(t)
    PROVE  Fifo!FifoNext \/ UNCHANGED <<Queue, ret>>
  <1>1. CASE AddStore(t)
    BY <1>1, StoreFifo
  <1>2. CASE AddCount(t)
    BY <1>2, CountFifo DEF Fifo!FifoNext
  <1>3. CASE GetTail(t)
    BY <1>3, TailFifo DEF Fifo!FifoNext
  <1>4. CASE AddFull(t) \/ GetEmpty(t) \/ IsEmpty(t)
    BY <1>4, AnswersFifo DEF Fifo!FifoNext
  <1>5. CASE UNCHANGED <<tasks, tail, ret>> /\ Held' = Held
    BY <1>5, SameQueue
  <1>6. CASE (\E v \in Values : AddLock(t, v)) \/ AddHead(t) \/ GetLock(t) \/ GetLoad(t)
             \/ IsEmptyLock(t) \/ Unlock(t)
    <2>1. UNCHANGED <<tasks, tail, count, ret>> /\ pc[t] # "getCount" /\ pc'[t] # "getCount"
      BY <1>6 DEF AddLock, AddHead, GetLock, GetLoad, IsEmptyLock, Unlock, Lock, Goto, buffer,
         TypeOK
    <2> QED
      BY <1>5, <2>1, StepDistance
  <1>7. CASE GetCount(t)
    <2>1. /\ UNCHANGED <<tasks, tail, ret>> /\ count' = count - 1
          /\ pc[t] = "getCount" /\ pc'[t] = "unlock"
      BY <1>7 DEF GetCount, Goto, TypeOK
    <2> QED
      BY <1>5, <2>1, StepDistance
  <1> QED
    BY <1>1, <1>2, <1>3, <1>4, <1>6, <1>7 DEF Step

\* Every behaviour of the ring, with any number of threads and any capacity, is one
\* of BoundedFifo: nothing is lost, duplicated, reordered or invented, and "full" and
\* "empty" are answered only when so (task_management.c 26-57, 79-109).
THEOREM RingIsFifo == Spec => ImplementsFifo
  <1>1. Init => Loaded /\ Fifo!FifoInit
    <2> SUFFICES ASSUME Init PROVE Loaded /\ Fifo!FifoInit
      OBVIOUS
    <2>1. Held = 0
      BY DEF Init, Held, At
    <2>2. QueueShape
      BY InitInv, QueueIs
    <2>3. Queue = <<>>
      BY <2>1, <2>2, FunctionIsSequence, EmptySeq DEF QueueShape
    <2> QED
      BY <2>3 DEF Init, Loaded, Fifo!FifoInit
  <1>2. TypeOK /\ RingInv /\ Loaded /\ [Next]_vars => Loaded'
    <2>1. UNCHANGED vars /\ Loaded => Loaded'
      BY DEF vars, Loaded
    <2> QED
      BY <2>1, StepLoaded DEF Next
  <1>3. (TypeOK /\ RingInv)' => QueueShape'
    BY QueueIs, PTL
  <1>4. TypeOK /\ RingInv /\ Loaded /\ (TypeOK /\ RingInv)' /\ [Next]_vars
          => [Fifo!FifoNext]_(Fifo!fifoVars)
    <2> SUFFICES ASSUME TypeOK, RingInv, Loaded, QueueShape', [Next]_vars
                 PROVE  Fifo!FifoNext \/ UNCHANGED <<Queue, ret>>
      BY <1>3 DEF Fifo!fifoVars
    <2>1. CASE UNCHANGED vars
      BY <2>1 DEF vars, Queue, Held, At
    <2> QED
      BY <2>1, StepFifo DEF Next
  <1>5. Spec => [](TypeOK /\ RingInv)
    BY InitInv, NextInv, PTL DEF Spec
  <1>6. Spec => []Loaded
    BY <1>1, <1>2, <1>5, PTL DEF Spec
  <1> QED
    BY <1>1, <1>4, <1>5, <1>6, PTL DEF Spec, ImplementsFifo, Fifo!FifoSpec
=============================================================================
