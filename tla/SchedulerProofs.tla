-------------------------- MODULE SchedulerProofs --------------------------
(***************************************************************************)
(* What holds of the scheduler's tables for any tasks, clients, employees, *)
(* reports and table sizes.                                                *)
(***************************************************************************)
EXTENDS Scheduler, SequenceTheorems, FunctionTheorems, FiniteSetTheorems,
        WellFoundedInduction, TLAPS

\* Induction, for properties that are sets of numbers.
LEMMA LeastOne ==
    ASSUME NEW T \in SUBSET Nat, T # {}
    PROVE  \E m \in T : \A k \in T : m <= k
  <1> DEFINE R == {ss \in Nat \X Nat : ss[1] < ss[2]}
  <1>1. IsWellFoundedOn(R, Nat)
    BY NatLessThanWellFounded DEF OpToRel
  <1> HIDE DEF R
  <1>2. PICK x \in T : \A y \in T : ~ (<<y, x>> \in R)
    BY <1>1, WFMin
  <1>3. \A y \in T : ~ (y < x)
    BY <1>2 DEF R
  <1> QED
    BY <1>3

LEMMA Induction ==
    ASSUME NEW T, 0 \in T, \A n \in Nat : n \in T => n + 1 \in T
    PROVE  Nat \subseteq T
  <1> DEFINE U == Nat \ T
  <1>1. SUFFICES ASSUME U # {} PROVE FALSE
    OBVIOUS
  <1>2. PICK m \in U : \A k \in U : m <= k
    BY <1>1, LeastOne
  <1>3. m # 0 /\ m - 1 \in Nat /\ m - 1 \notin U
    BY <1>2
  <1> QED
    BY <1>3

-----------------------------------------------------------------------------
\* A pass over a table.
Pass(rows, t, f, n) ==
    f = [i \in 0 .. n |-> IF i = 0 THEN <<>>
                          ELSE IF rows[i].task_id = t THEN f[i - 1]
                          ELSE Append(f[i - 1], rows[i])]

LEMMA PassExists ==
    ASSUME NEW rows, NEW t
    PROVE  \A n \in Nat : \E f : Pass(rows, t, f, n)
  <1> DEFINE T == {n \in Nat : \E f : Pass(rows, t, f, n)}
  <1>1. 0 \in T
    <2> DEFINE f == [i \in 0 .. 0 |-> <<>>]
    <2>1. Pass(rows, t, f, 0)
      BY DEF Pass
    <2> QED
      BY <2>1
  <1>2. ASSUME NEW n \in Nat, n \in T
        PROVE  n + 1 \in T
    <2>1. PICK f : Pass(rows, t, f, n)
      BY <1>2
    <2> DEFINE g == [i \in 0 .. n + 1 |->
                       IF i = n + 1 THEN IF rows[i].task_id = t THEN f[i - 1]
                                         ELSE Append(f[i - 1], rows[i])
                       ELSE f[i]]
               Step(i) == IF i = 0 THEN <<>>
                          ELSE IF rows[i].task_id = t THEN g[i - 1]
                          ELSE Append(g[i - 1], rows[i])
    <2>2. \A i \in 0 .. n : f[i] = IF i = 0 THEN <<>>
                                   ELSE IF rows[i].task_id = t THEN f[i - 1]
                                   ELSE Append(f[i - 1], rows[i])
      BY <2>1 DEF Pass
    <2>3. \A i \in 0 .. n : g[i] = f[i]
      OBVIOUS
    <2>4. g[n + 1] = IF rows[n + 1].task_id = t THEN f[n] ELSE Append(f[n], rows[n + 1])
      OBVIOUS
    <2>5. g = [i \in 0 .. n + 1 |-> g[i]]
      OBVIOUS
    <2> HIDE DEF g
    <2>6. \A i \in 0 .. n + 1 : g[i] = Step(i)
      BY <2>2, <2>3, <2>4
    <2>7. Pass(rows, t, g, n + 1)
      BY <2>5, <2>6 DEF Pass
    <2> QED
      BY <2>7
  <1>3. Nat \subseteq T
    <2> HIDE DEF T
    <2> QED
      BY <1>1, <1>2, Induction
  <1> QED
    BY <1>3

\* How what is left of rows came from them: in their order, none of the task, and
\* all others.
Picks(rows, t, s, h, n) ==
    /\ h \in [1 .. Len(s) -> 1 .. n]
    /\ \A i, j \in 1 .. Len(s) : i < j => h[i] < h[j]
    /\ \A i \in 1 .. Len(s) : s[i] = rows[h[i]] /\ rows[h[i]].task_id # t
    /\ \A j \in 1 .. n : rows[j].task_id # t => \E i \in 1 .. Len(s) : h[i] = j

LEMMA PassPicks ==
    ASSUME NEW S, NEW rows \in Seq(S), NEW t, NEW f, Pass(rows, t, f, Len(rows))
    PROVE  \A n \in 0 .. Len(rows) :
              f[n] \in Seq(S) /\ Len(f[n]) <= n /\ \E h : Picks(rows, t, f[n], h, n)
  <1> DEFINE P(n) == f[n] \in Seq(S) /\ Len(f[n]) <= n /\ \E h : Picks(rows, t, f[n], h, n)
             T == {n \in Nat : n <= Len(rows) => P(n)}
  <1>0. Len(rows) \in Nat /\ \A i \in 1 .. Len(rows) : rows[i] \in S
    BY LenProperties, ElementOfSeq
  <1>f. \A i \in 0 .. Len(rows) : f[i] = IF i = 0 THEN <<>>
                                         ELSE IF rows[i].task_id = t THEN f[i - 1]
                                         ELSE Append(f[i - 1], rows[i])
    BY DEF Pass
  <1>1. 0 \in T
    <2>1. f[0] = <<>>
      BY <1>0, <1>f
    <2> DEFINE h == [i \in 1 .. 0 |-> 0]
    <2>2. Picks(rows, t, <<>>, h, 0)
      BY DEF Picks
    <2>3. P(0)
      BY <2>1, <2>2, EmptySeq
    <2> QED
      BY <2>3
  <1>2. ASSUME NEW n \in Nat, n \in T
        PROVE  n + 1 \in T
    <2>1. SUFFICES ASSUME n + 1 <= Len(rows)
                   PROVE  P(n + 1)
      OBVIOUS
    <2>2. P(n)
      BY <1>0, <1>2, <2>1
    <2> DEFINE s == f[n]
    <2>3. PICK h : Picks(rows, t, s, h, n)
      BY <2>2
    <2>4. s \in Seq(S) /\ Len(s) \in Nat /\ Len(s) <= n
      BY <2>2, LenProperties
    <2>5. n + 1 \in 1 .. Len(rows) /\ n + 1 \in 0 .. Len(rows) /\ rows[n + 1] \in S
      BY <1>0, <2>1
    <2>6. CASE rows[n + 1].task_id = t
      <3>1. f[n + 1] = s
        BY <1>f, <2>5, <2>6
      <3> HIDE DEF s
      <3>a. h \in [1 .. Len(s) -> 1 .. n + 1]
        BY <2>3, <2>4 DEF Picks
      <3>b. ASSUME NEW j \in 1 .. n + 1, rows[j].task_id # t
            PROVE  \E i \in 1 .. Len(s) : h[i] = j
        <4>1. j \in 1 .. n
          BY <2>6, <3>b
        <4> QED
          BY <4>1, <3>b, <2>3 DEF Picks
      <3>2. Picks(rows, t, s, h, n + 1)
        BY <3>a, <3>b, <2>3 DEF Picks
      <3> QED
        BY <3>1, <3>2, <2>4
    <2>7. CASE rows[n + 1].task_id # t
      <3> DEFINE r == Append(s, rows[n + 1])
                 g == [i \in 1 .. Len(s) + 1 |-> IF i = Len(s) + 1 THEN n + 1 ELSE h[i]]
      <3>a. (n + 1) - 1 = n /\ n + 1 # 0
        OBVIOUS
      <3>1. f[n + 1] = r
        BY <1>f, <2>5, <2>7, <3>a
      <3> HIDE DEF s
      <3>2. /\ r \in Seq(S) /\ Len(r) = Len(s) + 1
            /\ \A i \in 1 .. Len(s) : r[i] = s[i]
            /\ r[Len(s) + 1] = rows[n + 1]
        BY <2>4, <2>5, AppendProperties
      <3> HIDE DEF r
      <3>3. Picks(rows, t, r, g, n + 1)
        <4>1. \A i \in 1 .. Len(s) : g[i] = h[i] /\ h[i] \in 1 .. n
          BY <2>3, <2>4 DEF Picks
        <4>2. g[Len(s) + 1] = n + 1 /\ 1 .. Len(r) = 1 .. Len(s) + 1
          BY <2>4, <3>2
        <4>d. g = [i \in 1 .. Len(r) |-> g[i]]
          BY <4>2
        <4> HIDE DEF g
        <4>i. \A i \in 1 .. Len(r) : i \in 1 .. Len(s) \/ i = Len(s) + 1
          BY <4>2, <2>4
        <4>r. \A i \in 1 .. Len(r) : g[i] \in 1 .. n + 1
          <5>1. ASSUME NEW i \in 1 .. Len(s)
                PROVE  g[i] \in 1 .. n + 1
            BY <4>1
          <5>2. g[Len(s) + 1] \in 1 .. n + 1
            BY <4>2
          <5> QED
            BY <5>1, <5>2, <4>i
        <4>3. g \in [1 .. Len(r) -> 1 .. n + 1]
          BY <4>d, <4>r
        <4>4. ASSUME NEW i \in 1 .. Len(r), NEW j \in 1 .. Len(r), i < j
              PROVE  g[i] < g[j]
          <5>1. i \in 1 .. Len(s)
            BY <4>4, <4>2, <2>4
          <5>2. CASE j = Len(s) + 1
            BY <5>1, <5>2, <4>1, <4>2
          <5>3. CASE j \in 1 .. Len(s)
            BY <5>1, <5>3, <4>1, <4>4, <2>3 DEF Picks
          <5> QED
            BY <5>2, <5>3, <4>i
        <4>5. ASSUME NEW i \in 1 .. Len(r)
              PROVE  r[i] = rows[g[i]] /\ rows[g[i]].task_id # t
          <5>1. CASE i = Len(s) + 1
            BY <5>1, <4>2, <3>2, <2>7
          <5>2. CASE i \in 1 .. Len(s)
            BY <5>2, <4>1, <3>2, <2>3 DEF Picks
          <5> QED
            BY <5>1, <5>2, <4>i
        <4>6. ASSUME NEW j \in 1 .. n + 1, rows[j].task_id # t
              PROVE  \E i \in 1 .. Len(r) : g[i] = j
          <5>1. CASE j = n + 1
            BY <5>1, <4>2, <2>4
          <5>2. CASE j \in 1 .. n
            <6>1. PICK i \in 1 .. Len(s) : h[i] = j
              BY <5>2, <4>6, <2>3 DEF Picks
            <6> QED
              BY <6>1, <4>1, <4>2, <2>4
          <5> QED
            BY <5>1, <5>2
        <4> QED
          BY <4>3, <4>4, <4>5, <4>6 DEF Picks
      <3> QED
        BY <3>1, <3>2, <3>3, <2>4
    <2> QED
      BY <2>6, <2>7
  <1>3. Nat \subseteq T
    <2> HIDE DEF T
    <2> QED
      BY <1>1, <1>2, Induction
  <1> QED
    BY <1>0, <1>3

LEMMA WithoutPicks ==
    ASSUME NEW S, NEW rows \in Seq(S), NEW t
    PROVE  /\ Without(rows, t) \in Seq(S)
           /\ Len(Without(rows, t)) <= Len(rows)
           /\ \E h : Picks(rows, t, Without(rows, t), h, Len(rows))
  <1> DEFINE left == CHOOSE f : Pass(rows, t, f, Len(rows))
  <1>0. Len(rows) \in Nat
    BY LenProperties
  <1>1. Pass(rows, t, left, Len(rows))
    BY <1>0, PassExists
  <1>2. Without(rows, t) = left[Len(rows)]
    BY DEF Without, Pass
  <1> HIDE DEF left
  <1> QED
    BY <1>0, <1>1, <1>2, PassPicks

-----------------------------------------------------------------------------
\* Types.
Task == [task_id : TaskIds, is_chunked : BOOLEAN]
Chunk == {c \in [task_id : TaskIds, chunk_index : Nat, total_chunks : 0 .. MaxSize,
                 assigned_employee : Employees \cup {Nobody}, is_completed : BOOLEAN] :
             c.chunk_index < c.total_chunks}
Copy == [task_id : TaskIds, chunk_index : 0 .. MaxSize - 1]

TasksType == tasks \in Seq(Task) /\ Len(tasks) <= MaxTasks
ChunksType == chunks \in Seq(Chunk) /\ Len(chunks) <= MaxChunks
ClientsType ==
    /\ at \in [Clients -> {"get", "select", "assign", "work"}]
    /\ DOMAIN chunk = Clients
    /\ \A w \in Clients : IF at[w] = "get" THEN chunk[w] = NoChunk ELSE chunk[w] \in Copy
    /\ employee \in [Clients -> Employees \cup {Nobody}]
    /\ \A w \in Clients : at[w] \in {"assign", "work"} => employee[w] \in Employees
HistoryType ==
    /\ adds \in 0 .. MaxAdds /\ recut \cup cut \cup reused \subseteq TaskIds
    /\ lost \subseteq ChunkIds

TypeInv ==
    /\ TasksType /\ ChunksType /\ ClientsType /\ HistoryType
    /\ current_policy \in Policies

LEMMA TaskRow ==
    ASSUME TasksType, NEW i \in DOMAIN tasks
    PROVE  tasks[i] \in Task /\ i \in 1 .. Len(tasks) /\ Len(tasks) \in Nat
  BY ElementOfSeq, LenProperties DEF TasksType

LEMMA ChunkRow ==
    ASSUME ChunksType, NEW j \in DOMAIN chunks
    PROVE  chunks[j] \in Chunk /\ j \in 1 .. Len(chunks) /\ Len(chunks) \in Nat
  BY ElementOfSeq, LenProperties DEF ChunksType

LEMMA TypeInvImplies == TypeInv => TypeOK
  <1> SUFFICES ASSUME TypeInv
               PROVE  TypeOK
    OBVIOUS
  <1> USE DEF TypeInv
  <1>1. \A i \in DOMAIN tasks : tasks[i] \in [task_id : TaskIds, is_chunked : BOOLEAN]
    BY TaskRow DEF Task
  <1>2. ASSUME NEW j \in DOMAIN chunks
        PROVE  ChunkType(chunks[j])
    <2>1. chunks[j] \in Chunk
      BY ChunkRow
    <2>2. \A c \in Chunk : ChunkType(c)
      BY BoundsAssumption DEF Chunk, ChunkType
    <2> QED
      BY <2>1, <2>2
  <1>3. ASSUME NEW w \in Clients
        PROVE  IF at[w] = "get" THEN chunk[w] = NoChunk
               ELSE chunk[w].task_id \in TaskIds /\ chunk[w].chunk_index \in 0 .. MaxSize - 1
    BY DEF ClientsType, Copy
  <1> QED
    BY <1>1, <1>2, <1>3 DEF TasksType, ChunksType, ClientsType, HistoryType, TypeOK

\* What the actions do to the table of chunks.
Kept(j) ==
    /\ Id(chunks'[j]) = Id(chunks[j])
    /\ chunks'[j].task_id = chunks[j].task_id
    /\ chunks'[j].chunk_index = chunks[j].chunk_index
    /\ chunks'[j].total_chunks = chunks[j].total_chunks

LEMMA AssignRow ==
    ASSUME ChunksType, NEW j \in DOMAIN chunks, NEW e \in Employees,
           chunks' = [chunks EXCEPT ![j].assigned_employee = e]
    PROVE  /\ ChunksType' /\ DOMAIN chunks' = DOMAIN chunks
           /\ \A k \in DOMAIN chunks :
                 /\ Kept(k)
                 /\ chunks'[k].is_completed = chunks[k].is_completed
                 /\ chunks'[k].assigned_employee =
                       IF k = j THEN e ELSE chunks[k].assigned_employee
  <1> DEFINE c == [chunks[j] EXCEPT !.assigned_employee = e]
  <1>1. chunks[j] \in Chunk /\ j \in 1 .. Len(chunks) /\ Len(chunks) \in Nat
    BY ChunkRow
  <1>2. /\ c \in Chunk
        /\ c.task_id = chunks[j].task_id /\ c.chunk_index = chunks[j].chunk_index
        /\ c.total_chunks = chunks[j].total_chunks
        /\ c.is_completed = chunks[j].is_completed /\ c.assigned_employee = e
    BY <1>1 DEF Chunk
  <1>3. chunks' = [chunks EXCEPT ![j] = c]
    OBVIOUS
  <1> HIDE DEF c
  <1>4. /\ chunks' \in Seq(Chunk) /\ Len(chunks') = Len(chunks)
        /\ \A k \in 1 .. Len(chunks) : chunks'[k] = IF k = j THEN c ELSE chunks[k]
    BY <1>1, <1>2, <1>3, ExceptSeq DEF ChunksType
  <1>5. DOMAIN chunks' = 1 .. Len(chunks) /\ DOMAIN chunks = 1 .. Len(chunks)
    BY <1>4, LenProperties DEF ChunksType
  <1> QED
    BY <1>2, <1>4, <1>5 DEF ChunksType, Kept, Id

LEMMA CompleteRow ==
    ASSUME ChunksType, NEW j \in DOMAIN chunks,
           chunks' = [chunks EXCEPT ![j].is_completed = TRUE]
    PROVE  /\ ChunksType' /\ DOMAIN chunks' = DOMAIN chunks
           /\ \A k \in DOMAIN chunks :
                 /\ Kept(k)
                 /\ chunks'[k].assigned_employee = chunks[k].assigned_employee
                 /\ k # j => chunks'[k].is_completed = chunks[k].is_completed
           /\ chunks'[j].is_completed
  <1> DEFINE c == [chunks[j] EXCEPT !.is_completed = TRUE]
  <1>1. chunks[j] \in Chunk /\ j \in 1 .. Len(chunks) /\ Len(chunks) \in Nat
    BY ChunkRow
  <1>2. /\ c \in Chunk
        /\ c.task_id = chunks[j].task_id /\ c.chunk_index = chunks[j].chunk_index
        /\ c.total_chunks = chunks[j].total_chunks
        /\ c.assigned_employee = chunks[j].assigned_employee /\ c.is_completed
    BY <1>1 DEF Chunk
  <1>3. chunks' = [chunks EXCEPT ![j] = c]
    OBVIOUS
  <1> HIDE DEF c
  <1>4. /\ chunks' \in Seq(Chunk) /\ Len(chunks') = Len(chunks)
        /\ \A k \in 1 .. Len(chunks) : chunks'[k] = IF k = j THEN c ELSE chunks[k]
    <2>1. chunks \in Seq(Chunk) /\ c \in Chunk
      BY <1>2 DEF ChunksType
    <2>2. /\ [chunks EXCEPT ![j] = c] \in Seq(Chunk)
          /\ Len([chunks EXCEPT ![j] = c]) = Len(chunks)
          /\ \A k \in 1 .. Len(chunks) :
                [chunks EXCEPT ![j] = c][k] = IF k = j THEN c ELSE chunks[k]
      BY <1>1, <2>1, ExceptSeq
    <2> QED
      BY <1>3, <2>2
  <1>5. DOMAIN chunks' = 1 .. Len(chunks) /\ DOMAIN chunks = 1 .. Len(chunks)
    BY <1>4, LenProperties DEF ChunksType
  <1> QED
    BY <1>2, <1>4, <1>5 DEF ChunksType, Kept, Id

LEMMA CutRows ==
    ASSUME TypeInv, NEW i \in DOMAIN tasks, NEW total \in 0 .. MaxSize,
           create_chunks(i, total)
    PROVE  LET t == tasks[i].task_id
               n == Len(chunks)
           IN  /\ t \in TaskIds /\ n \in Nat /\ Fitting(total) \in 0 .. total
               /\ ChunksType' /\ DOMAIN chunks = 1 .. n
               /\ DOMAIN chunks' = 1 .. n + Fitting(total)
               /\ \A j \in 1 .. n : chunks'[j] = chunks[j]
               /\ \A j \in n + 1 .. n + Fitting(total) :
                     /\ chunks'[j].task_id = t /\ chunks'[j].chunk_index = j - n - 1
                     /\ chunks'[j].total_chunks = total
                     /\ chunks'[j].assigned_employee = Nobody
                     /\ chunks'[j].is_completed = FALSE
  <1> DEFINE t == tasks[i].task_id
             n == Len(chunks)
             f == Fitting(total)
             new == Cut(t, total)
  <1>1. t \in TaskIds /\ n \in Nat /\ n <= MaxChunks /\ chunks \in Seq(Chunk)
        /\ DOMAIN chunks = 1 .. n
    BY TaskRow, LenProperties DEF TypeInv, ChunksType, Task
  <1>2. f \in 0 .. total /\ n + f <= MaxChunks
    BY <1>1, BoundsAssumption DEF Fitting
  <1> HIDE DEF t, n, f
  <1>3. new = [k \in 1 .. f |-> [task_id |-> t, chunk_index |-> k - 1, total_chunks |-> total,
                                 assigned_employee |-> Nobody, is_completed |-> FALSE]]
    BY DEF Cut, f
  <1>4. ASSUME NEW k \in 1 .. f
        PROVE  /\ new[k] \in Chunk
               /\ new[k].task_id = t /\ new[k].chunk_index = k - 1
               /\ new[k].total_chunks = total
               /\ new[k].assigned_employee = Nobody /\ new[k].is_completed = FALSE
    <2>1. new[k] = [task_id |-> t, chunk_index |-> k - 1, total_chunks |-> total,
                    assigned_employee |-> Nobody, is_completed |-> FALSE]
      BY <1>3
    <2>2. k - 1 \in Nat /\ k - 1 < total
      BY <1>2
    <2> HIDE DEF new
    <2> QED
      BY <1>1, <2>1, <2>2 DEF Chunk
  <1>5. new \in [1 .. f -> Chunk]
    BY <1>3, <1>4
  <1> HIDE DEF new
  <1>6. new \in Seq(Chunk) /\ Len(new) = f
    BY <1>2, <1>5
  <1>7. chunks' = chunks \o new
    BY DEF create_chunks, new, t
  <1>8. /\ chunks' \in Seq(Chunk) /\ Len(chunks') = n + f
        /\ \A j \in 1 .. n + f : chunks'[j] = IF j <= n THEN chunks[j] ELSE new[j - n]
    BY <1>1, <1>6, <1>7, ConcatProperties DEF n
  <1>9. DOMAIN chunks' = 1 .. n + f
    BY <1>8, LenProperties
  <1>10. \A j \in 1 .. n : chunks'[j] = chunks[j]
    BY <1>1, <1>2, <1>8
  <1>11. ASSUME NEW j \in n + 1 .. n + f
         PROVE  /\ chunks'[j].task_id = t /\ chunks'[j].chunk_index = j - n - 1
                /\ chunks'[j].total_chunks = total
                /\ chunks'[j].assigned_employee = Nobody
                /\ chunks'[j].is_completed = FALSE
    <2>1. j - n \in 1 .. f /\ chunks'[j] = new[j - n]
      BY <1>1, <1>2, <1>8
    <2> QED
      BY <2>1, <1>4
  <1> QED
    BY <1>1, <1>2, <1>8, <1>9, <1>10, <1>11 DEF ChunksType, t, n, f

LEMMA RemoveRows ==
    ASSUME TypeInv, NEW t \in TaskIds, remove_task(t)
    PROVE  /\ TasksType' /\ ChunksType'
           /\ DOMAIN tasks = 1 .. Len(tasks) /\ DOMAIN tasks' = 1 .. Len(tasks')
           /\ DOMAIN chunks = 1 .. Len(chunks) /\ DOMAIN chunks' = 1 .. Len(chunks')
           /\ Len(chunks) \in Nat /\ Len(chunks') \in Nat
           /\ \E h : Picks(tasks, t, tasks', h, Len(tasks))
           /\ \E h : Picks(chunks, t, chunks', h, Len(chunks))
  <1>1. tasks' = Without(tasks, t) /\ chunks' = Without(chunks, t)
    BY DEF remove_task, Others
  <1>2. tasks \in Seq(Task) /\ Len(tasks) <= MaxTasks
        /\ chunks \in Seq(Chunk) /\ Len(chunks) <= MaxChunks
    BY DEF TypeInv, TasksType, ChunksType
  <1>3. /\ tasks' \in Seq(Task) /\ Len(tasks') <= Len(tasks)
        /\ \E h : Picks(tasks, t, tasks', h, Len(tasks))
    BY <1>1, <1>2, WithoutPicks
  <1>4. /\ chunks' \in Seq(Chunk) /\ Len(chunks') <= Len(chunks)
        /\ \E h : Picks(chunks, t, chunks', h, Len(chunks))
    BY <1>1, <1>2, WithoutPicks
  <1>5. /\ DOMAIN tasks = 1 .. Len(tasks) /\ DOMAIN tasks' = 1 .. Len(tasks')
        /\ DOMAIN chunks = 1 .. Len(chunks) /\ DOMAIN chunks' = 1 .. Len(chunks')
        /\ Len(tasks) \in Nat /\ Len(tasks') \in Nat
        /\ Len(chunks) \in Nat /\ Len(chunks') \in Nat
    BY <1>2, <1>3, <1>4, LenProperties
  <1>6. Len(tasks') <= MaxTasks /\ Len(chunks') <= MaxChunks
    BY <1>2, <1>3, <1>4, <1>5, BoundsAssumption
  <1> QED
    BY <1>3, <1>4, <1>5, <1>6 DEF TasksType, ChunksType

LEMMA AddRow ==
    ASSUME TypeInv, NEW t \in TaskIds, NEW chunked \in BOOLEAN, add_task(t, chunked)
    PROVE  /\ TasksType'
           /\ DOMAIN tasks = 1 .. Len(tasks) /\ DOMAIN tasks' = 1 .. Len(tasks) + 1
           /\ Len(tasks) \in Nat
           /\ \A i \in 1 .. Len(tasks) : tasks'[i] = tasks[i]
           /\ tasks'[Len(tasks) + 1].task_id = t
  <1> DEFINE new == [task_id |-> t, is_chunked |-> chunked]
  <1>1. new \in Task /\ new.task_id = t
    BY DEF Task
  <1> HIDE DEF new
  <1>2. tasks \in Seq(Task) /\ Len(tasks) \in Nat /\ Len(tasks) < MaxTasks
    BY LenProperties DEF TypeInv, TasksType, add_task
  <1>3. tasks' = Append(tasks, new)
    BY DEF add_task, new
  <1>4. /\ tasks' \in Seq(Task) /\ Len(tasks') = Len(tasks) + 1
        /\ \A i \in 1 .. Len(tasks) : tasks'[i] = tasks[i]
        /\ tasks'[Len(tasks) + 1] = new
    BY <1>1, <1>2, <1>3, AppendProperties
  <1>5. DOMAIN tasks = 1 .. Len(tasks) /\ DOMAIN tasks' = 1 .. Len(tasks) + 1
    BY <1>2, <1>4, LenProperties
  <1> QED
    BY <1>1, <1>2, <1>4, <1>5, BoundsAssumption DEF TasksType

LEMMA ChunkedRow ==
    ASSUME TypeInv, NEW i \in DOMAIN tasks,
           tasks' = [tasks EXCEPT ![i].is_chunked = TRUE]
    PROVE  /\ TasksType' /\ DOMAIN tasks' = DOMAIN tasks
           /\ \A k \in DOMAIN tasks : tasks'[k].task_id = tasks[k].task_id
           /\ \A k \in DOMAIN tasks : tasks'[k].is_chunked <=> k = i \/ tasks[k].is_chunked
  <1> DEFINE r == [tasks[i] EXCEPT !.is_chunked = TRUE]
  <1>1. tasks[i] \in Task /\ i \in 1 .. Len(tasks) /\ Len(tasks) \in Nat
    BY TaskRow DEF TypeInv
  <1>2. r \in Task /\ r.task_id = tasks[i].task_id /\ r.is_chunked = TRUE
    BY <1>1 DEF Task
  <1>3. tasks' = [tasks EXCEPT ![i] = r]
    OBVIOUS
  <1> HIDE DEF r
  <1>4. tasks \in Seq(Task) /\ Len(tasks) <= MaxTasks
    BY DEF TypeInv, TasksType
  <1>5. /\ [tasks EXCEPT ![i] = r] \in Seq(Task)
        /\ Len([tasks EXCEPT ![i] = r]) = Len(tasks)
        /\ \A k \in 1 .. Len(tasks) : [tasks EXCEPT ![i] = r][k] = IF k = i THEN r ELSE tasks[k]
    BY <1>1, <1>2, <1>4, ExceptSeq
  <1>6. DOMAIN tasks' = 1 .. Len(tasks) /\ DOMAIN tasks = 1 .. Len(tasks)
    BY <1>3, <1>4, <1>5, LenProperties
  <1>7. TasksType'
    BY <1>3, <1>4, <1>5 DEF TasksType
  <1>8. \A k \in DOMAIN tasks : tasks'[k] = IF k = i THEN r ELSE tasks[k]
    BY <1>3, <1>5, <1>6
  <1>9. \A k \in DOMAIN tasks : tasks'[k].task_id = tasks[k].task_id
    BY <1>2, <1>8
  <1>10. ASSUME NEW k \in DOMAIN tasks
         PROVE  tasks'[k].is_chunked <=> k = i \/ tasks[k].is_chunked
    <2>1. CASE k = i
      BY <2>1, <1>2, <1>8
    <2>2. CASE k # i
      BY <2>2, <1>8
    <2> QED
      BY <2>1, <2>2
  <1> QED
    BY <1>6, <1>7, <1>9, <1>10

LEMMA InitType == Init => TypeInv
  <1> SUFFICES ASSUME Init
               PROVE  TypeInv
    OBVIOUS
  <1>1. TasksType /\ ChunksType
    BY BoundsAssumption, EmptySeq DEF Init, TasksType, ChunksType
  <1>2. ClientsType
    BY DEF Init, ClientsType
  <1>3. HistoryType /\ current_policy \in Policies
    BY BoundsAssumption DEF Init, HistoryType, Policies
  <1> QED
    BY <1>1, <1>2, <1>3 DEF TypeInv

\* The rest of the state when only the library's tables change.
LEMMA SameClients ==
    ASSUME TypeInv, UNCHANGED <<current_policy, clients>>, TasksType', ChunksType', HistoryType'
    PROVE  TypeInv'
  BY DEF TypeInv, ClientsType, clients

LEMMA SameLibrary ==
    ASSUME TypeInv, UNCHANGED library, ClientsType', HistoryType'
    PROVE  TypeInv'
  BY DEF TypeInv, TasksType, ChunksType, library

LEMMA SameHistory ==
    ASSUME HistoryType, UNCHANGED history
    PROVE  HistoryType'
  BY DEF HistoryType, history

LEMMA DoneType ==
    ASSUME ClientsType, NEW w \in Clients, Done(w)
    PROVE  ClientsType'
  BY DEF ClientsType, Done

LEMMA ReadyType ==
    ASSUME ClientsType, NEW w \in Clients, at[w] # "get"
    PROVE  chunk[w] \in Copy
  BY DEF ClientsType

LEMMA AddType ==
    ASSUME TypeInv, NEW t \in TaskIds, NEW chunked \in BOOLEAN, add_task(t, chunked)
    PROVE  TypeInv'
  <1>1. TasksType'
    BY AddRow
  <1>2. ChunksType' /\ UNCHANGED <<current_policy, clients>>
    BY DEF add_task, TypeInv, ChunksType
  <1>3. HistoryType'
    BY BoundsAssumption DEF add_task, TypeInv, HistoryType
  <1> QED
    BY <1>1, <1>2, <1>3, SameClients

LEMMA RemoveType ==
    ASSUME TypeInv, NEW t \in TaskIds, remove_task(t)
    PROVE  TypeInv'
  <1>1. TasksType' /\ ChunksType'
    BY RemoveRows
  <1>2. UNCHANGED <<current_policy, clients>>
    BY DEF remove_task
  <1>3. HistoryType'
    BY DEF remove_task, TypeInv, HistoryType
  <1> QED
    BY <1>1, <1>2, <1>3, SameClients

LEMMA CreateType ==
    ASSUME TypeInv, NEW i \in DOMAIN tasks, NEW total \in 0 .. MaxSize, create_chunks(i, total)
    PROVE  TypeInv'
  <1>1. ChunksType' /\ tasks[i].task_id \in TaskIds
    BY CutRows
  <1>2. TasksType'
    <2>1. tasks' = [tasks EXCEPT ![i].is_chunked = TRUE]
      BY DEF create_chunks
    <2> QED
      BY <2>1, ChunkedRow
  <1>3. UNCHANGED <<current_policy, clients>>
    BY DEF create_chunks
  <1>4. HistoryType'
    BY <1>1 DEF create_chunks, TypeInv, HistoryType
  <1> QED
    BY <1>1, <1>2, <1>3, <1>4, SameClients

LEMMA GetType ==
    ASSUME TypeInv, NEW w \in Clients, get_next_chunk(w)
    PROVE  TypeInv'
  <1>1. PICK j \in DOMAIN chunks :
           chunk' = [chunk EXCEPT ![w] = [task_id     |-> chunks[j].task_id,
                                          chunk_index |-> chunks[j].chunk_index]]
    BY DEF get_next_chunk
  <1>2. [task_id |-> chunks[j].task_id, chunk_index |-> chunks[j].chunk_index] \in Copy
    <2>1. chunks[j] \in Chunk
      BY ChunkRow DEF TypeInv
    <2>2. \A c \in Chunk : [task_id |-> c.task_id, chunk_index |-> c.chunk_index] \in Copy
      BY BoundsAssumption DEF Chunk, Copy
    <2> QED
      BY <2>1, <2>2
  <1>3. ClientsType'
    <2> DEFINE new == [task_id |-> chunks[j].task_id, chunk_index |-> chunks[j].chunk_index]
    <2>1. chunk' = [chunk EXCEPT ![w] = new] /\ new \in Copy
      BY <1>1, <1>2
    <2> HIDE DEF new
    <2> QED
      BY <2>1 DEF get_next_chunk, TypeInv, ClientsType
  <1>4. UNCHANGED library /\ HistoryType'
    BY SameHistory DEF get_next_chunk, TypeInv
  <1> QED
    BY <1>3, <1>4, SameLibrary

LEMMA SelectType ==
    ASSUME TypeInv, NEW w \in Clients, select_best_employee(w)
    PROVE  TypeInv'
  <1>1. ClientsType'
    <2>1. CASE Selects(w)
      <3>1. PICK e \in Employees : employee' = [employee EXCEPT ![w] = e]
        BY <2>1 DEF Selects, Chosen, TypeInv
      <3> QED
        BY <2>1, <3>1 DEF Selects, TypeInv, ClientsType
    <2>2. CASE SelectsNobody(w)
      BY <2>2 DEF SelectsNobody, TypeInv, ClientsType
    <2> QED
      BY <2>1, <2>2 DEF select_best_employee
  <1>2. UNCHANGED library /\ HistoryType'
    BY SameHistory DEF select_best_employee, Selects, SelectsNobody, TypeInv
  <1> QED
    BY <1>1, <1>2, SameLibrary

LEMMA AssignType ==
    ASSUME TypeInv, NEW w \in Clients, assign_chunk(w)
    PROVE  TypeInv'
  <1>1. ChunksType'
    <2>1. CASE \E j \in DOMAIN chunks :
                  chunks' = [chunks EXCEPT ![j].assigned_employee = employee[w]]
      <3>1. employee[w] \in Employees
        BY DEF assign_chunk, TypeInv, ClientsType
      <3> QED
        BY <2>1, <3>1, AssignRow DEF TypeInv
    <2>2. CASE UNCHANGED chunks
      BY <2>2 DEF TypeInv, ChunksType
    <2> QED
      BY <2>1, <2>2 DEF assign_chunk
  <1>2. ClientsType'
    <2>1. CASE Done(w)
      BY <2>1, DoneType DEF TypeInv
    <2>2. CASE at' = [at EXCEPT ![w] = "work"] /\ UNCHANGED <<chunk, employee>>
      BY <2>2 DEF assign_chunk, TypeInv, ClientsType
    <2> QED
      BY <2>1, <2>2 DEF assign_chunk
  <1>3. HistoryType' /\ TasksType' /\ UNCHANGED current_policy
    BY SameHistory DEF assign_chunk, TypeInv, TasksType
  <1> QED
    BY <1>1, <1>2, <1>3 DEF TypeInv

LEMMA MarkType ==
    ASSUME TypeInv, NEW w \in Clients, mark_chunk_completed(w)
    PROVE  TypeInv'
  <1>1. ChunksType'
    <2>1. CASE \E j \in DOMAIN chunks : chunks' = [chunks EXCEPT ![j].is_completed = TRUE]
      BY <2>1, CompleteRow DEF TypeInv
    <2>2. CASE UNCHANGED chunks
      BY <2>2 DEF TypeInv, ChunksType
    <2> QED
      BY <2>1, <2>2 DEF mark_chunk_completed
  <1>2. ClientsType'
    BY DoneType DEF mark_chunk_completed, TypeInv
  <1>3. HistoryType' /\ TasksType' /\ UNCHANGED current_policy
    BY SameHistory DEF mark_chunk_completed, TypeInv, TasksType
  <1> QED
    BY <1>1, <1>2, <1>3 DEF TypeInv

LEMMA NoAnswerType ==
    ASSUME TypeInv, NEW w \in Clients, NoAnswer(w)
    PROVE  TypeInv'
  <1>1. ClientsType'
    BY DoneType DEF NoAnswer, TypeInv
  <1>2. chunk[w] \in Copy
    BY ReadyType DEF NoAnswer, TypeInv
  <1>3. HistoryType'
    BY <1>2 DEF NoAnswer, TypeInv, HistoryType, Copy, Id, ChunkIds
  <1>4. UNCHANGED library
    BY DEF NoAnswer
  <1> QED
    BY <1>1, <1>3, <1>4, SameLibrary

LEMMA RestartType ==
    ASSUME TypeInv, Restart
    PROVE  TypeInv'
  <1>1. tasks' = <<>> /\ chunks' = <<>> /\ current_policy' \in Policies
    BY DEF Restart, init_scheduler, TypeInv, Policies
  <1>2. TasksType' /\ ChunksType'
    BY <1>1, BoundsAssumption, EmptySeq DEF TasksType, ChunksType
  <1>3. Listed \subseteq TaskIds
    BY TaskRow DEF TypeInv, Listed, Task
  <1>4. HistoryType'
    BY <1>3 DEF Restart, TypeInv, HistoryType
  <1>5. ClientsType'
    BY DEF Restart, clients, TypeInv, ClientsType
  <1> QED
    BY <1>1, <1>2, <1>4, <1>5 DEF TypeInv

LEMMA StepType == TypeInv /\ [Next]_vars => TypeInv'
  <1> SUFFICES ASSUME TypeInv, [Next]_vars
               PROVE  TypeInv'
    OBVIOUS
  <1>1. ASSUME NEW t \in TaskIds,
               remove_task(t) \/ \E chunked \in BOOLEAN : add_task(t, chunked)
        PROVE  TypeInv'
    BY <1>1, AddType, RemoveType
  <1>2. ASSUME NEW i \in DOMAIN tasks, NEW total \in 0 .. MaxSize, create_chunks(i, total)
        PROVE  TypeInv'
    BY <1>2, CreateType
  <1>3. ASSUME NEW w \in Clients,
               \/ get_next_chunk(w) \/ select_best_employee(w) \/ assign_chunk(w)
               \/ mark_chunk_completed(w) \/ NoAnswer(w)
        PROVE  TypeInv'
    BY <1>3, GetType, SelectType, AssignType, MarkType, NoAnswerType
  <1>4. ASSUME NEW policy \in Policies, set_scheduling_policy(policy)
        PROVE  TypeInv'
    BY <1>4 DEF set_scheduling_policy, TypeInv, TasksType, ChunksType, ClientsType,
       HistoryType, clients, history
  <1>5. CASE Restart
    BY <1>5, RestartType
  <1>6. CASE UNCHANGED vars
    BY <1>6 DEF vars, library, clients, history, TypeInv, TasksType, ChunksType, ClientsType,
       HistoryType
  <1> QED
    BY <1>1, <1>2, <1>3, <1>4, <1>5, <1>6 DEF Next

\* Types are kept, and no table grows past its array: above all, create_chunks stops
\* at MAX_CHUNKS, and every row a search finds lies in the table.
THEOREM TypeCorrect == Spec => []TypeOK
  <1>1. TypeInv => TypeOK
    BY TypeInvImplies
  <1> QED
    BY <1>1, InitType, StepType, PTL DEF Spec

-----------------------------------------------------------------------------
\* Choosing an employee.
LEMMA MoreOfMore ==
    ASSUME NEW l \in Int, NEW a \in Int, NEW b \in Int, l > 0, a > b
    PROVE  l * a > l * b
  OBVIOUS

LEMMA BusierIsWorse ==
    ASSUME NEW r \in Reports, NEW q \in Reports, NEW left \in Lefts, NEW policy \in Policies,
           policy # "PRIORITY_BASED", policy = "DEADLINE_AWARE" => left > 0,
           [r EXCEPT !.active_tasks = q.active_tasks] = q, r.active_tasks > q.active_tasks
    PROVE  /\ Above(Score(policy, q, left), Score(policy, r, left))
           /\ ~Above(Score(policy, r, left), Score(policy, q, left))
  <1> DEFINE a == r.active_tasks
             b == q.active_tasks
  <1>1. /\ r \in [is_available : BOOLEAN, cpu_usage : Int, memory_usage : Int,
                  active_tasks : Nat]
        /\ q \in [is_available : BOOLEAN, cpu_usage : Int, memory_usage : Int,
                  active_tasks : Nat]
        /\ left \in Int
    BY ReportsAssumption
  <1>2. a \in Nat /\ b \in Nat /\ a > b
    BY <1>1
  <1>3. CASE policy = "LOAD_BALANCED"
    <2>1. q.cpu_usage = r.cpu_usage /\ q.memory_usage = r.memory_usage
      BY <1>1
    <2> DEFINE u == 200 - r.cpu_usage - r.memory_usage
    <2>2. u \in Int
      BY <1>1
    <2>3. /\ Score(policy, r, left) = <<u - 10 * a, 1>>
          /\ Score(policy, q, left) = <<u - 10 * b, 1>>
      BY <1>3, <2>1 DEF Score
    <2> HIDE DEF u, a, b
    <2> QED
      BY <1>2, <2>2, <2>3 DEF Above
  <1>4. CASE policy = "ROUND_ROBIN"
    <2>1. /\ Score(policy, r, left) = <<100 - a, 1>>
          /\ Score(policy, q, left) = <<100 - b, 1>>
      BY <1>4 DEF Score
    <2> HIDE DEF a, b
    <2> QED
      BY <1>2, <2>1 DEF Above
  <1>5. CASE policy = "DEADLINE_AWARE"
    <2>1. /\ Score(policy, r, left) = <<left, a + 1>>
          /\ Score(policy, q, left) = <<left, b + 1>>
      BY <1>5 DEF Score
    <2> HIDE DEF a, b
    <2>2. left * (a + 1) > left * (b + 1)
      BY <1>1, <1>2, <1>5, MoreOfMore
    <2>3. left * (a + 1) \in Int /\ left * (b + 1) \in Int
      BY <1>1, <1>2
    <2>4. ~(left * (b + 1) > left * (a + 1))
      BY <2>2, <2>3
    <2> QED
      BY <2>1, <2>2, <2>4 DEF Above
  <1> QED
    BY <1>3, <1>4, <1>5 DEF Policies

\* Of two employees that differ in their active tasks alone, select_best_employee never
\* takes the busier one, wherever the two are in the array and whoever else is in it, under
\* a policy that counts tasks and before the deadline.
THEOREM BusierIsNeverChosen == Spec => []BusierIsNotChosen
  <1>1. ASSUME TypeInv
        PROVE  BusierIsNotChosen
    <2>1. SUFFICES ASSUME current_policy # "PRIORITY_BASED", BusierChosen[current_policy]
                   PROVE  FALSE
      BY DEF BusierIsNotChosen
    <2>2. current_policy \in Policies
      BY <1>1 DEF TypeInv
    <2> DEFINE policy == current_policy
    <2>3. PICK staff \in Staffs, left \in Lefts, e \in Employees, k \in Employees :
             /\ Best(policy, staff, left, e)
             /\ ~(policy = "DEADLINE_AWARE" /\ left <= 0)
             /\ [staff[e] EXCEPT !.active_tasks = staff[k].active_tasks] = staff[k]
             /\ staff[e].active_tasks > staff[k].active_tasks
      BY <2>1, <2>2 DEF BusierChosen
    <2>4. staff[e] \in Reports /\ staff[k] \in Reports /\ left \in Int
      BY ReportsAssumption DEF Staffs
    <2>5. staff[e].is_available = staff[k].is_available /\ e # k /\ e \in Nat /\ k \in Nat
      BY <2>3, <2>4, ReportsAssumption, BoundsAssumption
    <2>6. /\ Above(Score(policy, staff[k], left), Score(policy, staff[e], left))
          /\ ~Above(Score(policy, staff[e], left), Score(policy, staff[k], left))
      BY <2>1, <2>2, <2>3, <2>4, BusierIsWorse
    <2>7. IF k < e THEN Above(Score(policy, staff[e], left), Score(policy, staff[k], left))
          ELSE ~Above(Score(policy, staff[k], left), Score(policy, staff[e], left))
      BY <2>3, <2>5 DEF Best
    <2> QED
      BY <2>6, <2>7
  <1> QED
    BY <1>1, InitType, StepType, PTL DEF Spec

-----------------------------------------------------------------------------
\* Rows and their names.
TasksOnce == \A i, j \in DOMAIN tasks : tasks[i].task_id = tasks[j].task_id => i = j

Pair(c) == <<c.task_id, c.chunk_index>>
PairsOnce ==
    \A j, k \in DOMAIN chunks :
        Pair(chunks[j]) = Pair(chunks[k]) => j = k \/ chunks[j].task_id \in recut

\* A task that was cut once, with room for all its chunks, has them all.
Whole ==
    \A j \in DOMAIN chunks :
        chunks[j].task_id \notin cut \cup recut =>
            /\ \A k \in DOMAIN chunks : chunks[k].task_id = chunks[j].task_id =>
                                            chunks[k].total_chunks = chunks[j].total_chunks
            /\ \A m \in 0 .. chunks[j].total_chunks - 1 :
                   \E k \in DOMAIN chunks : Pair(chunks[k]) = <<chunks[j].task_id, m>>

TableInv == TasksOnce /\ ChunksHaveTasks /\ PairsOnce /\ Whole

\* The pairs are the same if their parts are.
LEMMA SamePair ==
    ASSUME NEW c, NEW d
    PROVE  /\ Pair(c) = Pair(d) <=> c.task_id = d.task_id /\ c.chunk_index = d.chunk_index
           /\ \A t, m : Pair(c) = <<t, m>> <=> c.task_id = t /\ c.chunk_index = m
  BY DEF Pair

LEMMA KeptTables ==
    ASSUME TableInv, UNCHANGED <<tasks, recut, cut>>, DOMAIN chunks' = DOMAIN chunks,
           \A k \in DOMAIN chunks : Kept(k)
    PROVE  TableInv'
  <1>1. \A k \in DOMAIN chunks : /\ Pair(chunks'[k]) = Pair(chunks[k])
                                 /\ chunks'[k].task_id = chunks[k].task_id
                                 /\ chunks'[k].total_chunks = chunks[k].total_chunks
    BY DEF Kept, Pair
  <1>2. TasksOnce'
    BY DEF TableInv, TasksOnce
  <1>3. ChunksHaveTasks'
    BY <1>1 DEF TableInv, ChunksHaveTasks, Listed
  <1>5. PairsOnce'
    <2>1. ASSUME NEW j \in DOMAIN chunks, NEW k \in DOMAIN chunks,
                 Pair(chunks'[j]) = Pair(chunks'[k])
          PROVE  j = k \/ chunks'[j].task_id \in recut
      BY <1>1, <2>1 DEF TableInv, PairsOnce
    <2> QED
      BY <2>1 DEF PairsOnce
  <1>6. Whole'
    <2>1. ASSUME NEW j \in DOMAIN chunks, chunks'[j].task_id \notin cut \cup recut
          PROVE  /\ \A k \in DOMAIN chunks : chunks'[k].task_id = chunks'[j].task_id =>
                                            chunks'[k].total_chunks = chunks'[j].total_chunks
                 /\ \A m \in 0 .. chunks'[j].total_chunks - 1 :
                        \E k \in DOMAIN chunks : Pair(chunks'[k]) = <<chunks'[j].task_id, m>>
      BY <1>1, <2>1 DEF TableInv, Whole
    <2> QED
      BY <2>1 DEF Whole
  <1> QED
    BY <1>2, <1>3, <1>5, <1>6 DEF TableInv

LEMMA SameTables ==
    ASSUME TableInv, UNCHANGED <<tasks, chunks, recut, cut>>
    PROVE  TableInv'
  BY KeptTables DEF Kept

LEMMA AddTables ==
    ASSUME TypeInv, TableInv, NEW t \in TaskIds, NEW chunked \in BOOLEAN, add_task(t, chunked)
    PROVE  TableInv'
  <1> DEFINE n == Len(tasks)
  <1>1. /\ DOMAIN tasks = 1 .. n /\ DOMAIN tasks' = 1 .. n + 1 /\ n \in Nat
        /\ \A i \in 1 .. n : tasks'[i] = tasks[i]
        /\ tasks'[n + 1].task_id = t
    BY AddRow
  <1> HIDE DEF n
  <1>2. UNCHANGED <<chunks, recut, cut>> /\ t \notin Listed
    BY DEF add_task
  <1>3. \A i \in 1 .. n : tasks[i].task_id # t
    BY <1>1, <1>2 DEF Listed
  <1>4. TasksOnce'
    <2>1. ASSUME NEW i \in 1 .. n + 1, NEW j \in 1 .. n + 1,
                 tasks'[i].task_id = tasks'[j].task_id
          PROVE  i = j
      <3>1. CASE i \in 1 .. n /\ j \in 1 .. n
        BY <1>1, <2>1, <3>1 DEF TableInv, TasksOnce
      <3>2. CASE i = n + 1 \/ j = n + 1
        BY <1>1, <1>3, <2>1, <3>2
      <3> QED
        BY <3>1, <3>2, <1>1
    <2> QED
      BY <1>1, <2>1 DEF TasksOnce
  <1>5. Listed \subseteq Listed'
    BY <1>1 DEF Listed
  <1>6. ChunksHaveTasks'
    BY <1>2, <1>5 DEF TableInv, ChunksHaveTasks
  <1>8. PairsOnce' /\ Whole'
    BY <1>2 DEF TableInv, PairsOnce, Whole
  <1> QED
    BY <1>4, <1>6, <1>8 DEF TableInv

LEMMA RemoveTables ==
    ASSUME TypeInv, TableInv, NEW t \in TaskIds, remove_task(t)
    PROVE  TableInv'
  <1>1. /\ DOMAIN tasks = 1 .. Len(tasks) /\ DOMAIN tasks' = 1 .. Len(tasks')
        /\ DOMAIN chunks = 1 .. Len(chunks) /\ DOMAIN chunks' = 1 .. Len(chunks')
        /\ Len(chunks') \in Nat
    BY RemoveRows
  <1>2. PICK g : Picks(tasks, t, tasks', g, Len(tasks))
    BY RemoveRows
  <1>3. PICK h : Picks(chunks, t, chunks', h, Len(chunks))
    BY RemoveRows
  <1>4. recut' = recut \ {t} /\ cut' = cut \ {t}
    BY DEF remove_task
  <1>5. /\ \A i \in DOMAIN tasks' : /\ g[i] \in DOMAIN tasks /\ tasks'[i] = tasks[g[i]]
                                    /\ tasks[g[i]].task_id # t
        /\ \A i, j \in DOMAIN tasks' : g[i] = g[j] => i = j
        /\ \A i \in DOMAIN tasks : tasks[i].task_id # t => \E k \in DOMAIN tasks' : g[k] = i
    <2>1. \A i, j \in 1 .. Len(tasks') : i < j => g[i] < g[j]
      BY <1>2 DEF Picks
    <2>2. \A i \in 1 .. Len(tasks') : g[i] \in 1 .. Len(tasks)
      BY <1>2 DEF Picks
    <2>3. \A i, j \in 1 .. Len(tasks') : g[i] = g[j] => i = j
      BY <2>1, <2>2
    <2> QED
      BY <1>1, <1>2, <2>2, <2>3 DEF Picks
  <1>6. /\ \A i \in DOMAIN chunks' : /\ h[i] \in DOMAIN chunks /\ chunks'[i] = chunks[h[i]]
                                     /\ chunks[h[i]].task_id # t
        /\ \A i, j \in DOMAIN chunks' : h[i] = h[j] => i = j
        /\ \A j \in DOMAIN chunks : chunks[j].task_id # t => \E i \in DOMAIN chunks' : h[i] = j
    <2>1. \A i, j \in 1 .. Len(chunks') : i < j => h[i] < h[j]
      BY <1>3 DEF Picks
    <2>2. \A i \in 1 .. Len(chunks') : h[i] \in 1 .. Len(chunks)
      BY <1>3 DEF Picks
    <2>3. \A i, j \in 1 .. Len(chunks') : h[i] = h[j] => i = j
      BY <2>1, <2>2
    <2> QED
      BY <1>1, <1>3, <2>2, <2>3 DEF Picks
  <1>7. TasksOnce'
    <2>1. ASSUME NEW i \in DOMAIN tasks', NEW j \in DOMAIN tasks',
                 tasks'[i].task_id = tasks'[j].task_id
          PROVE  i = j
      <3>1. g[i] = g[j]
        BY <1>5, <2>1 DEF TableInv, TasksOnce
      <3> QED
        BY <1>5, <3>1
    <2> QED
      BY <2>1 DEF TasksOnce
  <1>8. ChunksHaveTasks'
    <2>1. ASSUME NEW j \in DOMAIN chunks'
          PROVE  \E i \in DOMAIN tasks' : tasks'[i].task_id = chunks'[j].task_id
      <3>1. PICK k \in DOMAIN tasks : tasks[k].task_id = chunks[h[j]].task_id
        BY <1>6 DEF TableInv, ChunksHaveTasks, Listed
      <3>2. PICK i \in DOMAIN tasks' : g[i] = k
        BY <3>1, <1>5, <1>6
      <3> QED
        BY <3>1, <3>2, <1>5, <1>6
    <2> QED
      BY <2>1 DEF ChunksHaveTasks, Listed
  <1>10. PairsOnce'
    <2>1. ASSUME NEW j \in DOMAIN chunks', NEW k \in DOMAIN chunks',
                 Pair(chunks'[j]) = Pair(chunks'[k])
          PROVE  j = k \/ chunks'[j].task_id \in recut'
      <3>1. h[j] = h[k] \/ chunks[h[j]].task_id \in recut
        BY <1>6, <2>1 DEF TableInv, PairsOnce
      <3> QED
        BY <3>1, <1>4, <1>6
    <2> QED
      BY <2>1 DEF PairsOnce
  <1>11. Whole'
    <2>1. ASSUME NEW j \in DOMAIN chunks', chunks'[j].task_id \notin cut' \cup recut'
          PROVE  /\ \A k \in DOMAIN chunks' : chunks'[k].task_id = chunks'[j].task_id =>
                                            chunks'[k].total_chunks = chunks'[j].total_chunks
                 /\ \A m \in 0 .. chunks'[j].total_chunks - 1 :
                        \E k \in DOMAIN chunks' : Pair(chunks'[k]) = <<chunks'[j].task_id, m>>
      <3>1. h[j] \in DOMAIN chunks /\ chunks[h[j]].task_id \notin cut \cup recut
        BY <1>4, <1>6, <2>1
      <3>2. \A k \in DOMAIN chunks' : chunks'[k].task_id = chunks'[j].task_id =>
                                      chunks'[k].total_chunks = chunks'[j].total_chunks
        BY <1>6, <3>1 DEF TableInv, Whole
      <3>3. ASSUME NEW m \in 0 .. chunks'[j].total_chunks - 1
            PROVE  \E k \in DOMAIN chunks' : Pair(chunks'[k]) = <<chunks'[j].task_id, m>>
        <4>1. PICK i \in DOMAIN chunks : Pair(chunks[i]) = <<chunks[h[j]].task_id, m>>
          BY <1>6, <3>1, <3>3 DEF TableInv, Whole
        <4>2. chunks[i].task_id # t
          BY <4>1, <1>6, SamePair
        <4>3. PICK k \in DOMAIN chunks' : h[k] = i
          BY <4>2, <1>6
        <4> QED
          BY <4>1, <4>3, <1>6
      <3> QED
        BY <3>2, <3>3
    <2> QED
      BY <2>1 DEF Whole
  <1> QED
    BY <1>7, <1>8, <1>10, <1>11 DEF TableInv

LEMMA CreateTables ==
    ASSUME TypeInv, TableInv, NEW i \in DOMAIN tasks, NEW total \in 0 .. MaxSize,
           create_chunks(i, total)
    PROVE  TableInv'
  <1> DEFINE t == tasks[i].task_id
             n == Len(chunks)
             f == Fitting(total)
  <1>1. /\ t \in TaskIds /\ n \in Nat /\ f \in 0 .. total
        /\ ChunksType' /\ DOMAIN chunks = 1 .. n
        /\ DOMAIN chunks' = 1 .. n + f
        /\ \A j \in 1 .. n : chunks'[j] = chunks[j]
        /\ \A j \in n + 1 .. n + f :
              /\ chunks'[j].task_id = t /\ chunks'[j].chunk_index = j - n - 1
              /\ chunks'[j].total_chunks = total
              /\ chunks'[j].assigned_employee = Nobody
              /\ chunks'[j].is_completed = FALSE
    BY CutRows, Zenon
  <1>2. /\ DOMAIN tasks' = DOMAIN tasks
        /\ \A k \in DOMAIN tasks : tasks'[k].task_id = tasks[k].task_id
        /\ \A k \in DOMAIN tasks : tasks'[k].is_chunked <=> k = i \/ tasks[k].is_chunked
    BY ChunkedRow DEF create_chunks
  <1>3. /\ recut' = IF ChunksOf(t) # {} THEN recut \cup {t} ELSE recut
        /\ cut' = IF f < total THEN cut \cup {t} ELSE cut
    BY DEF create_chunks
  <1> HIDE DEF t, n, f
  <1>5. t \notin recut' => \A j \in 1 .. n : chunks[j].task_id # t
    BY <1>1, <1>3 DEF ChunksOf
  <1>6. t \notin cut' => f = total
    BY <1>1, <1>3
  <1>7. recut \subseteq recut' /\ cut \subseteq cut'
    BY <1>3
  <1>8. ASSUME NEW j \in 1 .. n + f
        PROVE  j \in 1 .. n \/ j \in n + 1 .. n + f
    BY <1>1
  <1>9. TasksOnce'
    BY <1>2 DEF TableInv, TasksOnce
  <1>10. ChunksHaveTasks'
    <2>1. ASSUME NEW j \in 1 .. n + f
          PROVE  \E k \in DOMAIN tasks' : tasks'[k].task_id = chunks'[j].task_id
      <3>1. CASE j \in 1 .. n
        BY <3>1, <1>1, <1>2 DEF TableInv, ChunksHaveTasks, Listed
      <3>2. CASE j \in n + 1 .. n + f
        BY <3>2, <1>1, <1>2 DEF t
      <3> QED
        BY <3>1, <3>2, <1>8
    <2> QED
      BY <2>1, <1>1 DEF ChunksHaveTasks, Listed
  <1>12. PairsOnce'
    <2>1. ASSUME NEW j \in 1 .. n + f, NEW k \in 1 .. n + f,
                 Pair(chunks'[j]) = Pair(chunks'[k]), chunks'[j].task_id \notin recut'
          PROVE  j = k
      <3>1. /\ chunks'[j].task_id = chunks'[k].task_id
            /\ chunks'[j].chunk_index = chunks'[k].chunk_index
        BY <2>1, SamePair
      <3>2. CASE j \in 1 .. n /\ k \in 1 .. n
        BY <2>1, <3>2, <1>1, <1>7 DEF TableInv, PairsOnce
      <3>3. CASE j \in n + 1 .. n + f /\ k \in n + 1 .. n + f
        BY <3>1, <3>3, <1>1
      <3>4. CASE j \in 1 .. n /\ k \in n + 1 .. n + f
        BY <2>1, <3>1, <3>4, <1>1, <1>5
      <3>5. CASE j \in n + 1 .. n + f /\ k \in 1 .. n
        BY <2>1, <3>1, <3>5, <1>1, <1>5
      <3> QED
        BY <3>2, <3>3, <3>4, <3>5, <1>8
    <2> QED
      BY <2>1, <1>1 DEF PairsOnce
  <1>13. Whole'
    <2>1. ASSUME NEW j \in 1 .. n + f, chunks'[j].task_id \notin cut' \cup recut'
          PROVE  /\ \A k \in 1 .. n + f : chunks'[k].task_id = chunks'[j].task_id =>
                                          chunks'[k].total_chunks = chunks'[j].total_chunks
                 /\ \A m \in 0 .. chunks'[j].total_chunks - 1 :
                        \E k \in 1 .. n + f : Pair(chunks'[k]) = <<chunks'[j].task_id, m>>
      <3>1. CASE j \in 1 .. n
        <4>1. chunks'[j] = chunks[j] /\ chunks[j].task_id \notin cut \cup recut
          BY <3>1, <2>1, <1>1, <1>7
        <4>2. chunks[j].task_id # t
          BY <3>1, <4>1, <2>1, <1>5
        <4>3. ASSUME NEW k \in 1 .. n + f, chunks'[k].task_id = chunks'[j].task_id
              PROVE  chunks'[k].total_chunks = chunks'[j].total_chunks
          <5>1. k \in 1 .. n
            BY <4>1, <4>2, <4>3, <1>1, <1>8
          <5> QED
            BY <5>1, <3>1, <4>1, <4>3, <1>1 DEF TableInv, Whole
        <4>4. ASSUME NEW m \in 0 .. chunks'[j].total_chunks - 1
              PROVE  \E k \in 1 .. n + f : Pair(chunks'[k]) = <<chunks'[j].task_id, m>>
          <5>1. PICK k \in 1 .. n : Pair(chunks[k]) = <<chunks[j].task_id, m>>
            BY <3>1, <4>1, <4>4, <1>1 DEF TableInv, Whole
          <5>2. k \in 1 .. n + f
            BY <1>1
          <5> QED
            BY <5>1, <5>2, <4>1, <1>1
        <4> QED
          BY <4>3, <4>4
      <3>2. CASE j \in n + 1 .. n + f
        <4>1. chunks'[j].task_id = t /\ chunks'[j].total_chunks = total /\ f = total
          BY <3>2, <2>1, <1>1, <1>6
        <4>2. ASSUME NEW k \in 1 .. n + f, chunks'[k].task_id = chunks'[j].task_id
              PROVE  chunks'[k].total_chunks = chunks'[j].total_chunks
          <5>1. k \in n + 1 .. n + f
            BY <4>1, <4>2, <2>1, <1>1, <1>5, <1>8
          <5> QED
            BY <5>1, <4>1, <1>1
        <4>3. ASSUME NEW m \in 0 .. total - 1
              PROVE  \E k \in 1 .. n + f : Pair(chunks'[k]) = <<t, m>>
          <5> DEFINE k == n + 1 + m
          <5>1. k \in n + 1 .. n + f /\ k \in 1 .. n + f /\ k - n - 1 = m
            BY <4>1, <1>1
          <5>2. chunks'[k].task_id = t /\ chunks'[k].chunk_index = m
            BY <5>1, <1>1
          <5> HIDE DEF k
          <5>3. Pair(chunks'[k]) = <<t, m>>
            BY <5>2 DEF Pair
          <5> QED
            BY <5>1, <5>3
        <4> QED
          BY <4>1, <4>2, <4>3
      <3> QED
        BY <3>1, <3>2, <1>8
    <2> QED
      BY <2>1, <1>1 DEF Whole
  <1> QED
    BY <1>9, <1>10, <1>12, <1>13 DEF TableInv

LEMMA EmptyTables ==
    ASSUME tasks' = <<>>, chunks' = <<>>
    PROVE  TableInv'
  <1>1. DOMAIN tasks' = {} /\ DOMAIN chunks' = {}
    OBVIOUS
  <1> QED
    BY <1>1 DEF TableInv, TasksOnce, ChunksHaveTasks, PairsOnce, Whole

LEMMA StepTables == TypeInv /\ TableInv /\ [Next]_vars => TableInv'
  <1> SUFFICES ASSUME TypeInv, TableInv, [Next]_vars
               PROVE  TableInv'
    OBVIOUS
  <1>1. ASSUME NEW t \in TaskIds,
               remove_task(t) \/ \E chunked \in BOOLEAN : add_task(t, chunked)
        PROVE  TableInv'
    BY <1>1, AddTables, RemoveTables
  <1>2. ASSUME NEW i \in DOMAIN tasks, NEW total \in 0 .. MaxSize, create_chunks(i, total)
        PROVE  TableInv'
    BY <1>2, CreateTables
  <1>3. ASSUME NEW w \in Clients, assign_chunk(w)
        PROVE  TableInv'
    <2>1. UNCHANGED <<tasks, recut, cut>>
      BY <1>3 DEF assign_chunk, history
    <2>2. CASE \E j \in DOMAIN chunks :
                  chunks' = [chunks EXCEPT ![j].assigned_employee = employee[w]]
      <3>1. employee[w] \in Employees
        BY <1>3 DEF assign_chunk, TypeInv, ClientsType
      <3>2. DOMAIN chunks' = DOMAIN chunks /\ \A k \in DOMAIN chunks : Kept(k)
        BY <2>2, <3>1, AssignRow DEF TypeInv
      <3> QED
        BY <2>1, <3>2, KeptTables
    <2>3. CASE UNCHANGED chunks
      BY <2>1, <2>3, SameTables
    <2> QED
      BY <1>3, <2>2, <2>3 DEF assign_chunk
  <1>4. ASSUME NEW w \in Clients, mark_chunk_completed(w)
        PROVE  TableInv'
    <2>1. UNCHANGED <<tasks, recut, cut>>
      BY <1>4 DEF mark_chunk_completed, history
    <2>2. CASE \E j \in DOMAIN chunks : chunks' = [chunks EXCEPT ![j].is_completed = TRUE]
      <3>1. DOMAIN chunks' = DOMAIN chunks /\ \A k \in DOMAIN chunks : Kept(k)
        BY <2>2, CompleteRow DEF TypeInv
      <3> QED
        BY <2>1, <3>1, KeptTables
    <2>3. CASE UNCHANGED chunks
      BY <2>1, <2>3, SameTables
    <2> QED
      BY <1>4, <2>2, <2>3 DEF mark_chunk_completed
  <1>5. ASSUME NEW w \in Clients, get_next_chunk(w) \/ select_best_employee(w) \/ NoAnswer(w)
        PROVE  TableInv'
    BY <1>5, SameTables DEF get_next_chunk, select_best_employee, Selects, SelectsNobody,
       NoAnswer, library, history
  <1>6. ASSUME NEW policy \in Policies, set_scheduling_policy(policy)
        PROVE  TableInv'
    BY <1>6, SameTables DEF set_scheduling_policy, history
  <1>7. CASE Restart
    BY <1>7, EmptyTables DEF Restart, init_scheduler
  <1>8. CASE UNCHANGED vars
    BY <1>8, SameTables DEF vars, library, history
  <1> QED
    BY <1>1, <1>2, <1>3, <1>4, <1>5, <1>6, <1>7, <1>8 DEF Next

LEMMA InitTables == Init => TableInv
  <1> SUFFICES ASSUME Init
               PROVE  TableInv
    OBVIOUS
  <1>1. DOMAIN tasks = {} /\ DOMAIN chunks = {}
    BY DEF Init
  <1> QED
    BY <1>1 DEF TableInv, TasksOnce, ChunksHaveTasks, PairsOnce, Whole

\* No chunk outlives its task, whatever is added, cut and removed in whatever order.
THEOREM ChunksKeepTasks == Spec => []ChunksHaveTasks
  <1>1. TableInv => ChunksHaveTasks
    BY DEF TableInv
  <1> QED
    BY <1>1, InitType, StepType, InitTables, StepTables, PTL DEF Spec

\* What is printed, before it is cut to the length of chunk_id.
Text(x, k) == x \o Append(Infix, k)

LEMMA TextParts ==
    ASSUME NEW x \in TaskIds, NEW k \in Nat
    PROVE  /\ Text(x, k) \in Seq(Symbols \cup Nat)
           /\ Len(Text(x, k)) = Len(x) + Len(Infix) + 1
           /\ \A p \in 1 .. Len(x) : Text(x, k)[p] = x[p]
           /\ \A p \in 1 .. Len(Infix) : Text(x, k)[Len(x) + p] = Infix[p]
           /\ Text(x, k)[Len(x) + Len(Infix) + 1] = k
  <1> DEFINE S == Symbols \cup Nat
             tail == Append(Infix, k)
  <1>1. /\ x \in Seq(S) /\ Infix \in Seq(S) /\ k \in S
        /\ Len(x) \in Nat /\ Len(Infix) \in Nat
    <2>1. \A y \in Seq(Symbols) : y \in Seq(S) /\ Len(y) \in Nat
      OBVIOUS
    <2> QED
      BY <2>1, IdsAssumption
  <1> HIDE DEF S
  <1>2. /\ tail \in Seq(S) /\ Len(tail) = Len(Infix) + 1
        /\ \A p \in 1 .. Len(Infix) : tail[p] = Infix[p]
        /\ tail[Len(Infix) + 1] = k
    BY <1>1, AppendProperties
  <1> HIDE DEF tail
  <1>3. /\ x \o tail \in Seq(S) /\ Len(x \o tail) = Len(x) + Len(tail)
        /\ \A p \in 1 .. Len(x) + Len(tail) :
              (x \o tail)[p] = IF p <= Len(x) THEN x[p] ELSE tail[p - Len(x)]
    BY <1>1, <1>2, ConcatProperties
  <1> DEFINE text == x \o tail
  <1>4. /\ text \in Seq(S) /\ Len(text) = Len(x) + Len(tail)
        /\ \A p \in 1 .. Len(x) + Len(tail) :
              text[p] = IF p <= Len(x) THEN x[p] ELSE tail[p - Len(x)]
    BY <1>3
  <1>5. Text(x, k) = text
    BY DEF Text, tail
  <1> HIDE DEF text
  <1>6. \A p \in 1 .. Len(x) : text[p] = x[p]
    BY <1>1, <1>2, <1>4
  <1>7. ASSUME NEW p \in 1 .. Len(Infix)
        PROVE  text[Len(x) + p] = Infix[p]
    <2>1. Len(x) + p \in 1 .. Len(x) + Len(tail) /\ ~(Len(x) + p <= Len(x))
          /\ Len(x) + p - Len(x) = p
      BY <1>1, <1>2
    <2> QED
      BY <1>2, <1>4, <2>1
  <1>8. text[Len(x) + Len(Infix) + 1] = k
    <2> DEFINE p == Len(x) + Len(Infix) + 1
    <2>1. p \in 1 .. Len(x) + Len(tail) /\ ~(p <= Len(x)) /\ p - Len(x) = Len(Infix) + 1
      BY <1>1, <1>2
    <2> HIDE DEF p
    <2>2. text[p] = k
      BY <1>2, <1>4, <2>1
    <2> QED
      BY <2>2 DEF p
  <1>9. Len(text) = Len(x) + Len(Infix) + 1
    BY <1>1, <1>2, <1>4
  <1> QED
    BY <1>4, <1>5, <1>6, <1>7, <1>8, <1>9 DEF S

\* The chunk_id of a task whose id leaves room for the index is no other's: either both
\* are printed to their end, and what was printed can be read back, or the other one ends
\* within "_chunk_" where this one has its index.
LEMMA FittingIds ==
    ASSUME NEW t \in TaskIds, NEW u \in TaskIds,
           NEW i \in 0 .. MaxSize - 1, NEW m \in 0 .. MaxSize - 1,
           Fits(t), ChunkId[t][i] = ChunkId[u][m]
    PROVE  t = u /\ i = m
  <1> DEFINE S == Symbols \cup Nat
             lt == Len(t)
             lu == Len(u)
             li == Len(Infix)
             it == Text(t, i)
             iu == Text(u, m)
  <1>1. /\ lt \in Nat /\ lu \in Nat /\ li \in Nat /\ IdLength \in Nat
        /\ lu < IdLength /\ i \in Nat /\ m \in Nat /\ t \in Seq(S) /\ u \in Seq(S)
        /\ DOMAIN Infix = 1 .. li
    <2>1. \A x \in Seq(Symbols) : x \in Seq(S) /\ Len(x) \in Nat /\ DOMAIN x = 1 .. Len(x)
      OBVIOUS
    <2> QED
      BY <2>1, IdsAssumption, BoundsAssumption
  <1>2. /\ it \in Seq(S) /\ Len(it) = lt + li + 1
        /\ \A p \in 1 .. lt : it[p] = t[p]
        /\ it[lt + li + 1] = i
    BY <1>1, TextParts
  <1>3. /\ iu \in Seq(S) /\ Len(iu) = lu + li + 1
        /\ \A p \in 1 .. lu : iu[p] = u[p]
        /\ \A p \in 1 .. li : iu[lu + p] = Infix[p]
        /\ iu[lu + li + 1] = m
    BY <1>1, TextParts
  <1>4. /\ ChunkId[t][i] = IF Len(it) <= IdLength THEN it ELSE SubSeq(it, 1, IdLength)
        /\ ChunkId[u][m] = IF Len(iu) <= IdLength THEN iu ELSE SubSeq(iu, 1, IdLength)
    BY DEF ChunkId, Text
  <1>5. lt + li < IdLength
    BY DEF Fits
  <1> HIDE DEF it, iu, S
  <1>6. ChunkId[u][m] = it
    <2>1. ChunkId[t][i] = it
      BY <1>1, <1>2, <1>4, <1>5
    <2> QED
      BY <2>1
  <1>7. CASE lu + li < IdLength
    <2>1. it = iu
      <3>1. Len(iu) <= IdLength
        BY <1>1, <1>3, <1>7
      <3> QED
        BY <1>4, <1>6, <3>1
    <2>2. lt = lu
      BY <1>1, <1>2, <1>3, <2>1
    <2>3. i = m
      BY <1>2, <1>3, <2>1, <2>2
    <2>4. \A p \in 1 .. lt : t[p] = u[p]
      BY <1>2, <1>3, <2>1, <2>2
    <2>5. t = u
      BY <1>1, <2>2, <2>4, SeqEqual
    <2> QED
      BY <2>3, <2>5
  <1>8. CASE ~(lu + li < IdLength)
    <2> DEFINE p == IdLength - lu
    <2>1. p \in 1 .. li /\ lu + p = IdLength
      BY <1>1, <1>8
    <2> HIDE DEF p
    <2>2. Len(iu) > IdLength
      BY <1>1, <1>3, <1>8
    <2>3. it = SubSeq(iu, 1, IdLength)
      <3>1. ~(Len(iu) <= IdLength)
        BY <1>1, <1>3, <1>8
      <3> QED
        BY <1>4, <1>6, <3>1
    <2>4. \A q \in 1 .. IdLength : iu[q] \in S
      BY <1>1, <1>3, <2>2, ElementOfSeq
    <2>5. Len(it) = IdLength /\ it[IdLength] = iu[IdLength]
      <3> HIDE DEF lu, li, lt
      <3>1. 1 \in Int /\ IdLength \in Int /\ 1 <= IdLength /\ IdLength \in 1 .. IdLength - 1 + 1
        BY <1>1
      <3>2. /\ Len(SubSeq(iu, 1, IdLength)) = IF 1 <= IdLength THEN IdLength - 1 + 1 ELSE 0
            /\ \A q \in 1 .. IdLength - 1 + 1 : SubSeq(iu, 1, IdLength)[q] = iu[1 + q - 1]
        BY <2>4, <3>1, SubSeqProperties
      <3>3. Len(it) = IdLength - 1 + 1 /\ it[IdLength] = iu[1 + IdLength - 1]
        BY <2>3, <3>1, <3>2
      <3>4. IdLength - 1 + 1 = IdLength /\ 1 + IdLength - 1 = IdLength
        BY <1>1
      <3> QED
        BY <3>3, <3>4
    <2>6. it[IdLength] = Infix[p]
      BY <1>3, <2>1, <2>5
    <2>7. lt + li + 1 = IdLength
      BY <1>2, <2>5
    <2>8. it[IdLength] = i
      BY <1>2, <2>7
    <2>9. Infix[p] \notin Nat
      BY <1>1, <2>1, IdsAssumption
    <2> QED
      BY <1>1, <2>6, <2>8, <2>9
  <1> QED
    BY <1>7, <1>8

LEMMA RowPair ==
    ASSUME TypeInv, NEW j \in DOMAIN chunks
    PROVE  chunks[j].task_id \in TaskIds /\ chunks[j].chunk_index \in 0 .. MaxSize - 1
  <1>1. \A c \in Chunk : c.task_id \in TaskIds /\ c.chunk_index \in 0 .. MaxSize - 1
    BY BoundsAssumption DEF Chunk
  <1> QED
    BY <1>1, ChunkRow DEF TypeInv

\* Two rows share a chunk_id only if their task was cut again, or its id is so long
\* that chunk_id[64] has no room for the index (task_scheduler.c 140): no other way of
\* adding, cutting and removing tasks, and no other id, makes a search ambiguous.
THEOREM OneRowForAnId == Spec => []IdsNameOneRow
  <1>1. ASSUME TypeInv, TableInv
        PROVE  IdsNameOneRow
    <2>1. SUFFICES ASSUME NEW j \in DOMAIN chunks, NEW k \in DOMAIN chunks,
                          Id(chunks[j]) = Id(chunks[k]), Fits(chunks[j].task_id)
                   PROVE  j = k \/ chunks[j].task_id \in recut
      BY DEF IdsNameOneRow
    <2>2. /\ chunks[j].task_id \in TaskIds /\ chunks[j].chunk_index \in 0 .. MaxSize - 1
          /\ chunks[k].task_id \in TaskIds /\ chunks[k].chunk_index \in 0 .. MaxSize - 1
      BY <1>1, RowPair
    <2>3. /\ chunks[j].task_id = chunks[k].task_id
          /\ chunks[j].chunk_index = chunks[k].chunk_index
      BY <2>1, <2>2, FittingIds DEF Id
    <2>4. Pair(chunks[j]) = Pair(chunks[k])
      BY <2>3 DEF Pair
    <2> QED
      BY <1>1, <2>4 DEF TableInv, PairsOnce
  <1> QED
    BY <1>1, InitType, StepType, InitTables, StepTables, PTL DEF Spec

\* A task cut once, and with room, has as many rows as it says it has chunks.
LEMMA CountChunks ==
    ASSUME TypeInv, TableInv, NEW j \in DOMAIN chunks, chunks[j].task_id \notin cut \cup recut
    PROVE  Cardinality(ChunksOf(chunks[j].task_id)) = chunks[j].total_chunks
  <1> DEFINE t == chunks[j].task_id
             C == ChunksOf(t)
             N == chunks[j].total_chunks
             f == [k \in C |-> chunks[k].chunk_index]
  <1>1. \A k \in DOMAIN chunks : /\ chunks[k].chunk_index \in Nat
                                 /\ chunks[k].total_chunks \in Nat
                                 /\ chunks[k].chunk_index < chunks[k].total_chunks
    <2>1. \A c \in Chunk : /\ c.chunk_index \in Nat /\ c.total_chunks \in Nat
                           /\ c.chunk_index < c.total_chunks
      BY BoundsAssumption DEF Chunk
    <2> QED
      BY <2>1, ChunkRow DEF TypeInv
  <1>2. \A k \in C : k \in DOMAIN chunks /\ chunks[k].task_id = t /\ chunks[k].total_chunks = N
    BY DEF ChunksOf, TableInv, Whole
  <1>3. \A k \in C : chunks[k].chunk_index \in 0 .. N - 1
    BY <1>1, <1>2
  <1>4. ASSUME NEW k \in C, NEW l \in C, chunks[k].chunk_index = chunks[l].chunk_index
        PROVE  k = l
    <2>1. Pair(chunks[k]) = Pair(chunks[l])
      BY <1>2, <1>4, SamePair
    <2> QED
      BY <2>1, <1>2 DEF TableInv, PairsOnce
  <1>5. ASSUME NEW m \in 0 .. N - 1
        PROVE  \E k \in C : chunks[k].chunk_index = m
    <2>1. PICK k \in DOMAIN chunks : Pair(chunks[k]) = <<t, m>>
      BY <1>5 DEF TableInv, Whole
    <2>2. chunks[k].task_id = t /\ chunks[k].chunk_index = m
      BY <2>1, SamePair
    <2> QED
      BY <2>2 DEF ChunksOf
  <1>6. N \in Nat
    BY <1>1
  <1> HIDE DEF C, N, t
  <1>7. f \in [C -> 0 .. N - 1]
    BY <1>3
  <1>8. f \in Bijection(C, 0 .. N - 1)
    <2>1. \A k, l \in C : f[k] = f[l] => k = l
      BY <1>4
    <2>2. \A m \in 0 .. N - 1 : \E k \in C : f[k] = m
      BY <1>5
    <2> HIDE DEF f
    <2> QED
      BY <1>7, <2>1, <2>2, Fun_IsBij
  <1>9. ExistsBijection(C, 0 .. N - 1)
    BY <1>8 DEF ExistsBijection
  <1>10. ExistsBijection(0 .. N - 1, C)
    BY <1>9, Fun_ExistsBijSymmetric
  <1>11. IsFiniteSet(0 .. N - 1) /\ Cardinality(0 .. N - 1) = N
    BY <1>6, FS_Interval
  <1>12. Cardinality(C) = N
    BY <1>10, <1>11, FS_Bijection
  <1> QED
    BY <1>12 DEF C, N, t

\* What get_pending_tasks leaves out is done to the last chunk by get_chunk_status's
\* count, unless the table was full when the task was cut, or it was cut twice.
THEOREM DoneIsAll == Spec => []DoneMeansAll
  <1>1. ASSUME TypeInv, TableInv
        PROVE  DoneMeansAll
    <2>1. SUFFICES ASSUME NEW i \in DOMAIN tasks, ~Pending(i),
                          tasks[i].task_id \notin cut \cup recut,
                          NEW j \in ChunksOf(tasks[i].task_id)
                   PROVE  ChunkStatus(tasks[i].task_id) =
                             [completed |-> chunks[j].total_chunks,
                              total |-> chunks[j].total_chunks]
      BY DEF DoneMeansAll
    <2> DEFINE t == tasks[i].task_id
    <2>2. j \in DOMAIN chunks /\ chunks[j].task_id = t
      BY DEF ChunksOf
    <2>3. \A k \in ChunksOf(t) : chunks[k].is_completed
      BY <2>1 DEF Pending, Incomplete
    <2>4. {k \in ChunksOf(t) : chunks[k].is_completed} = ChunksOf(t)
      BY <2>3
    <2>5. Cardinality(ChunksOf(t)) = chunks[j].total_chunks
      BY <1>1, <2>1, <2>2, CountChunks
    <2> QED
      BY <2>4, <2>5 DEF ChunkStatus
  <1> QED
    BY <1>1, InitType, StepType, InitTables, StepTables, PTL DEF Spec

-----------------------------------------------------------------------------
\* What a client holds is still in the table and, once it has assigned it, assigned,
\* unless a task with a chunk of that chunk_id was removed since.
Holds(w) == at[w] # "get" /\ Id(chunk[w]) \notin Gone

Present == \A w \in Clients :
    Holds(w) => \E j \in DOMAIN chunks : Id(chunks[j]) = Id(chunk[w])

Assigned == \A w \in Clients :
    Holds(w) /\ at[w] = "work" =>
        \A j \in DOMAIN chunks : Row(Id(chunk[w]), j) => chunks[j].assigned_employee # Nobody

ClientInv == Present /\ Assigned /\ CompletedWasAssigned

LEMMA GoneGrows == reused \subseteq reused' => Gone \subseteq Gone'
  BY DEF Gone

\* A search stops at one row.
LEMMA OneFirstRow ==
    ASSUME ChunksType, NEW id, NEW j \in DOMAIN chunks, NEW k \in DOMAIN chunks,
           Row(id, j), Row(id, k)
    PROVE  j = k
  <1>1. j \in Nat /\ k \in Nat /\ j >= 1 /\ k >= 1
    <2>1. j \in 1 .. Len(chunks) /\ k \in 1 .. Len(chunks) /\ Len(chunks) \in Nat
      BY ChunkRow
    <2> QED
      BY <2>1
  <1>2. ~(j < k)
    <2>1. j < k => j \in 1 .. k - 1
      BY <1>1
    <2> QED
      BY <2>1 DEF Row
  <1>3. ~(k < j)
    <2>1. k < j => k \in 1 .. j - 1
      BY <1>1
    <2> QED
      BY <2>1 DEF Row
  <1> QED
    BY <1>1, <1>2, <1>3

\* Where a search of rows stops.
First(rows, id, j) == Id(rows[j]) = id /\ \A k \in 1 .. j - 1 : Id(rows[k]) # id

\* As long as rows keep their names, a search stops where it did.
LEMMA SameFirstRow ==
    ASSUME ChunksType, \A k \in DOMAIN chunks : Kept(k), NEW id, NEW j \in DOMAIN chunks
    PROVE  First(chunks', id, j) <=> First(chunks, id, j)
  <1>1. j \in 1 .. Len(chunks) /\ Len(chunks) \in Nat /\ DOMAIN chunks = 1 .. Len(chunks)
    BY ChunkRow, LenProperties DEF ChunksType
  <1>2. \A k \in 1 .. j : Id(chunks'[k]) = Id(chunks[k])
    BY <1>1 DEF Kept
  <1> QED
    BY <1>1, <1>2 DEF First

\* The rows keep their names and lose nothing; clients hold no more than before, and
\* come to their work with a chunk that is assigned.
LEMMA KeptClients ==
    ASSUME TypeInv, ClientInv, DOMAIN chunks' = DOMAIN chunks, reused \subseteq reused',
           \A k \in DOMAIN chunks : Kept(k),
           \A k \in DOMAIN chunks :
              /\ chunks[k].assigned_employee # Nobody => chunks'[k].assigned_employee # Nobody
              /\ chunks'[k].is_completed =>
                    \/ chunks[k].is_completed
                    \/ chunks[k].assigned_employee # Nobody \/ Id(chunks[k]) \in Gone,
           \A w \in Clients : at'[w] # "get" => at[w] # "get" /\ chunk'[w] = chunk[w],
           \A w \in Clients : at'[w] = "work" =>
              \/ at[w] = "work"
              \/ \A j \in DOMAIN chunks : First(chunks', Id(chunk'[w]), j) =>
                                             chunks'[j].assigned_employee # Nobody
    PROVE  ClientInv'
  <1>1. ChunksType
    BY DEF TypeInv
  <1>2. \A k \in DOMAIN chunks : Id(chunks'[k]) = Id(chunks[k])
                                 /\ chunks'[k].task_id = chunks[k].task_id
    BY DEF Kept
  <1>g. Gone \subseteq Gone'
    BY GoneGrows
  <1>3. \A w \in Clients : Holds(w)' => Holds(w) /\ chunk'[w] = chunk[w]
    BY <1>g DEF Holds
  <1>4. Present'
    <2>1. ASSUME NEW w \in Clients, Holds(w)'
          PROVE  \E j \in DOMAIN chunks : Id(chunks'[j]) = Id(chunk'[w])
      BY <2>1, <1>2, <1>3 DEF ClientInv, Present
    <2> QED
      BY <2>1 DEF Present
  <1>5. Assigned'
    <2>1. ASSUME NEW w \in Clients, Holds(w)', at'[w] = "work",
                 NEW j \in DOMAIN chunks, First(chunks', Id(chunk'[w]), j)
          PROVE  chunks'[j].assigned_employee # Nobody
      <3>1. Holds(w) /\ chunk'[w] = chunk[w]
        BY <2>1, <1>3
      <3>2. First(chunks', Id(chunk[w]), j)
        BY <2>1, <3>1
      <3>3. First(chunks, Id(chunk[w]), j)
        BY <3>2, <1>1, SameFirstRow
      <3>4. CASE at[w] = "work"
        BY <3>1, <3>3, <3>4 DEF ClientInv, Assigned, Row, First
      <3>5. CASE at[w] # "work"
        BY <2>1, <3>1, <3>2, <3>5
      <3> QED
        BY <3>4, <3>5
    <2> QED
      BY <2>1 DEF Assigned, Row, First
  <1>6. CompletedWasAssigned'
    <2>1. ASSUME NEW j \in DOMAIN chunks, chunks'[j].is_completed
          PROVE  chunks'[j].assigned_employee # Nobody \/ Id(chunks'[j]) \in Gone'
      BY <2>1, <1>2, <1>g DEF ClientInv, CompletedWasAssigned
    <2> QED
      BY <2>1 DEF CompletedWasAssigned
  <1> QED
    BY <1>4, <1>5, <1>6 DEF ClientInv

LEMMA SameChunksClients ==
    ASSUME TypeInv, ClientInv, UNCHANGED <<chunks, reused>>,
           \A w \in Clients : at'[w] # "get" => at[w] # "get" /\ chunk'[w] = chunk[w],
           \A w \in Clients : at'[w] = "work" => at[w] = "work"
    PROVE  ClientInv'
  <1>1. \A k \in DOMAIN chunks : Kept(k)
    BY DEF Kept
  <1> QED
    BY <1>1, KeptClients DEF ClientInv, CompletedWasAssigned

LEMMA AssignClients ==
    ASSUME TypeInv, ClientInv, NEW w \in Clients, assign_chunk(w)
    PROVE  ClientInv'
  <1>1. reused' = reused /\ at[w] = "assign"
    BY DEF assign_chunk, history
  <1>2. CASE \E j \in DOMAIN chunks :
                /\ Row(Id(chunk[w]), j)
                /\ chunks' = [chunks EXCEPT ![j].assigned_employee = employee[w]]
    <2>1. PICK j \in DOMAIN chunks :
                /\ Row(Id(chunk[w]), j)
                /\ chunks' = [chunks EXCEPT ![j].assigned_employee = employee[w]]
      BY <1>2
    <2>2. employee[w] \in Employees /\ employee[w] # Nobody
      BY <1>1, NobodyAssumption DEF TypeInv, ClientsType
    <2>3. /\ DOMAIN chunks' = DOMAIN chunks
          /\ \A k \in DOMAIN chunks :
                /\ Kept(k)
                /\ chunks'[k].is_completed = chunks[k].is_completed
                /\ chunks'[k].assigned_employee =
                       IF k = j THEN employee[w] ELSE chunks[k].assigned_employee
      BY <2>1, <2>2, AssignRow DEF TypeInv
    <2>4. \A v \in Clients : at'[v] # "get" => at[v] # "get" /\ chunk'[v] = chunk[v]
      BY <1>1 DEF assign_chunk, Done, TypeInv, ClientsType
    <2>5. ASSUME NEW v \in Clients, at'[v] = "work", at[v] # "work",
                 NEW k \in DOMAIN chunks, First(chunks', Id(chunk'[v]), k)
          PROVE  chunks'[k].assigned_employee # Nobody
      <3>1. v = w /\ chunk'[v] = chunk[w]
        BY <2>4, <2>5 DEF assign_chunk, Done, TypeInv, ClientsType
      <3>2. First(chunks, Id(chunk[w]), k)
        BY <2>3, <2>5, <3>1, SameFirstRow DEF TypeInv
      <3>3. k = j
        BY <2>1, <3>2, OneFirstRow DEF TypeInv, Row, First
      <3> QED
        BY <2>2, <2>3, <3>3
    <2> QED
      BY <1>1, <2>2, <2>3, <2>4, <2>5, KeptClients
  <1>3. CASE Done(w) /\ UNCHANGED chunks
    <2>1. \A v \in Clients : /\ at'[v] # "get" => at[v] # "get" /\ chunk'[v] = chunk[v]
                             /\ at'[v] = "work" => at[v] = "work"
      BY <1>3 DEF Done, TypeInv, ClientsType
    <2> QED
      BY <1>1, <1>3, <2>1, SameChunksClients
  <1> QED
    BY <1>2, <1>3 DEF assign_chunk

LEMMA MarkClients ==
    ASSUME TypeInv, ClientInv, NEW w \in Clients, mark_chunk_completed(w)
    PROVE  ClientInv'
  <1>1. reused' = reused /\ at[w] = "work"
    BY DEF mark_chunk_completed, history
  <1>2. \A v \in Clients : /\ at'[v] # "get" => at[v] # "get" /\ chunk'[v] = chunk[v]
                           /\ at'[v] = "work" => at[v] = "work"
    BY DEF mark_chunk_completed, Done, TypeInv, ClientsType
  <1>3. CASE \E j \in DOMAIN chunks : /\ Row(Id(chunk[w]), j)
                                      /\ chunks' = [chunks EXCEPT ![j].is_completed = TRUE]
    <2>1. PICK j \in DOMAIN chunks : /\ Row(Id(chunk[w]), j)
                                     /\ chunks' = [chunks EXCEPT ![j].is_completed = TRUE]
      BY <1>3
    <2>2. /\ DOMAIN chunks' = DOMAIN chunks
          /\ \A k \in DOMAIN chunks :
                /\ Kept(k)
                /\ chunks'[k].assigned_employee = chunks[k].assigned_employee
                /\ k # j => chunks'[k].is_completed = chunks[k].is_completed
      BY <2>1, CompleteRow DEF TypeInv
    <2>3. chunks[j].assigned_employee # Nobody \/ Id(chunks[j]) \in Gone
      <3>1. Id(chunks[j]) = Id(chunk[w])
        BY <2>1 DEF Row
      <3>2. CASE Id(chunk[w]) \notin Gone
        BY <1>1, <2>1, <3>2 DEF ClientInv, Assigned, Holds
      <3> QED
        BY <3>1, <3>2
    <2>4. \A k \in DOMAIN chunks : chunks'[k].is_completed =>
                    \/ chunks[k].is_completed
                    \/ chunks[k].assigned_employee # Nobody \/ Id(chunks[k]) \in Gone
      BY <2>2, <2>3
    <2> QED
      BY <1>1, <1>2, <2>2, <2>4, KeptClients
  <1>4. CASE UNCHANGED chunks
    BY <1>1, <1>2, <1>4, SameChunksClients
  <1> QED
    BY <1>3, <1>4 DEF mark_chunk_completed

LEMMA GetClients ==
    ASSUME TypeInv, ClientInv, NEW w \in Clients, get_next_chunk(w)
    PROVE  ClientInv'
  <1>1. UNCHANGED <<chunks, reused>> /\ at[w] = "get"
    BY DEF get_next_chunk, library, history
  <1>2. PICK j \in DOMAIN chunks :
           chunk' = [chunk EXCEPT ![w] = [task_id     |-> chunks[j].task_id,
                                          chunk_index |-> chunks[j].chunk_index]]
    BY DEF get_next_chunk
  <1>3. at'[w] = "select" /\ Id(chunk'[w]) = Id(chunks[j])
    BY <1>2 DEF get_next_chunk, Id, TypeInv, ClientsType
  <1>4. \A v \in Clients : v # w => at'[v] = at[v] /\ chunk'[v] = chunk[v]
    BY <1>2 DEF get_next_chunk, TypeInv, ClientsType
  <1>g. Gone' = Gone
    BY <1>1 DEF Gone
  <1>5. Present'
    BY <1>1, <1>3, <1>4, <1>g DEF ClientInv, Present, Holds
  <1>6. Assigned'
    BY <1>1, <1>3, <1>4, <1>g DEF ClientInv, Assigned, Holds, Row
  <1>7. CompletedWasAssigned'
    BY <1>1, <1>g DEF ClientInv, CompletedWasAssigned
  <1> QED
    BY <1>5, <1>6, <1>7 DEF ClientInv

LEMMA CreateClients ==
    ASSUME TypeInv, ClientInv, NEW i \in DOMAIN tasks, NEW total \in 0 .. MaxSize,
           create_chunks(i, total)
    PROVE  ClientInv'
  <1> DEFINE t == tasks[i].task_id
             n == Len(chunks)
             f == Fitting(total)
  <1>1. /\ t \in TaskIds /\ n \in Nat /\ f \in 0 .. total
        /\ ChunksType' /\ DOMAIN chunks = 1 .. n
        /\ DOMAIN chunks' = 1 .. n + f
        /\ \A j \in 1 .. n : chunks'[j] = chunks[j]
        /\ \A j \in n + 1 .. n + f :
              /\ chunks'[j].task_id = t /\ chunks'[j].chunk_index = j - n - 1
              /\ chunks'[j].total_chunks = total
              /\ chunks'[j].assigned_employee = Nobody
              /\ chunks'[j].is_completed = FALSE
    BY CutRows, Zenon
  <1> HIDE DEF t, n, f
  <1>2. UNCHANGED <<clients, reused>>
    BY DEF create_chunks
  <1>g. Gone' = Gone
    BY <1>2 DEF Gone
  <1>3. \A w \in Clients : (Holds(w)' <=> Holds(w)) /\ chunk'[w] = chunk[w] /\ at'[w] = at[w]
    BY <1>2, <1>g DEF clients, Holds
  <1>4. \A j \in 1 .. n + f : j \in 1 .. n \/ j \in n + 1 .. n + f
    BY <1>1
  <1>5. 1 .. n \subseteq 1 .. n + f
    BY <1>1
  <1>6. Present'
    <2>1. ASSUME NEW w \in Clients, Holds(w)'
          PROVE  \E j \in DOMAIN chunks' : Id(chunks'[j]) = Id(chunk'[w])
      <3>1. PICK j \in 1 .. n : Id(chunks[j]) = Id(chunk[w])
        BY <2>1, <1>1, <1>3 DEF ClientInv, Present
      <3> QED
        BY <3>1, <1>1, <1>3, <1>5
    <2> QED
      BY <2>1 DEF Present
  <1>7. Assigned'
    <2>1. ASSUME NEW w \in Clients, Holds(w)', at'[w] = "work",
                 NEW j \in 1 .. n + f, First(chunks', Id(chunk'[w]), j)
          PROVE  chunks'[j].assigned_employee # Nobody
      <3>1. PICK k \in 1 .. n : Id(chunks[k]) = Id(chunk[w])
        BY <2>1, <1>1, <1>3 DEF ClientInv, Present
      <3>2. j \in 1 .. n
        <4>1. SUFFICES ASSUME j \in n + 1 .. n + f
                       PROVE  FALSE
          BY <1>4
        <4>2. k \in 1 .. j - 1
          BY <1>1, <3>1, <4>1
        <4> QED
          BY <4>2, <2>1, <3>1, <1>1, <1>3 DEF First
      <3>3. 1 .. j - 1 \subseteq 1 .. n
        BY <3>2, <1>1
      <3>4. First(chunks, Id(chunk[w]), j)
        BY <2>1, <3>2, <3>3, <1>1, <1>3 DEF First
      <3>5. chunks[j].assigned_employee # Nobody
        BY <2>1, <3>2, <3>4, <1>1, <1>3 DEF ClientInv, Assigned, Row, First
      <3> QED
        BY <3>2, <3>5, <1>1
    <2> QED
      BY <2>1, <1>1 DEF Assigned, Row, First
  <1>8. CompletedWasAssigned'
    <2>1. ASSUME NEW j \in 1 .. n + f, chunks'[j].is_completed
          PROVE  chunks'[j].assigned_employee # Nobody \/ Id(chunks'[j]) \in Gone'
      <3>1. j \in 1 .. n
        BY <2>1, <1>1, <1>4
      <3> QED
        BY <2>1, <3>1, <1>1, <1>g DEF ClientInv, CompletedWasAssigned
    <2> QED
      BY <2>1, <1>1 DEF CompletedWasAssigned
  <1> QED
    BY <1>6, <1>7, <1>8 DEF ClientInv

LEMMA RemoveClients ==
    ASSUME TypeInv, ClientInv, NEW t \in TaskIds, remove_task(t)
    PROVE  ClientInv'
  <1>1. /\ DOMAIN chunks = 1 .. Len(chunks) /\ DOMAIN chunks' = 1 .. Len(chunks')
        /\ Len(chunks) \in Nat /\ Len(chunks') \in Nat
    BY RemoveRows
  <1>2. PICK h : Picks(chunks, t, chunks', h, Len(chunks))
    BY RemoveRows
  <1>3. reused' = reused \cup {t} /\ UNCHANGED clients
    BY DEF remove_task
  <1>g. Gone \subseteq Gone' /\ \A m \in 0 .. MaxSize - 1 : ChunkId[t][m] \in Gone'
    BY <1>3, GoneGrows DEF Gone
  <1>4. \A w \in Clients : /\ Holds(w)' => Holds(w) /\ Id(chunk[w]) \notin Gone'
                           /\ chunk'[w] = chunk[w] /\ at'[w] = at[w]
    BY <1>3, <1>g DEF clients, Holds
  <1>i. \A j \in DOMAIN chunks : Id(chunks[j]) \notin Gone' => chunks[j].task_id # t
    BY <1>g, RowPair DEF Id
  <1>5. /\ \A i \in DOMAIN chunks' : h[i] \in DOMAIN chunks /\ chunks'[i] = chunks[h[i]]
        /\ \A i, j \in DOMAIN chunks' : i < j => h[i] < h[j]
        /\ \A j \in DOMAIN chunks : chunks[j].task_id # t => \E i \in DOMAIN chunks' : h[i] = j
    BY <1>1, <1>2 DEF Picks
  <1>6. Present'
    <2>1. ASSUME NEW w \in Clients, Holds(w)'
          PROVE  \E i \in DOMAIN chunks' : Id(chunks'[i]) = Id(chunk'[w])
      <3>1. PICK j \in DOMAIN chunks : Id(chunks[j]) = Id(chunk[w])
        BY <2>1, <1>4 DEF ClientInv, Present
      <3>2. chunks[j].task_id # t
        BY <2>1, <3>1, <1>4, <1>i
      <3> QED
        BY <3>1, <3>2, <1>4, <1>5
    <2> QED
      BY <2>1 DEF Present
  <1>7. Assigned'
    <2>1. ASSUME NEW w \in Clients, Holds(w)', at'[w] = "work",
                 NEW i \in DOMAIN chunks', First(chunks', Id(chunk'[w]), i)
          PROVE  chunks'[i].assigned_employee # Nobody
      <3>1. Holds(w) /\ at[w] = "work" /\ Id(chunk[w]) \notin Gone' /\ chunk'[w] = chunk[w]
        BY <2>1, <1>4
      <3>2. Id(chunks[h[i]]) = Id(chunk[w])
        BY <2>1, <3>1, <1>5 DEF First
      <3>3. ASSUME NEW k \in 1 .. h[i] - 1, Id(chunks[k]) = Id(chunk[w])
            PROVE  FALSE
        <4>1. k \in DOMAIN chunks /\ k < h[i] /\ h[i] \in Nat /\ i \in Nat
          BY <1>1, <1>5, <3>3
        <4>2. chunks[k].task_id # t
          BY <3>1, <3>3, <4>1, <1>i
        <4>3. PICK l \in DOMAIN chunks' : h[l] = k
          BY <4>1, <4>2, <1>5
        <4>4. l < i
          <5>1. l \in Nat /\ i \in Nat /\ l # i
            BY <4>1, <4>3, <1>1
          <5>2. ~(i < l)
            BY <4>1, <4>3, <1>5
          <5> QED
            BY <5>1, <5>2
        <4>5. l \in 1 .. i - 1
          BY <4>4, <1>1
        <4> QED
          BY <2>1, <3>1, <3>3, <4>3, <4>5, <1>5 DEF First
      <3>4. First(chunks, Id(chunk[w]), h[i])
        BY <3>2, <3>3 DEF First
      <3>5. chunks[h[i]].assigned_employee # Nobody
        BY <3>1, <3>4, <1>5 DEF ClientInv, Assigned, Row, First
      <3> QED
        BY <3>5, <1>5
    <2> QED
      BY <2>1 DEF Assigned, Row, First
  <1>8. CompletedWasAssigned'
    BY <1>g, <1>5 DEF ClientInv, CompletedWasAssigned
  <1> QED
    BY <1>6, <1>7, <1>8 DEF ClientInv

LEMMA RestartClients ==
    ASSUME TypeInv, TableInv, ClientInv, Restart
    PROVE  ClientInv'
  <1>1. DOMAIN chunks' = {} /\ reused' = reused \cup Listed /\ UNCHANGED clients
    BY DEF Restart, init_scheduler
  <1>2. ASSUME NEW w \in Clients
        PROVE  ~Holds(w)'
    <2>1. SUFFICES ASSUME Holds(w)'
                   PROVE  FALSE
      OBVIOUS
    <2>2. Holds(w) /\ Id(chunk[w]) \notin Gone'
      BY <2>1, <1>1, GoneGrows DEF clients, Holds
    <2>3. PICK j \in DOMAIN chunks : Id(chunks[j]) = Id(chunk[w])
      BY <2>2 DEF ClientInv, Present
    <2>4. chunks[j].task_id \in reused'
      BY <1>1 DEF TableInv, ChunksHaveTasks
    <2>5. Id(chunks[j]) \in Gone'
      BY <2>4, RowPair DEF Id, Gone
    <2> QED
      BY <2>2, <2>3, <2>5
  <1> QED
    BY <1>1, <1>2 DEF ClientInv, Present, Assigned, CompletedWasAssigned

LEMMA StepClients == TypeInv /\ TableInv /\ ClientInv /\ [Next]_vars => ClientInv'
  <1> SUFFICES ASSUME TypeInv, TableInv, ClientInv, [Next]_vars
               PROVE  ClientInv'
    OBVIOUS
  <1> DEFINE Fewer == \A v \in Clients : /\ at'[v] # "get" => at[v] # "get" /\ chunk'[v] = chunk[v]
                                         /\ at'[v] = "work" => at[v] = "work"
  <1>1. ASSUME NEW t \in TaskIds, NEW chunked \in BOOLEAN, add_task(t, chunked)
        PROVE  ClientInv'
    <2>1. Fewer /\ UNCHANGED <<chunks, reused>>
      BY <1>1 DEF add_task, clients
    <2> QED
      BY <2>1, SameChunksClients
  <1>2. ASSUME NEW t \in TaskIds, remove_task(t)
        PROVE  ClientInv'
    BY <1>2, RemoveClients
  <1>3. ASSUME NEW i \in DOMAIN tasks, NEW total \in 0 .. MaxSize, create_chunks(i, total)
        PROVE  ClientInv'
    BY <1>3, CreateClients
  <1>4. ASSUME NEW w \in Clients, get_next_chunk(w) \/ assign_chunk(w) \/ mark_chunk_completed(w)
        PROVE  ClientInv'
    BY <1>4, GetClients, AssignClients, MarkClients
  <1>5. ASSUME NEW w \in Clients, select_best_employee(w)
        PROVE  ClientInv'
    <2>1. Fewer
      <3>1. CASE Selects(w)
        BY <3>1 DEF Selects, TypeInv, ClientsType
      <3>2. CASE SelectsNobody(w)
        BY <3>2 DEF SelectsNobody, TypeInv, ClientsType
      <3> QED
        BY <1>5, <3>1, <3>2 DEF select_best_employee
    <2>2. UNCHANGED <<chunks, reused>>
      BY <1>5 DEF select_best_employee, Selects, SelectsNobody, library, history
    <2> QED
      BY <2>1, <2>2, SameChunksClients
  <1>6. ASSUME NEW w \in Clients, NoAnswer(w)
        PROVE  ClientInv'
    <2>1. Fewer /\ UNCHANGED <<chunks, reused>>
      BY <1>6 DEF NoAnswer, Done, library, TypeInv, ClientsType
    <2> QED
      BY <2>1, SameChunksClients
  <1>7. ASSUME NEW policy \in Policies, set_scheduling_policy(policy)
        PROVE  ClientInv'
    <2>1. Fewer /\ UNCHANGED <<chunks, reused>>
      BY <1>7 DEF set_scheduling_policy, clients, history
    <2> QED
      BY <2>1, SameChunksClients
  <1>8. CASE Restart
    BY <1>8, RestartClients
  <1>9. CASE UNCHANGED vars
    <2>1. Fewer /\ UNCHANGED <<chunks, reused>>
      BY <1>9 DEF vars, library, clients, history
    <2> QED
      BY <2>1, SameChunksClients
  <1> QED
    BY <1>1, <1>2, <1>3, <1>4, <1>5, <1>6, <1>7, <1>8, <1>9 DEF Next

\* Nothing is completed that nobody was given, however the calls of the clients
\* interleave with removals, cuts and chunk_ids that rows share, unless a task that could
\* have a chunk of that chunk_id was removed before.
THEOREM CompletedAreAssigned == Spec => []CompletedWasAssigned
  <1>1. Init => ClientInv
    BY DEF Init, ClientInv, Present, Assigned, Holds, CompletedWasAssigned
  <1>2. ClientInv => CompletedWasAssigned
    BY DEF ClientInv
  <1> QED
    BY <1>1, <1>2, InitType, StepType, InitTables, StepTables, StepClients, PTL DEF Spec

-----------------------------------------------------------------------------
\* What was handed out and is not back is in somebody's hands.  A search stops at the
\* first row of a chunk_id, and rows before it can only go: no other row is handed out.
InHand(j) ==
    \/ Id(chunks[j]) \in lost
    \/ \E w \in Clients : at[w] = "work" /\ Id(chunk[w]) = Id(chunks[j])
NoOrphans ==
    \A j \in DOMAIN chunks :
        chunks[j].assigned_employee # Nobody /\ ~chunks[j].is_completed => InHand(j)
OnlyFirst ==
    \A j, k \in DOMAIN chunks :
        chunks[j].assigned_employee # Nobody /\ Id(chunks[k]) = Id(chunks[j]) => j <= k
OrphanInv == NoOrphans /\ OnlyFirst

LEMMA RowIsFirst ==
    ASSUME ChunksType, NEW id, NEW j \in DOMAIN chunks, Row(id, j)
    PROVE  \A k \in DOMAIN chunks : Id(chunks[k]) = id => j <= k
  <1>1. j \in 1 .. Len(chunks) /\ DOMAIN chunks = 1 .. Len(chunks) /\ Len(chunks) \in Nat
    BY ChunkRow, LenProperties DEF ChunksType
  <1>2. ASSUME NEW k \in DOMAIN chunks, Id(chunks[k]) = id, ~(j <= k)
        PROVE  FALSE
    <2>1. k \in 1 .. j - 1
      BY <1>1, <1>2
    <2> QED
      BY <1>2, <2>1 DEF Row
  <1> QED
    BY <1>2

\* The workers go on with what they have.
WorkGoesOn == \A w \in Clients : at[w] = "work" => at'[w] = "work" /\ chunk'[w] = chunk[w]

LEMMA SameOrphans ==
    ASSUME OrphanInv, UNCHANGED <<chunks, lost>>, WorkGoesOn
    PROVE  OrphanInv'
  <1>1. ASSUME NEW j \in DOMAIN chunks, InHand(j)
        PROVE  InHand(j)'
    BY <1>1 DEF InHand, WorkGoesOn
  <1>2. NoOrphans'
    BY <1>1 DEF OrphanInv, NoOrphans
  <1>3. OnlyFirst'
    BY DEF OrphanInv, OnlyFirst
  <1> QED
    BY <1>2, <1>3 DEF OrphanInv

LEMMA AssignOrphans ==
    ASSUME TypeInv, OrphanInv, NEW w \in Clients, assign_chunk(w)
    PROVE  OrphanInv'
  <1>1. UNCHANGED lost /\ at[w] = "assign" /\ WorkGoesOn
    BY DEF assign_chunk, Done, history, WorkGoesOn, TypeInv, ClientsType
  <1>2. CASE UNCHANGED chunks
    BY <1>1, <1>2, SameOrphans
  <1>3. ASSUME NEW j \in DOMAIN chunks, Row(Id(chunk[w]), j),
               chunks' = [chunks EXCEPT ![j].assigned_employee = employee[w]],
               at' = [at EXCEPT ![w] = "work"], UNCHANGED chunk
        PROVE  OrphanInv'
    <2>1. employee[w] \in Employees
      BY <1>1 DEF TypeInv, ClientsType
    <2>2. /\ DOMAIN chunks' = DOMAIN chunks
          /\ \A k \in DOMAIN chunks :
                /\ Kept(k)
                /\ chunks'[k].is_completed = chunks[k].is_completed
                /\ chunks'[k].assigned_employee =
                       IF k = j THEN employee[w] ELSE chunks[k].assigned_employee
      BY <1>3, <2>1, AssignRow DEF TypeInv
    <2>3. at'[w] = "work" /\ Id(chunk'[w]) = Id(chunks'[j])
      BY <1>3, <2>2 DEF Row, Kept, TypeInv, ClientsType
    <2>4. ASSUME NEW k \in DOMAIN chunks, InHand(k)
          PROVE  InHand(k)'
      BY <2>2, <2>4, <1>1 DEF InHand, WorkGoesOn, Kept
    <2>5. ASSUME NEW k \in DOMAIN chunks, chunks'[k].assigned_employee # Nobody,
                 ~chunks'[k].is_completed
          PROVE  InHand(k)'
      <3>1. CASE k = j
        BY <2>3, <3>1 DEF InHand
      <3>2. CASE k # j
        BY <2>2, <2>4, <2>5, <3>2 DEF OrphanInv, NoOrphans
      <3> QED
        BY <3>1, <3>2
    <2>6. NoOrphans'
      BY <2>2, <2>5 DEF NoOrphans
    <2>7. \A k \in DOMAIN chunks : Id(chunks'[k]) = Id(chunks[k])
      BY <2>2 DEF Kept
    <2>8. ASSUME NEW i \in DOMAIN chunks, NEW k \in DOMAIN chunks,
                 chunks'[i].assigned_employee # Nobody, Id(chunks'[k]) = Id(chunks'[i])
          PROVE  i <= k
      <3>1. CASE i = j
        <4>1. Id(chunks[j]) = Id(chunk[w])
          BY <1>3 DEF Row
        <4>2. Id(chunks[k]) = Id(chunk[w])
          BY <2>7, <2>8, <3>1, <4>1
        <4> QED
          BY <1>3, <3>1, <4>2, RowIsFirst DEF TypeInv
      <3>2. CASE i # j
        BY <2>2, <2>7, <2>8, <3>2 DEF OrphanInv, OnlyFirst
      <3> QED
        BY <3>1, <3>2
    <2>9. OnlyFirst'
      BY <2>2, <2>8 DEF OnlyFirst
    <2> QED
      BY <2>6, <2>9 DEF OrphanInv
  <1> QED
    BY <1>2, <1>3 DEF assign_chunk

\* The chunk of a client that reports has no second row that is still out.
LEMMA MarkOrphans ==
    ASSUME TypeInv, OrphanInv, NEW w \in Clients, mark_chunk_completed(w)
    PROVE  OrphanInv'
  <1>1. UNCHANGED lost /\ at[w] = "work"
    BY DEF mark_chunk_completed, history
  <1>2. \A v \in Clients : v # w /\ at[v] = "work" => at'[v] = "work" /\ chunk'[v] = chunk[v]
    BY DEF mark_chunk_completed, Done, TypeInv, ClientsType
  <1>3. ASSUME NEW k \in DOMAIN chunks, InHand(k), Id(chunks[k]) # Id(chunk[w]),
               Id(chunks'[k]) = Id(chunks[k])
        PROVE  InHand(k)'
    BY <1>1, <1>2, <1>3 DEF InHand
  <1>4. CASE Absent(Id(chunk[w])) /\ UNCHANGED chunks
    <2>1. NoOrphans'
      BY <1>3, <1>4 DEF Absent, OrphanInv, NoOrphans
    <2>2. OnlyFirst'
      BY <1>4 DEF OrphanInv, OnlyFirst
    <2> QED
      BY <2>1, <2>2 DEF OrphanInv
  <1>5. ASSUME NEW j \in DOMAIN chunks, Row(Id(chunk[w]), j),
               chunks' = [chunks EXCEPT ![j].is_completed = TRUE]
        PROVE  OrphanInv'
    <2>1. /\ DOMAIN chunks' = DOMAIN chunks
          /\ \A k \in DOMAIN chunks :
                /\ Kept(k)
                /\ chunks'[k].assigned_employee = chunks[k].assigned_employee
                /\ k # j => chunks'[k].is_completed = chunks[k].is_completed
          /\ chunks'[j].is_completed
      BY <1>5, CompleteRow DEF TypeInv
    <2>2. ASSUME NEW k \in DOMAIN chunks, chunks'[k].assigned_employee # Nobody,
                 ~chunks'[k].is_completed
          PROVE  InHand(k)'
      <3>1. k # j /\ InHand(k) /\ Id(chunks'[k]) = Id(chunks[k])
            /\ chunks[k].assigned_employee # Nobody
        BY <2>1, <2>2 DEF OrphanInv, NoOrphans, Kept
      <3>2. CASE Id(chunks[k]) = Id(chunk[w])
        <4>1. Id(chunks[j]) = Id(chunk[w])
          BY <1>5 DEF Row
        <4>2. k <= j
          BY <3>1, <3>2, <4>1 DEF OrphanInv, OnlyFirst
        <4>3. j <= k
          BY <1>5, <3>2, RowIsFirst DEF TypeInv
        <4>4. j \in Nat /\ k \in Nat
          BY ChunkRow DEF TypeInv
        <4> QED
          BY <3>1, <4>2, <4>3, <4>4
      <3>3. CASE Id(chunks[k]) # Id(chunk[w])
        BY <1>3, <3>1, <3>3
      <3> QED
        BY <3>2, <3>3
    <2>3. NoOrphans'
      BY <2>1, <2>2 DEF NoOrphans
    <2>4. \A k \in DOMAIN chunks : /\ Id(chunks'[k]) = Id(chunks[k])
                                   /\ chunks'[k].assigned_employee = chunks[k].assigned_employee
      BY <2>1 DEF Kept
    <2>5. OnlyFirst'
      BY <2>1, <2>4 DEF OrphanInv, OnlyFirst
    <2> QED
      BY <2>3, <2>5 DEF OrphanInv
  <1> QED
    BY <1>4, <1>5 DEF mark_chunk_completed

LEMMA NoAnswerOrphans ==
    ASSUME TypeInv, OrphanInv, NEW w \in Clients, NoAnswer(w)
    PROVE  OrphanInv'
  <1>1. UNCHANGED chunks /\ lost' = lost \cup {Id(chunk[w])}
    BY DEF NoAnswer, library
  <1>2. \A v \in Clients : v # w /\ at[v] = "work" => at'[v] = "work" /\ chunk'[v] = chunk[v]
    BY DEF NoAnswer, Done, TypeInv, ClientsType
  <1>3. ASSUME NEW k \in DOMAIN chunks, InHand(k)
        PROVE  InHand(k)'
    <2>1. CASE Id(chunks[k]) = Id(chunk[w])
      BY <1>1, <2>1 DEF InHand
    <2>2. CASE Id(chunks[k]) # Id(chunk[w])
      BY <1>1, <1>2, <1>3, <2>2 DEF InHand
    <2> QED
      BY <2>1, <2>2
  <1>4. NoOrphans'
    BY <1>1, <1>3 DEF OrphanInv, NoOrphans
  <1>5. OnlyFirst'
    BY <1>1 DEF OrphanInv, OnlyFirst
  <1> QED
    BY <1>4, <1>5 DEF OrphanInv

LEMMA CreateOrphans ==
    ASSUME TypeInv, OrphanInv, NEW i \in DOMAIN tasks, NEW total \in 0 .. MaxSize,
           create_chunks(i, total)
    PROVE  OrphanInv'
  <1> DEFINE t == tasks[i].task_id
             n == Len(chunks)
             f == Fitting(total)
  <1>1. /\ t \in TaskIds /\ n \in Nat /\ f \in 0 .. total
        /\ ChunksType' /\ DOMAIN chunks = 1 .. n
        /\ DOMAIN chunks' = 1 .. n + f
        /\ \A j \in 1 .. n : chunks'[j] = chunks[j]
        /\ \A j \in n + 1 .. n + f :
              /\ chunks'[j].task_id = t /\ chunks'[j].chunk_index = j - n - 1
              /\ chunks'[j].total_chunks = total
              /\ chunks'[j].assigned_employee = Nobody
              /\ chunks'[j].is_completed = FALSE
    BY CutRows, Zenon
  <1> HIDE DEF t, n, f
  <1>2. UNCHANGED <<clients, lost>>
    BY DEF create_chunks
  <1>3. ASSUME NEW k \in 1 .. n, InHand(k)
        PROVE  InHand(k)'
    BY <1>1, <1>2, <1>3 DEF InHand, clients
  <1>a. ASSUME NEW k \in 1 .. n + f, chunks'[k].assigned_employee # Nobody
        PROVE  k \in 1 .. n
    <2>1. k \in 1 .. n \/ k \in n + 1 .. n + f
      BY <1>1
    <2> QED
      BY <1>1, <1>a, <2>1
  <1>4. ASSUME NEW k \in 1 .. n + f, chunks'[k].assigned_employee # Nobody,
               ~chunks'[k].is_completed
        PROVE  InHand(k)'
    <2>1. k \in 1 .. n
      BY <1>4, <1>a
    <2>2. InHand(k)
      BY <1>1, <1>4, <2>1 DEF OrphanInv, NoOrphans
    <2> QED
      BY <1>3, <2>1, <2>2
  <1>5. NoOrphans'
    BY <1>1, <1>4 DEF NoOrphans
  <1>6. ASSUME NEW j \in 1 .. n + f, NEW k \in 1 .. n + f,
               chunks'[j].assigned_employee # Nobody, Id(chunks'[k]) = Id(chunks'[j])
        PROVE  j <= k
    <2>1. j \in 1 .. n
      BY <1>6, <1>a
    <2>2. CASE k \in 1 .. n
      BY <1>1, <1>6, <2>1, <2>2 DEF OrphanInv, OnlyFirst
    <2>3. CASE k \notin 1 .. n
      BY <1>1, <2>1, <2>3
    <2> QED
      BY <2>2, <2>3
  <1>7. OnlyFirst'
    BY <1>1, <1>6 DEF OnlyFirst
  <1> QED
    BY <1>5, <1>7 DEF OrphanInv

LEMMA RemoveOrphans ==
    ASSUME TypeInv, OrphanInv, NEW t \in TaskIds, remove_task(t)
    PROVE  OrphanInv'
  <1>1. /\ DOMAIN chunks = 1 .. Len(chunks) /\ DOMAIN chunks' = 1 .. Len(chunks')
        /\ Len(chunks) \in Nat /\ Len(chunks') \in Nat
        /\ \E h : Picks(chunks, t, chunks', h, Len(chunks))
    BY RemoveRows
  <1>2. PICK h : Picks(chunks, t, chunks', h, Len(chunks))
    BY <1>1
  <1>3. /\ \A j \in DOMAIN chunks' : h[j] \in DOMAIN chunks /\ chunks'[j] = chunks[h[j]]
        /\ \A j, k \in DOMAIN chunks' : j < k => h[j] < h[k]
    BY <1>1, <1>2 DEF Picks
  <1>4. UNCHANGED <<clients, lost>>
    BY DEF remove_task
  <1>5. ASSUME NEW j \in DOMAIN chunks', InHand(h[j])
        PROVE  InHand(j)'
    BY <1>3, <1>4, <1>5 DEF InHand, clients
  <1>6. NoOrphans'
    BY <1>3, <1>5 DEF OrphanInv, NoOrphans
  <1>7. ASSUME NEW j \in DOMAIN chunks', NEW k \in DOMAIN chunks',
               chunks'[j].assigned_employee # Nobody, Id(chunks'[k]) = Id(chunks'[j])
        PROVE  j <= k
    <2>1. h[j] <= h[k]
      BY <1>3, <1>7 DEF OrphanInv, OnlyFirst
    <2>2. h[j] \in Nat /\ h[k] \in Nat /\ j \in Nat /\ k \in Nat
      BY <1>1, <1>3
    <2>3. ~(k < j)
      <3>1. k < j => h[k] < h[j]
        BY <1>3
      <3> QED
        BY <2>1, <2>2, <3>1
    <2> QED
      BY <2>2, <2>3
  <1>8. OnlyFirst'
    BY <1>7 DEF OnlyFirst
  <1> QED
    BY <1>6, <1>8 DEF OrphanInv

LEMMA StepOrphans == TypeInv /\ OrphanInv /\ [Next]_vars => OrphanInv'
  <1> SUFFICES ASSUME TypeInv, OrphanInv, [Next]_vars
               PROVE  OrphanInv'
    OBVIOUS
  <1>1. ASSUME NEW t \in TaskIds, NEW chunked \in BOOLEAN, add_task(t, chunked)
        PROVE  OrphanInv'
    BY <1>1, SameOrphans DEF add_task, clients, WorkGoesOn
  <1>2. ASSUME NEW t \in TaskIds, remove_task(t)
        PROVE  OrphanInv'
    BY <1>2, RemoveOrphans
  <1>3. ASSUME NEW i \in DOMAIN tasks, NEW total \in 0 .. MaxSize, create_chunks(i, total)
        PROVE  OrphanInv'
    BY <1>3, CreateOrphans
  <1>4. ASSUME NEW w \in Clients, get_next_chunk(w) \/ select_best_employee(w)
        PROVE  OrphanInv'
    <2>1. /\ at[w] # "work" /\ UNCHANGED <<chunks, lost>>
          /\ \A v \in Clients : v # w => at'[v] = at[v] /\ chunk'[v] = chunk[v]
      BY <1>4 DEF get_next_chunk, select_best_employee, Selects, SelectsNobody, library,
         history, TypeInv, ClientsType
    <2> QED
      BY <2>1, SameOrphans DEF WorkGoesOn
  <1>5. ASSUME NEW w \in Clients, assign_chunk(w) \/ mark_chunk_completed(w) \/ NoAnswer(w)
        PROVE  OrphanInv'
    BY <1>5, AssignOrphans, MarkOrphans, NoAnswerOrphans
  <1>6. ASSUME NEW policy \in Policies, set_scheduling_policy(policy)
        PROVE  OrphanInv'
    BY <1>6, SameOrphans DEF set_scheduling_policy, clients, history, WorkGoesOn
  <1>7. CASE Restart
    <2>1. DOMAIN chunks' = {}
      BY <1>7 DEF Restart, init_scheduler
    <2> QED
      BY <2>1 DEF OrphanInv, NoOrphans, OnlyFirst
  <1>8. CASE UNCHANGED vars
    BY <1>8, SameOrphans DEF vars, library, clients, history, WorkGoesOn
  <1> QED
    BY <1>1, <1>2, <1>3, <1>4, <1>5, <1>6, <1>7, <1>8 DEF Next

\* No chunk is forgotten: one that was assigned and is not completed is being worked on
\* by a client, or got no answer, through removals, restarts, double assignments, tasks
\* cut twice and chunk_ids that several rows share: assign_chunk and mark_chunk_completed
\* stop at the same row.  When no client is at work get_next_chunk (task_scheduler.c
\* 162-173) still offers all others that are not completed.
THEOREM NoneForgotten == Spec => []NoOrphans
  <1>1. Init => OrphanInv
    BY DEF Init, OrphanInv, NoOrphans, OnlyFirst
  <1>2. OrphanInv => NoOrphans
    BY DEF OrphanInv
  <1> QED
    BY <1>1, <1>2, InitType, StepType, StepOrphans, PTL DEF Spec

\* remove_task leaves the rows of all other tasks, each once and in their order, in both
\* tables, for tables of any length: its loop looks again at a position it shifted a row
\* to (task_scheduler.c 61-77).
RemovesItsRows ==
    \A t \in TaskIds : remove_task(t) =>
        /\ \E h : Picks(tasks, t, tasks', h, Len(tasks))
        /\ \E h : Picks(chunks, t, chunks', h, Len(chunks))
THEOREM RemovalIsExact == Spec => [][RemovesItsRows]_vars
  <1>1. TypeInv => RemovesItsRows
    BY RemoveRows DEF RemovesItsRows
  <1> QED
    BY <1>1, InitType, StepType, PTL DEF Spec
=============================================================================
