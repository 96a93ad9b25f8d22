------------------------------ MODULE Scheduler ------------------------------
(***************************************************************************)
(* The task scheduler library, volcom_scheduler/task_scheduler.c: a table  *)
(* of tasks and one of the chunks they are cut into, which clients use to  *)
(* find work for employees.  Each call is one action.                      *)
(*                                                                         *)
(* The clients are the environment, and go about it the way the interface  *)
(* is cut: get_next_chunk copies a chunk, select_best_employee chooses who *)
(* is to work on it, assign_chunk notes that, and when the result is there *)
(* mark_chunk_completed is called.  Other calls come between any two.      *)
(***************************************************************************)
EXTENDS Integers, FiniteSets, SequencesExt

CONSTANTS
    TaskIds,       \* sequences of symbols, each of which stands for some characters
    Symbols,
    Infix,         \* "_chunk_"
    IdLength,      \* the symbols a chunk_id has room for (63 characters)
    Clients,
    Employees,     \* positions in the array given to select_best_employee
    Reports,       \* the employee_info_t records that may be in it
    Lefts,         \* seconds to a task's deadline, less than 0 when it is past
    Priority,      \* the priority of every task
    Nobody,        \* an empty assigned_employee
    NoChunk,       \* a client without a chunk
    MaxTasks,      \* MAX_TASKS (100)
    MaxChunks,     \* MAX_CHUNKS (1000)
    MaxSize,       \* bound: chunks a file is cut into
    MaxAdds,       \* bound: tasks added in all
    MaxLosses      \* bound: employees that never answer

ASSUME BoundsAssumption ==
    /\ MaxTasks \in Nat \ {0} /\ MaxChunks \in Nat \ {0}
    /\ MaxSize \in Nat /\ MaxAdds \in Nat /\ MaxLosses \in Nat
    /\ Employees \subseteq Nat \ {0}
\* An id of 63 characters is left out: its copy in a chunk has no end.
ASSUME IdsAssumption ==
    /\ IdLength \in Nat /\ Infix \in Seq(Symbols)
    /\ \A k \in DOMAIN Infix : Infix[k] \notin Nat
    /\ \A t \in TaskIds : t \in Seq(Symbols) /\ Len(t) < IdLength
ASSUME NobodyAssumption == Nobody \notin Employees
ASSUME ReportsAssumption ==
    /\ Reports \subseteq [is_available : BOOLEAN, cpu_usage : Int, memory_usage : Int,
                         active_tasks : Nat]
    /\ Lefts \subseteq Int /\ Priority \in Int

VARIABLES
    tasks,         \* the rows in use, task_count of them
    chunks,        \* likewise
    current_policy,
    \* the clients
    at,            \* where each client is
    chunk,         \* the task and the index in its copy of a chunk_info_t
    employee,      \* whom it chose
    \* what callers did
    adds,          \* tasks added so far
    recut,         \* tasks listed now that were cut when they had chunks already
    cut,           \* tasks listed now some chunks of which found no room
    reused,        \* ids of tasks once removed
    lost           \* the chunk_ids that got no answer

library == <<tasks, chunks, current_policy>>
clients == <<at, chunk, employee>>
history == <<adds, recut, cut, reused, lost>>
vars    == <<library, clients, history>>

Policies == {"ROUND_ROBIN", "LOAD_BALANCED", "PRIORITY_BASED", "DEADLINE_AWARE"}

\* A chunk_id is printed from a task_id and an index, and ends where its 64 bytes do:
\* behind an id of 56 characters or more nothing is left of the index.  (An index has up
\* to three digits and is one symbol here; 54 or 55 characters cost it some of them.)
ChunkId == [t \in TaskIds |-> [i \in 0 .. MaxSize - 1 |->
    LET text == t \o Append(Infix, i)
    IN  IF Len(text) <= IdLength THEN text ELSE SubSeq(text, 1, IdLength)]]
ChunkIds == {ChunkId[t][i] : t \in TaskIds, i \in 0 .. MaxSize - 1}
Id(c) == ChunkId[c.task_id][c.chunk_index]
Fits(t) == Len(t) + Len(Infix) < IdLength

init_scheduler ==
    /\ tasks' = <<>> /\ chunks' = <<>>
    /\ current_policy' = "ROUND_ROBIN"

Init ==
    /\ tasks = <<>> /\ chunks = <<>>
    /\ current_policy = "ROUND_ROBIN"
    /\ at = [w \in Clients |-> "get"]
    /\ chunk = [w \in Clients |-> NoChunk]
    /\ employee = [w \in Clients |-> Nobody]
    /\ adds = 0 /\ recut = {} /\ cut = {} /\ reused = {} /\ lost = {}

-----------------------------------------------------------------------------
Listed == {tasks[i].task_id : i \in DOMAIN tasks}
ChunksOf(t) == {j \in DOMAIN chunks : chunks[j].task_id = t}

\* The caller's descriptor is copied, with what it says in is_chunked.
add_task(t, chunked) ==
    /\ adds < MaxAdds /\ adds' = adds + 1
    /\ Len(tasks) < MaxTasks /\ t \notin Listed
    /\ tasks' = Append(tasks, [task_id |-> t, is_chunked |-> chunked])
    /\ UNCHANGED <<chunks, current_policy, clients, recut, cut, reused, lost>>

SkipsNext(t) ==                        \* mutant: j-- forgotten
    LET Odd(j) == \E i \in 1 .. j : /\ (j - i) % 2 = 0
                                    /\ \A k \in i .. j : chunks[k].task_id = t
                                    /\ i = 1 \/ chunks[i - 1].task_id # t
        Stays(j) == ~Odd(j)
        kept == SetToSortSeq({j \in DOMAIN chunks : Stays(j)}, <)
    IN  [k \in DOMAIN kept |-> chunks[kept[k]]]

AllStay(t) == chunks                   \* mutant: only the task is removed
\* What a table is after a pass in which each row of the task closes the gap it
\* leaves: after n rows, what is left of these.
Without(rows, t) ==
    LET left[n \in 0 .. Len(rows)] ==
            IF n = 0 THEN <<>>
            ELSE IF rows[n].task_id = t THEN left[n - 1]
            ELSE Append(left[n - 1], rows[n])
    IN  left[Len(rows)]
Others(t) == Without(chunks, t)

remove_task(t) ==
    /\ t \in Listed
    /\ chunks' = Others(t)
    /\ tasks' = Without(tasks, t)
    /\ recut' = recut \ {t} /\ cut' = cut \ {t}
    /\ reused' = reused \cup {t}
    /\ UNCHANGED <<current_policy, clients, adds, lost>>

\* total chunks, or as many of them as there is room for; each says how many
\* there should be.
AnyRoom(n) == n                        \* mutant: MAX_CHUNKS is not looked at
Fitting(n) == IF n < MaxChunks - Len(chunks) THEN n ELSE MaxChunks - Len(chunks)
Cut(t, total) ==
    [i \in 1 .. Fitting(total) |->
        [task_id |-> t, chunk_index |-> i - 1, total_chunks |-> total,
         assigned_employee |-> Nobody, is_completed |-> FALSE]]

\* The file and the chunk size make the number of chunks.
create_chunks(i, total) ==
    LET t == tasks[i].task_id IN
    /\ chunks' = chunks \o Cut(t, total)
    /\ tasks' = [tasks EXCEPT ![i].is_chunked = TRUE]
    /\ recut' = IF ChunksOf(t) # {} THEN recut \cup {t} ELSE recut
    /\ cut' = IF Fitting(total) < total THEN cut \cup {t} ELSE cut
    /\ UNCHANGED <<current_policy, clients, adds, reused, lost>>

\* get_pending_tasks, and what get_chunk_status answers.
Unassigned(t) ==                       \* mutant: assigned is good enough
    \E j \in ChunksOf(t) : chunks[j].assigned_employee = Nobody
Incomplete(t) == \E j \in ChunksOf(t) : ~chunks[j].is_completed
Pending(i) == Incomplete(tasks[i].task_id) \/ ~tasks[i].is_chunked
ChunkStatus(t) ==
    [completed |-> Cardinality({j \in ChunksOf(t) : chunks[j].is_completed}),
     total     |-> Cardinality(ChunksOf(t))]

-----------------------------------------------------------------------------
\* A score is a fraction, <<numerator, denominator>>.
BusyFirst(policy, report, left) ==     \* mutant: active tasks count for, not against
    <<100 + report.active_tasks, 1>>
Score(policy, report, left) ==
    CASE policy = "LOAD_BALANCED" ->
            <<200 - report.cpu_usage - report.memory_usage - 10 * report.active_tasks, 1>>
      [] policy = "ROUND_ROBIN"    -> <<100 - report.active_tasks, 1>>
      [] policy = "PRIORITY_BASED" -> <<(100 - report.cpu_usage) * Priority, 10>>
      [] policy = "DEADLINE_AWARE" -> <<left, report.active_tasks + 1>>
Above(s, r) == s[1] * r[2] > r[1] * s[2]

\* The first of the available employees with the highest score above -1.
Best(policy, staff, left, e) ==
    LET score(k) == Score(policy, staff[k], left) IN
    /\ staff[e].is_available
    /\ Above(score(e), <<-1, 1>>)
    /\ \A k \in Employees : staff[k].is_available =>
            IF k < e THEN Above(score(e), score(k)) ELSE ~Above(score(k), score(e))

\* What may come out of a call, over all the reports and times there may be.
Staffs == [Employees -> Reports]
Chosen == [policy \in Policies |->
    {e \in Employees : \E staff \in Staffs, left \in Lefts : Best(policy, staff, left, e)}]
NobodyGood == [policy \in Policies |->
    \E staff \in Staffs, left \in Lefts : \A e \in Employees : ~Best(policy, staff, left, e)]

-----------------------------------------------------------------------------
Available(c) == ~c.is_completed /\ c.assigned_employee = Nobody

get_next_chunk(w) ==
    /\ at[w] = "get"
    /\ \E j \in DOMAIN chunks :
          /\ Available(chunks[j])
          /\ \A k \in 1 .. j - 1 : ~Available(chunks[k])
          /\ chunk' = [chunk EXCEPT ![w] = [task_id     |-> chunks[j].task_id,
                                         chunk_index |-> chunks[j].chunk_index]]
    /\ at' = [at EXCEPT ![w] = "select"]
    /\ UNCHANGED <<library, employee, history>>

Selects(w) ==
    /\ at[w] = "select"
    /\ \E e \in Chosen[current_policy] : employee' = [employee EXCEPT ![w] = e]
    /\ at' = [at EXCEPT ![w] = "assign"]
    /\ UNCHANGED <<library, chunk, history>>

\* Nobody is good enough: the client leaves the chunk.
SelectsNobody(w) ==
    /\ at[w] = "select"
    /\ NobodyGood[current_policy]
    /\ at' = [at EXCEPT ![w] = "get"]
    /\ chunk' = [chunk EXCEPT ![w] = NoChunk]
    /\ UNCHANGED <<library, employee, history>>

select_best_employee(w) == Selects(w) \/ SelectsNobody(w)

LastRow(id, j) ==                      \* mutant: the search runs on to the last row
    Id(chunks[j]) = id /\ \A k \in j + 1 .. Len(chunks) : Id(chunks[k]) # id
RowOfTask(id, j) ==                    \* mutant: as much as task_id is compared
    IsPrefix(chunks[j].task_id, id) /\ \A k \in 1 .. j - 1 : ~IsPrefix(chunks[k].task_id, id)
\* The row a search for a chunk_id stops at.
Row(id, j) == Id(chunks[j]) = id /\ \A k \in 1 .. j - 1 : Id(chunks[k]) # id
Absent(id) == \A j \in DOMAIN chunks : Id(chunks[j]) # id

Done(w) ==
    /\ at' = [at EXCEPT ![w] = "get"]
    /\ chunk' = [chunk EXCEPT ![w] = NoChunk]
    /\ employee' = [employee EXCEPT ![w] = Nobody]

\* Whoever has the chunk by now.  If it is gone, so is the client's interest.
assign_chunk(w) ==
    /\ at[w] = "assign"
    /\ \/ /\ \E j \in DOMAIN chunks :
                /\ Row(Id(chunk[w]), j)
                /\ chunks' = [chunks EXCEPT ![j].assigned_employee = employee[w]]
          /\ at' = [at EXCEPT ![w] = "work"]
          /\ UNCHANGED <<chunk, employee>>
       \/ Absent(Id(chunk[w])) /\ Done(w) /\ UNCHANGED chunks
    /\ UNCHANGED <<tasks, current_policy, history>>

mark_chunk_completed(w) ==
    /\ at[w] = "work"
    /\ \/ \E j \in DOMAIN chunks : /\ Row(Id(chunk[w]), j)
                                   /\ chunks' = [chunks EXCEPT ![j].is_completed = TRUE]
       \/ Absent(Id(chunk[w])) /\ UNCHANGED chunks
    /\ Done(w)
    /\ UNCHANGED <<tasks, current_policy, history>>

\* The employee is gone for good.
NoAnswer(w) ==
    /\ at[w] = "work"
    /\ Cardinality(lost) < MaxLosses
    /\ lost' = lost \cup {Id(chunk[w])}
    /\ Done(w)
    /\ UNCHANGED <<library, adds, recut, cut, reused>>

set_scheduling_policy(policy) ==
    /\ current_policy' = policy
    /\ UNCHANGED <<tasks, chunks, clients, history>>

\* init_scheduler once more, or cleanup_scheduler, which leaves the policy.
Restart ==
    /\ \/ init_scheduler
       \/ tasks' = <<>> /\ chunks' = <<>> /\ UNCHANGED current_policy
    /\ reused' = reused \cup Listed
    /\ recut' = {} /\ cut' = {}
    /\ UNCHANGED <<clients, adds, lost>>

Next ==
    \/ \E t \in TaskIds : remove_task(t) \/ \E chunked \in BOOLEAN : add_task(t, chunked)
    \/ \E i \in DOMAIN tasks, total \in 0 .. MaxSize : create_chunks(i, total)
    \/ \E w \in Clients : \/ get_next_chunk(w) \/ select_best_employee(w)
                          \/ assign_chunk(w) \/ mark_chunk_completed(w)
                          \/ NoAnswer(w)
    \/ \E policy \in Policies : set_scheduling_policy(policy)
    \/ Restart

Spec == Init /\ [][Next]_vars

\* Clients go on.  Whether select_best_employee finds somebody is not assumed.
FairSpec ==
    /\ Spec
    /\ \A w \in Clients :
          /\ WF_vars(get_next_chunk(w)) /\ WF_vars(select_best_employee(w))
          /\ WF_vars(assign_chunk(w)) /\ WF_vars(mark_chunk_completed(w))

-----------------------------------------------------------------------------
ChunkType(c) ==
    /\ c.task_id \in TaskIds
    /\ c.total_chunks \in 0 .. MaxSize /\ c.chunk_index \in 0 .. c.total_chunks - 1
    /\ c.assigned_employee \in Employees \cup {Nobody}
    /\ c.is_completed \in BOOLEAN

\* Type correctness: above all, no chunk is written past the end of the array.
TypeOK ==
    /\ Len(tasks) <= MaxTasks
    /\ \A i \in DOMAIN tasks : tasks[i] \in [task_id : TaskIds, is_chunked : BOOLEAN]
    /\ Len(chunks) <= MaxChunks /\ \A j \in DOMAIN chunks : ChunkType(chunks[j])
    /\ current_policy \in Policies
    /\ at \in [Clients -> {"get", "select", "assign", "work"}]
    /\ \A w \in Clients : IF at[w] = "get" THEN chunk[w] = NoChunk
                         ELSE chunk[w].task_id \in TaskIds /\ chunk[w].chunk_index \in 0 .. MaxSize - 1
    /\ employee \in [Clients -> Employees \cup {Nobody}]
    /\ adds \in 0 .. MaxAdds
    /\ recut \cup cut \cup reused \subseteq TaskIds
    /\ lost \subseteq ChunkIds

\* No chunk outlives its task: a chunk of a removed task would be handed out,
\* and would count for a later task of the same name.
ChunksHaveTasks == \A j \in DOMAIN chunks : chunks[j].task_id \in Listed

\* A chunk_id names one row, which is what assign_chunk and mark_chunk_completed
\* rely on, unless create_chunks is called again for the task, or the task's id is so
\* long that its chunk_ids lose the index.
IdsNameOneRow ==
    \A j, k \in DOMAIN chunks :
        Id(chunks[j]) = Id(chunks[k]) => \/ j = k
                                         \/ chunks[j].task_id \in recut
                                         \/ ~Fits(chunks[j].task_id)

\* Of a task with chunks that get_pending_tasks leaves out, get_chunk_status counts as
\* many chunks as the file was to be cut into, and all as completed, unless the table
\* was full when it was cut, or it was cut twice.
DoneMeansAll ==
    \A i \in DOMAIN tasks :
        LET t == tasks[i].task_id IN
        ~Pending(i) => \/ t \in cut \cup recut
                       \/ \A j \in ChunksOf(t) :
                             ChunkStatus(t) = [completed |-> chunks[j].total_chunks,
                                               total |-> chunks[j].total_chunks]

\* Only a chunk that somebody was given is completed, unless a task that could have a
\* chunk of the same chunk_id was removed, which a client may still have.
Gone == {ChunkId[t][i] : t \in reused, i \in 0 .. MaxSize - 1}
CompletedWasAssigned ==
    \A j \in DOMAIN chunks :
        chunks[j].is_completed =>
            chunks[j].assigned_employee # Nobody \/ Id(chunks[j]) \in Gone

\* Of two employees that differ in their active tasks alone, the busier one is
\* not chosen, unless the deadline is past (the score is negative then, and
\* more tasks bring it nearer to 0), or now (all scores are 0, and the first
\* employee is taken), or the policy does not count tasks.
BusierChosen == [policy \in Policies |->
    \E staff \in Staffs, left \in Lefts, e, k \in Employees :
        /\ Best(policy, staff, left, e)
        /\ ~(policy = "DEADLINE_AWARE" /\ left <= 0)
        /\ [staff[e] EXCEPT !.active_tasks = staff[k].active_tasks] = staff[k]
        /\ staff[e].active_tasks > staff[k].active_tasks]
BusierIsNotChosen == current_policy # "PRIORITY_BASED" => ~BusierChosen[current_policy]

\* A task that was cut is worked off or removed, however the calls of the clients
\* interleave and other tasks come and go, if no chunk of it stays without an answer and
\* if a client that keeps asking is given somebody again and again.  (Under
\* DEADLINE_AWARE nobody is ever chosen for a task that is overdue, and its chunks are
\* offered before all others.)  Two rows of one chunk_id end it as well: the second
\* is never assigned, and get_next_chunk never gets past it.
Doubled == \E j, k \in DOMAIN chunks : j # k /\ Id(chunks[j]) = Id(chunks[k])
Stuck(t) == Doubled \/ \E i \in 0 .. MaxSize - 1 : ChunkId[t][i] \in lost
FindsSomebody == \A w \in Clients : []<>(at[w] = "select") => []<>(at[w] = "assign")
CutIsWorkedOff ==
    FindsSomebody =>
        \A t \in TaskIds :
            (\E i \in DOMAIN tasks : tasks[i].task_id = t /\ tasks[i].is_chunked)
            ~> (~Incomplete(t) \/ Stuck(t))
===============================================================================
