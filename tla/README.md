# VolCom: verification project

VolCom shares the work of one machine, the *employer*, among volunteer machines, the
*employees*. The employer cuts its input into chunk files, hears employees broadcast
on UDP, connects to each over TCP, sends it a node script and then chunks, and collects
a result per chunk. An employee runs the script as a separate process, hands it the
chunks over a Unix socket and returns its answers.

This directory holds TLA+ models of that code, the TLC runs that check them on small
instances, and the theorems that TLAPS proves about them for every value of the
constants. Paths below are relative to `src/uspacehelper/` in the repository;
`employer.c` is `volcom_agents/employer/volcom_employer.c` and `employee.c` is
`volcom_agents/employee/volcom_employee.c`.

## 1. The system

| component | state it keeps | operations | hard about it | what makes it correct |
|---|---|---|---|---|
| Employer agent, `employer.c` | table of employees (address, last seen, socket, NEW/CONFIGURED, active tasks), table of task assignments (address, time, sent, completed) | discover, connect, configure, assign, send, receive, time out, remove stale, stop | employees leave, die, restart and are late between any two steps; one thread that reads and writes without timeouts; sockets opened and closed in six places | sockets and rows agree; no task lost, none completed without a result, none sent after completion or to somebody it is not assigned to; what was sent is settled |
| Employee agent, `employee.c` | chunk buffer, result queue, and four globals without a lock: `employee_running`, `is_node_started`, `unix_socket_connected`, the Unix descriptor | accept, receive a config or a chunk, send a result, requeue; worker: send to node, receive, queue a result; save script, start node, connect | up to two new threads per config, a worker and main on the same globals; a node that dies or hangs up; state that outlives a connection | a chunk in one place at a time, never freed while buffered; main returns to accept; the worker comes back; a stop request ends the process |
| Task buffer and result queue, `volcom_agents/task_management.c` | ring of `capacity` slots, head, tail, count, mutex | add, get, is_empty | two threads | bounded FIFO |
| Blocking task buffer, `volcom_uscheduler/` | ring of `MAX_TASKS` slots, one mutex, two condition variables | enqueue, dequeue, size, print | lost or spurious wakeups, overtaking | bounded FIFO, no lost wakeup, progress |
| Protocol, `volcom_net/protocol.c` | one global Unix client descriptor | send/receive/peek JSON, TCP connect, Unix client | messages arrive in parts; writes to a dead peer; no timeouts | a message is read whole or the connection given up |
| Node script, `scripts/object-detection.js` | a server on the socket path | answer a request, end the connection | one answer per connection | |
| Resource manager, `volcom_rcsmngr/` | tables of child cgroups and of their pids, beside the kernel's directories | init, create, delete, add, remove and list pids, clean up | a removal that fails half way, arrays that must grow, an initialization on top of another | table and directories agree, arrays freed once and not used after, removing everything ends |
| Task scheduler library, `volcom_scheduler/` | task and chunk tables, policy | add, remove, chunk, get, select, assign, complete | tables at their limit, clients that hold copies of rows | counts agree with the tables, ids name one row, work is worked off |
| System information, `volcom_sysinfo/` | configuration file | read /proc, save and load | | load returns what was saved |
| Command line, `volcom_main*.c` | none | menus | | |
| Network library, `volcom_net/volcom_net.c`, `volcom_utils/` | sockets of demonstrations | older copies of the helpers | | |
| Kernel module, `src/lkm/`, `volcom_ioctl/` | none | one ioctl that reads figures | | |
| Prototypes, `code/`, `test/`, `psedocodes/` | | not part of the program | | |

How they interact: `employer.c` and `employee.c` talk through `protocol.c` over TCP, one
connection per employee, and over UDP broadcasts. Inside the employee, main and the
worker share the two ring buffers of `task_management.c`; the worker and the start
threads share the Unix descriptor in `protocol.c` and two flags; `run_node_in_cgroup`
calls the resource manager once per node. The blocking buffer of `volcom_uscheduler` and
the scheduler library are used by their tests only.

The hazards we found, with their lines and the properties aimed at them, are in
`PROJECT.json`.

## 2. The modules

| module | models | extends / composes |
|---|---|---|
| `BoundedFifo` | abstract: what a buffer promises its threads, a FIFO queue of bounded length whose calls take effect at one instant | |
| `TaskManagement` | `task_management.c`, statement by statement | implements `BoundedFifo` |
| `UScheduler` | `volcom_uscheduler.c`, one action per critical section | implements `BoundedFifo` |
| `TaskFarm` | abstract: what an employer promises of its tasks: handed out, taken back, done by somebody who had a copy, finished when all are done | |
| `Employer` | `employer.c`, with the network and the employees as environment | implements `TaskFarm` |
| `Volunteer` | abstract: what an employee promises of its chunks: held, answered or dropped, never back | |
| `Employee` | `employee.c` with its node processes, with the employer as environment | implements `Volunteer` |
| `Channel` | abstract: whole messages each way in order, until one side closes | |
| `Connection` | one TCP connection cell by cell: the framing of `protocol.c` and of the files, and both agents' loops around it | implements `Channel` |
| `RcsMngr` | `volcom_rcsmngr.c`, with the kernel's cgroup directories and processes | |
| `Scheduler` | `task_scheduler.c`, with clients that use it | |
| `TaskManagementProofs`, `USchedulerProofs`, `EmployerProofs`, `EmployeeProofs`, `ConnectionProofs`, `RcsMngrProofs`, `SchedulerProofs` | theorems | their module and TLAPS |
| `FifoFacts` | lemmas on rings and sequences | used by the two buffers' proofs |
| `MC...` | model values, sets and symmetry for TLC | their module |

**TaskManagement.** The variables are the fields of `task_buffer_t` plus, per thread,
the statement it is at (`pc`), its argument (`task`) and the last answer (`ret`).
The steps inside a critical section are actions of their own so that the mutex has
something to exclude. `Queue` reads the ring from the tail; with it as the abstract
queue the module implements `BoundedFifo`: `count++` and the move of the tail are the
instants an add and a get take effect. `result_queue_t` is the same code a second time;
both copies are mapped.

**UScheduler.** A thread inside a call is about to take the mutex, or asleep in
`not_full` or `not_empty`. A signal removes one thread from the set, any one; the thread
then competes for the mutex and tests its condition again. `SpuriousWakeup` is what POSIX
allows.

**Employer.** `pc` is the step of the main loop and `i` the index of the `for` loop it
is in; every loop over employees or tasks takes an action per element, so that
employees break, answer and broadcast between any two elements. `employees` is the
table with its rows, in order, since removal moves the last row; a socket is `open` or
`closed`, and `conn[ip]` is the connection itself. Times are ages that grow on `Tick`,
only at the steps where the code can block, up to one past the threshold they are
compared with. `active_tasks` and the flags are as in the code. Left out because
nothing reads them: `reliability_score`, `retry_count`, `tasks_completed`,
`is_available`. The environment: `Broadcast`, `Answer` (in any order, since an employee
queues again what it could not deliver), and the faults: `LoseChunk`, `Break` (which may cut off results on their way and
may take the process down), a connect that fails, a result file that cannot be written,
a chunk file that cannot be read, an employee not heard or not answering in time
(`Tick`), `Interrupted`, and `SelectFails`, which leaves the loop with `is_active` still set. `Refused` stands for every way a send can return an error.
A write to a connection the employee has left may be accepted by the kernel, fail, or
raise SIGPIPE (`BrokenPipe`).
A result takes two actions: `BeginReceive`, when its first bytes are there, and the rest, which
the code reads in parts by calls without a timeout; `Blockable` names every step at which the
thread may wait for an employee that has not closed its connection, and no fairness is assumed
there. Chunks lost and answers or broadcasts that come late either count as faults or are
unlimited (`LossesCount`): once its node has ended the connection, an employee answers nothing
more, so an answer is never taken for granted. `distribute_new_tasks` is never called and not modelled.
Under the refinement a task is `out` while it is sent and not completed, and a worker's
copies are the chunks it has and the results on their way; a disconnection or a
timeout is a loss or a taking back; SIGPIPE and a failing `select` are aborts.

**Employee.** `main` and `worker` are the steps of the two long-lived threads; `saver`,
`starter`, `retries` and `node` are indexed by the number of the connection whose
config created them. `peer` is the node the global descriptor is connected to,
`answered` whether that node has ended its side, `asked` the node the worker expects an
answer from: they differ when a second config replaces the descriptor. `freed` records
whose data was given to `free()`. The ring buffers are sequences here, which the first
module justifies. The employer's chunks are each sent once. A message is begun
(`BeginMessage`) and received to its end; in between, and while it sends a result, main may wait
for an employer that has stalled (`Blocked`). A config that is empty or for which there is no
memory does not end the loop; its unread bytes do, at the next peek (`ConfigFails`,
`RestOfConfig`). `signal()` installs the handler with
restarting system calls, so `Signal` does not end `accept`.

Two pieces of undefined or unordered behaviour are modelled as choices:
the length sent to node is `strlen` of data that is not terminated (`WorkerSend` may
send what node cannot parse), and the script may be read before, while or after it is
written (`LoadScript`, `SaveFile`). Under the refinement an employee holds what is in its
buffer, in its result queue and in the hands of the worker and of main.

**Connection.** A message is a length header of two cells, because a read can find a part
of it, a JSON body, the size of the file and its blocks. `wire` is what is in the socket
buffers, `out` what a blocked or unfinished write still has to put there, `reading` how far
the receiver is. Each side's loop is at `select`, at a `read`, or at its sending: neither
reads while it writes, as in the code. `recv_json` reads a header with one read
(`WholeHeader`), `recv_json_peek` needs a whole message (`ShortHeader`); in both cases
less is taken for the end and the side closes. An empty chunk is refused
(`refused`), an empty configuration is not; the employee also refuses a file that is too large or
for which it has no memory, once it knows the size (`RefusesFile`). Nothing is assumed of the
sizes of files, results and socket buffers, so both sides may block each other in writing
(`BothBlocked`). Closing loses what was not read
and possibly the last cells written.

**RcsMngr.** The rows of both tables, their capacities, and of each array whether it is
live, was given to `free()`, or is null. `wrong` collects uses that C leaves undefined
(double free, use after free, a null pointer followed) and arrays nothing points to any
more; after one of them the program may end at once (`Crash`) or go on. `slips` records
what callers or the system did before: a second initialization, a name given twice, a
refused removal, no memory. `dirs` and `member` are the kernel's side: `rmdir` succeeds if
nobody is in a directory and nothing is below it, and a process is moved by the write of
its pid (`Write`). The kernel refuses that for the main cgroup, since controllers are enabled for
its children, and may refuse it elsewhere; the code looks at what `fprintf` returns and not at
`fclose`, which does the writing, and records the pid all the same. `volcom_delete_main_cgroup` takes
an action per round.

**Scheduler.** Each call is one action on the two tables; the library has no lock and is
meant for one thread. A task id is a sequence of symbols and a `chunk_id` what `snprintf` makes of
it: the id, the infix and the index, cut at the room there is (`ChunkId`), so that the chunk_ids
of a long id lose the index and are all the same. `add_task` copies the descriptor of its caller,
with `is_chunked` as it is there. Clients interleave: they copy a chunk, choose an employee, assign,
and report completion, as the interface suggests, while others add, cut and remove tasks
or start anew. What `select_best_employee` may answer under each policy is
computed over a small set of reports and deadlines (`Chosen`).

## 3. The runs

Runs that pass:

| run | question | bounds |
|---|---|---|
| `task_management` | Is the ring consistent between any two statements, and is the buffer a FIFO? | 2 threads (as in the employee), 2 values, 3 slots: the indices wrap, the ring is full, empty and in between |
| `uscheduler` | Is one signal per call enough, with overtaking and spurious wakeups? Does the buffer keep moving? | 2+2 threads on 2 slots: sleepers on both conditions, a waker and an overtaker |
| `employer` | Do tables, sockets and tasks stay consistent, does a read start where something is to be read, does a chunk go to its assignee, and is the employer a task farm? | 2 employees, up to 3 files for 2 table places, 2 faults, limit of 1 active task |
| `employer_full` | The sockets when the table is full and `select` is interrupted; can the loop always go on? | a table of 1 for 2 employees, 3 faults |
| `employer_live` | Is a chunk that was sent answered or taken back, whatever the employees do not do? | 2 employees, 1 file, losses and delays without limit, 1 other fault, interrupted selects |
| `employee` | Is a chunk in one place only, never freed while it is buffered, and never back once it was answered or dropped? | 2 connections, 2 chunks, buffers of 1, 1 retry, 1 fault |
| `employee_faults` | Does main return to accept when the employer closes, does the worker come back, and does a stop request end the employee unless an employer leaves it blocked, with nodes that die, short peeks and configs that fail? | 1 connection, 2 chunks, a result queue of 1, 2 faults |
| `connection` | Do the agents see whole messages, for which reason only do both sides block each other, and does anybody wait for ever otherwise? | files of 0 or 2 blocks, results of 1 (5 cells), buffers of 4 cells (less than a chunk) and 6 (one result, not two), 2 chunks ahead, 4 chunks, 1 timeout |
| `rcsmngr` | What can go wrong with the arrays and the directories, and for which reasons only? | 2 names, up to 3 children (one name twice), 1 process, arrays that start at 1 place, 1 failure |
| `scheduler` | Do removal, cutting and completion keep the tables consistent, and is the work worked off? | 2 tasks, one whose chunk_ids keep the index and one whose lose it, tables of 2 tasks and 2 chunks, files of up to 2 chunks, 2 clients, 2 employees, 4 kinds of reports, 1 lost employee |

`MaxFaults` bounds how many things go wrong in one behaviour, not which or when. The
defects below need at most two faults, and so do the races the invariants are about: a
connection that breaks while a task is assigned, sent or answered. `MaxFiles` of three with
two places in the table makes `add_task_assignment` refuse one, and a limit of one active
task makes a task wait while an employee is busy. A `TaskTimeout` of one tick leaves "recent",
"at the limit" and "past it"; a `StaleThreshold` of none, the last two. Symmetry over employees or chunks is used in runs
without temporal formulas other than action properties and refinements only.
Arrays that start with one place make every growth happen at the second row or pid; the
theorems cover other capacities. In `scheduler`, two chunk places for two tasks of two
chunks make a cut that does not fit, and two additions with a removal between them a reused name.
In `connection` the results of the chunks sent ahead fit into the buffer until a timeout allows
one more: both sides of `BlockedByLargeResults` are reached.

Deadlock is not checked in the employee's runs (the employee may listen for ever
without an employer), in `connection` (both sides may be gone, or blocked), and in `rcsmngr` (a
program that followed a null pointer has ended). In the employer's runs it is, `employer_full` with
its interrupted selects included: wherever the loop waits, something that lets it go on may still
come. That it does come is assumed in `employer_starve` only (see Fairness).

Runs that exhibit a disagreement between the code and what it says of itself; each checks
one property, and TLC finds the behaviour:

| run | what is said | what happens |
|---|---|---|
| `employer_starve` | unassigned tasks go to available employees (`employer.c` 715) | `active_tasks` is raised at every repeated assignment and idle employees look busy for ever |
| `employee_free` | "re-add to buffer for retry" (`employee.c` 386) | re-added and freed |

Other disagreements the models contain, on which no run is spent:

- Employer: a send to an employee that has left raises SIGPIPE and ends the employer before
  the error path that "mark[s] employee as unavailable" (201) runs. Chunk files past
  `MAX_TASK_ASSIGNMENTS` are dropped and completion is reported. A task timed out is often
  given again to the employee that still has it (employer `README.md` 23 says "another
  employee"), and the timeout frees a place that is still taken, so that an employee holds
  more than three. Assignment fills the first row first (employer `README.md` 17 says
  round-robin). After EINTR every socket counts as readable (660), and after any other error of
  `select` the agent stops with work outstanding. Results are read in parts, and files written,
  without a timeout: one employee that stalls holds up all others.
- Employee: the node ends the connection after its first answer and the employee never
  connects again, so that every later chunk is dropped (`volcom_agents/README.md` 42 says
  results are sent back). Results that are ready after the employer has closed go to the
  next one (the same line says "over the same TCP connection"). A SIGINT leaves main in
  `accept`, or in the middle of a message of an employer that has stalled. Node may run before its
  script is saved. The timeout of 30 s (`employee.c` 50) is never applied to the socket.
- Connection: a header or a message that arrives in parts closes the connection, although
  nothing is wrong with it. Results larger than what the buffers hold, which annotated images may
  well be, can block both agents in their writes for ever.
- Resource manager: a refused removal leaves a row with a freed array; `realloc` that fails
  loses the old array; a second initialization forgets everything; a pid that the kernel refuses
  is recorded without notice; `volcom_delete_main_cgroup` spins as long as a process is left,
  which nobody ends, and for ever at a row without a directory of its own.
- Scheduler: all chunks of a task whose id has 56 characters or more have the same `chunk_id`, of
  which only the first is ever assigned and completed; a task cut when the table is full counts as
  done with part of its chunks; a task cut twice stops `get_next_chunk` for all tasks behind it; a past deadline prefers
  the busiest employee or, once it is past by more than a moment, nobody, and its chunks are
  offered before all others; a deadline that is reached this second
  prefers the first one in the array; a chunk is offered to a second client until it is assigned, and not
  again after its employee is gone.

### Fairness

- `UScheduler`: weak fairness of every thread. The test programs call the buffer in
  loops and the operating system schedules threads; nothing is assumed about who gets
  the mutex.
- `Employer`: weak fairness of the loop wherever it does not wait for an employee (`Blockable`),
  and strong fairness of `Tick` (time passes, though the loop is only sometimes at a place where
  the model lets it). Nothing is assumed of employees: they need not answer or broadcast.
  `SentIsSettled` has the premise that the loop is again and again at a step that cannot block:
  no code sets a timeout, so one read or write may last for ever. `employer_starve` alone assumes
  more (`BestCaseSpec`: no step blocks, employees that are up broadcast and answer), since a run
  that looks for a failure shows the more the better the circumstances.
- `Employee`: weak fairness of main wherever it is not inside a message or a result of an open
  connection (`Blocked`), of the worker, and of each save, start and node process. An employer
  has no fairness; a node that received a legible request answers. `GiveUp`, `ConfigFails`,
  `BrokenPipe` and deaths are not fair. `StopIsHonoured` has the premise that main is not blocked
  for ever; `ReturnsToListening` needs none, as it begins when the employer closes.
- `Connection`: weak fairness of both processes; that one leaves is not fair, and so are
  timeouts and the worker's results.
- `RcsMngr`: the loop of `volcom_delete_main_cgroup` goes on. That processes end is not assumed,
  for nothing in `employee.c` (911-929) or `volcom_main.c` (339) kills them or waits for them;
  `DeleteMainEnds` starts when no process is left in a child.
- `Scheduler`: weak fairness of each client's calls. Whether `select_best_employee` finds somebody
  is not assumed; it is the premise of `CutIsWorkedOff` (`FindsSomebody`), which under
  `DEADLINE_AWARE` an overdue task makes false.

`SentIsSettled` allows the employer to be killed by SIGPIPE (above) and to end.

## 4. What is proved

Every theorem below holds for all values of the constants that satisfy the named
assumptions in the modules (finite sets of threads or addresses, positive capacities,
special values distinct from ordinary ones).

- `TaskManagementProofs!TypeCorrect`, `RingCorrect`. The inductive invariant is
  `TypeOK /\ RingInv`: exclusion (inside a critical section if and only if holding the
  mutex), `head = tail + distance` modulo the capacity where the distance is `count`
  except in the middle of an add or a get, every live slot written, and what a thread
  tested under the mutex still true. None of the four is inductive alone: without
  exclusion the test `count < capacity` is stale by the time of the store. Lemmas about
  addition modulo the capacity carry the arithmetic.
- `TaskManagementProofs!RingIsFifo`. The refinement of `BoundedFifo`. The invariant above
  is joined by `Loaded`: a thread in `get` that has read a slot holds the oldest value until
  it moves the tail, and the slot at the head is not live while an `add` fills it. The lemmas
  of `FifoFacts` say what adding at the head and moving the tail do to the ring read as a
  sequence.
- `USchedulerProofs!TypeCorrect`, `WakeupsSuffice`. `NoLostWakeup` is stated so that it
  is inductive with the types: while somebody sleeps on `not_empty` there are as many
  awake consumers as tasks, and the mirror image for producers. The proof counts: an enqueue adds one task
  and wakes one sleeper; a dequeue removes one of each.
- `USchedulerProofs!NeverAllAsleep`. Producers and consumers that both sleep would mean an
  empty and a full buffer at once, unless somebody is awake inside a call. TLC's deadlock check
  cannot see this, because a spurious wakeup is always possible in the model.
- `USchedulerProofs!BufferIsFifo`. The refinement of `BoundedFifo` again. The invariant says
  that the tail is `count` places past the head, modulo the size, and that the live slots
  hold tasks.
- `EmployerProofs!TypeCorrect`. `TypeOK` is inductive: rows below `employee_count`
  hold employees and the others none, and `active_tasks` stays within its limit through
  every increment, decrement, removal and bulk decrement on timeouts.
- `EmployerProofs!EmployeesAreUnique`. From the type invariant: an address is added only
  when a search did not find it, and removal moves one row.
- `EmployerProofs!CompletedStays`. An action property: `is_completed` is only ever set,
  and the steps that write `is_sent` test it.
- `EmployerProofs!StopsOnlyWhenCompleted`. From the previous facts: counting as many
  completed tasks as there are tasks means all of them, and nothing changes afterwards. The
  property speaks of `is_active`, because a failing `select` leaves the loop as well, with the
  flag still set.
- `EmployerProofs!SocketsAlwaysAgree`. Because there is one row per address
  (`EmployeesAreUnique`), a step that opens or closes a row's socket changes the one
  connection of that row and no other row is on it.
- `EmployerProofs!ReadsFindSomething`. Assumes `Interrupts = FALSE`. What `select` found
  readable stays readable, and belongs to a row that is open, until the loop has come to it:
  rows that are added later have addresses that were not in the set. This is about the first
  bytes only; the rest of a result may block the loop.
- `EmployerProofs!OnlyAssignedIsWorkedOn`. The invariant is about every copy of a
  task, in an employee or on its way.
- `EmployerProofs!SentOnlyToAssignee`. An action property: a chunk that comes to an employee was
  assigned to that one at that moment, counts as sent, and its socket is open. The row is found by
  address, so this is about rows that were removed, moved and filled anew since the assignment.
- `EmployerProofs!EmployerFarms`. The refinement of `TaskFarm`: each step accepts,
  gives, returns, takes back, loses, finishes, aborts, or changes nothing `TaskFarm` sees.
  That a worker's copies are of tasks it may have is `OnlyAssignedIsWorkedOn`; that finishing
  is right is `StopsOnlyWhenCompleted`. A failing `select` and a broken pipe abort.
- `EmployerProofs!NothingInvented`. Task ids come back over the network and index the
  table; what is in hand or completed is nevertheless of the table, and an employer that
  declares itself inactive has completed exactly the table. An invariant of `TaskFarm`
  (`FarmInv`), stated in the employer's own variables.
- `EmployeeProofs!TypeCorrect`. The invariant adds to `TypeOK` what each thread holds at
  each step: main and the worker hold a chunk exactly where the code has one in a local
  variable, a starter or a node process exists only for a connection that sent its config.
- `EmployeeProofs!ChunksInOnePlace`. `OneCopy` counts occurrences, and the sums are no
  help to the prover; the invariant says instead that each of the two queues has a chunk
  once, that queues and hands share none, and that a chunk anywhere in the employee has
  been received. What is still on the wire was not received, so what arrives is new.
- `EmployeeProofs!FirstEmployerIsSafe`. The chunk that is requeued and freed at once is the
  one the worker could not send for want of a descriptor. The employer sends one config per
  connection, so a first connection has one starter; it connects the descriptor before it
  lets the worker run and never afterwards takes it back. The invariant says so: a worker
  at work has a flag set, a flag set has a descriptor, and a starter at work has no flag.
- `EmployeeProofs!EmployeeVolunteers`. The refinement of `Volunteer`, from the second: each
  step receives a new chunk, answers or drops a held one, stops, or changes nothing that
  `Volunteer` sees; that a chunk answered or dropped is held no more is where its being in
  one place is needed.
- `EmployeeProofs!AnswersAreFinal`, `AnswersFollowChunks`. An action property and an
  invariant: requeueing and retrying never take in or answer a chunk twice, and a result goes
  to the employer its chunk came from or to a later one. A later one is possible, so
  that "over the same TCP connection" (`volcom_agents/README.md` 42) holds while one employer
  has connected. Each step marks at most one chunk, one that was in one place
  (`ChunksInOnePlace`).
- `ConnectionProofs!TypeCorrect`, `MessagesArriveWhole`. The invariant `Framed` gives every
  cell on its way a message and an offset in it, each right after the one before, from the
  place the receiver has come to (`Consumed`) on; while the sender is there, up to the end of
  the last message sent. A write moves a cell from one part of the stream to the other; a
  read moves the place; the end of a message is the place before the next; a sender that
  ends cuts the stream. So a complete file is the file that was sent next (`FinishStream`),
  which is what `Channel` delivers.
- `ConnectionProofs!ReceivedIsPrefix`, `ResultsMatchChunks`. What the framing and the
  counting of results amount to from end to end: a prefix of what was sent, and at most
  one result for a chunk, of a chunk that was handed over whole before.
- `ConnectionProofs!StuckOnlyByLargeResults`. Counts what is under way to the employer: its
  cells are `ResultCells` for each result sent and not received; results belong to different
  chunks the employee was handed; chunks sent exceed results received by no more than
  `active_tasks` and the timeouts. An employer in the middle of a chunk has one more that was
  not handed over. So if both sides are blocked, the results of all chunks sent ahead but one, and
  of those timed out, exceed the buffer. Nothing is assumed of sizes: the theorem says which
  circumstance blocks both, and that no other does.
- `RcsMngrProofs!TypeCorrect`. Lengths stay within capacities through every doubling,
  removal and new start; the invariant adds that a manager in use has capacities of at least
  one, without which doubling would not help.
- `RcsMngrProofs!HeapCorrect`. `HeapSound` speaks of the past; the inductive invariant
  adds what the arrays are now: a manager not in use has none, the main array is never
  freed and kept, and a missing or freed one has its slip.
- `RcsMngrProofs!RowsKeepDirectories`. As long as no name was given twice and memory did not
  run out, a row has its directory. Inductive together with the names of the rows being
  different: a removal takes away a directory that no other row needs.
- `RcsMngrProofs!RoundsMakeProgress`. The part of `DeleteMainEnds` that is about steps: a
  round of `volcom_delete_main_cgroup` removes a row unless a process runs in the cgroup it
  is at. It needs that a row has its directory. With a name given twice or an allocation
  that failed a row may have none, and the loop tries to remove it for ever.
- `SchedulerProofs!TypeCorrect`, `ChunksKeepTasks`, `OneRowForAnId`. The rows of a table
  are what a loop of `remove_task` leaves, `Without`, so that what the loop computes has to be
  proved for tables of any length: the rows of other tasks, each once, in their order
  (`WithoutPicks`). This is an induction over the rows done so far. The library's
  induction theorems are about predicates, which no prover here can instantiate; `Induction`
  is about a *set* of numbers and follows from `<` being well founded (`LeastOne`). The
  inductive invariant (`TableInv`) adds that no task is listed twice, that a task cut once has a row
  for an index at most once, and `Whole`: with room for it, for every index below its total. That
  two rows with one `chunk_id` are of one task and one index is then a matter of the text alone
  (`FittingIds`): an id that leaves room for the index is told by its infix and its last symbol
  from every other, and from the truncated ones.
- `SchedulerProofs!DoneIsAll`. From `Whole`: rows and indices of a task correspond one to one, so
  there are as many rows as the total says, and `get_chunk_status` counts them all, whether or not
  they have the same `chunk_id`.
- `SchedulerProofs!CompletedAreAssigned`. The invariant relates a client's copy to the
  tables: a client that works on a chunk whose `chunk_id` was not that of a removed task finds in
  the first row of that name an employee. Cutting a second time, or cutting a task with a long
  id, adds rows behind that one, which nobody assigns or completes; a removal or a restart puts
  the chunk_ids of the task among those that are gone (`Gone`).
- `SchedulerProofs!BusierIsNeverChosen`. Under each policy that counts tasks one task more
  makes a score less, so the first of the best is not the busier of two. The attempt to prove
  this for deadlines that are reached now failed, and rightly: all scores are 0 then, and the
  first employee is taken. The property and the run (deadlines of -10, 0 and 60 seconds) say
  so now.
- `SchedulerProofs!NoneForgotten`. The part of `CutIsWorkedOff` that is about states: a chunk
  assigned and not completed is in a client's hands, or no answer came for its `chunk_id`. The
  invariant says that among the rows of one `chunk_id` only the first is ever assigned, also
  after removals (`OnlyFirst`), so that assigning and completing stop at the same row. What is not
  completed is thus offered again or being worked on.
- `SchedulerProofs!RemovalIsExact`. An action property: `remove_task` leaves the rows of the
  other tasks, each once and in order, in both tables.

Only model-checked, because liveness under fairness and ENABLED are out of the prover's reach:
`OldestLeaves`, `SentIsSettled`, `ReturnsToListening`, `WorkerGetsFree`, `StopIsHonoured`,
`DeleteMainEnds`, `CutIsWorkedOff`, `SentArrives`, and the absence of deadlock. Every
invariant and every refinement that a run checks is a theorem.

## 5. Not modelled

- Both agents in one state space: each is checked with the other as an environment that may
  do all the other does and more, and `Connection` has the part in which their steps meet.
- Start-up failures of sockets, threads and memory, which end the program or lose one
  chunk (`employee.c` 242).
- The content of chunks and results, file names, logging; the employer's task identifiers are
  taken to be distinct, which file names in one directory are. Task ids of the scheduler with 63
  characters, whose copy in a chunk has no terminator (`IdsAssumption`), and the indices of which
  54 or 55 characters leave some digits.
- The values of cgroup limits, and two threads in the resource manager at once
  (`employee.c` 1030 calls it from detached threads without a lock): its tables would be in
  a data race, for which C promises nothing.
- System information and configuration, the command line, the kernel module, the second
  network library, and the prototypes: they keep no state between calls, or are no
  part of the program (section 1).

## 6. Plan

What is left: both agents in one state space, for one connection and one chunk.

## 7. Running

    tlc -workers 2 -config MCEmployer.cfg MCEmployer
    tlapm EmployerProofs.tla

Definitions commented "mutant" are plausible slips in the code; replacing the definition
after them by one must make a property fail, which shows that the property can.
