------------------------------ MODULE Employer ------------------------------
(***************************************************************************)
(* The employer of volcom_agents/employer/volcom_employer.c: one thread    *)
(* that runs employer_main_loop, discovers employees by their broadcasts,  *)
(* connects to them, assigns and sends the chunk files, receives results,  *)
(* times tasks out and forgets silent employees.  main only joins it.      *)
(*                                                                         *)
(* A loop over employees or tasks takes one action per element, so that    *)
(* the network and the employees move between any two of them.  The        *)
(* employees are the environment here: what arrives from them, when their  *)
(* connections break, and which chunks they lose.  Times are kept as ages  *)
(* (now minus the recorded time) that stop growing once past the           *)
(* threshold they are compared with.  What is written and never read       *)
(* (reliability_score, retry_count, is_available) is left out.             *)
(***************************************************************************)
EXTENDS Naturals, Sequences, FiniteSets, SequencesExt

CONSTANTS
    Ips,            \* the addresses of the employees
    NoIp,           \* the empty employee_ip of a task never assigned
    NoEmployee,     \* an unused entry of the employee table
    MaxEmployees,   \* MAX_EMPLOYEES
    MaxAssignments, \* MAX_TASK_ASSIGNMENTS
    MaxActive,      \* the literal 3 of the assignment step
    StaleThreshold, \* STALE_THRESHOLD, in ticks
    TaskTimeout,    \* TASK_TIMEOUT_SECONDS, in ticks
    Interrupts,     \* whether a signal may interrupt select()
    MaxFiles,       \* bound: chunk files in the directory
    BufferCap,      \* bound: chunks an employee has room for
    WireCap,        \* bound: results on their way on one connection
    MaxFaults,      \* bound: faults of the network and the employees
    LossesCount     \* bound: whether losses and delays are among these faults

ASSUME IpsAssumption == IsFiniteSet(Ips) /\ NoIp \notin Ips
ASSUME BoundsAssumption ==
    /\ MaxEmployees \in Nat \ {0} /\ MaxAssignments \in Nat \ {0}
    /\ MaxActive \in Nat \ {0}
    /\ StaleThreshold \in Nat /\ TaskTimeout \in Nat
    /\ MaxFiles \in Nat /\ BufferCap \in Nat /\ WireCap \in Nat
    /\ MaxFaults \in Nat /\ Interrupts \in BOOLEAN /\ LossesCount \in BOOLEAN

VARIABLES
    pc, i,             \* the step of the main loop and its loop index
    is_active,         \* agent_status.is_active
    ready,             \* the sockets select() found readable
    task_assignments, assignment_count,
    employees, employee_count,
    \* the environment
    conn,              \* conn[ip]: the open connection to ip, "gone" if ip left it
    results,           \* results[ip]: results readable on that connection
    work,              \* work[ip]: chunks ip has received and not answered
    alive,             \* alive[ip]: the employee process is up
    bcast,             \* addresses with a datagram in the discovery socket
    faults             \* faults so far

tables   == <<task_assignments, assignment_count, employees, employee_count>>
loopVars == <<pc, i, is_active, ready>>
network  == <<conn, results, work, alive, bcast, faults>>
vars     == <<pc, i, is_active, ready, task_assignments, assignment_count,
              employees, employee_count, conn, results, work, alive, bcast, faults>>

TaskIndex == 0 .. MaxAssignments - 1
Row == 0 .. MaxEmployees - 1
Listed == 0 .. employee_count - 1        \* the rows in use
Queued == 0 .. assignment_count - 1      \* the tasks in use

Task == [employee_ip : Ips \cup {NoIp}, age : 0 .. TaskTimeout + 1,
         is_sent : BOOLEAN, is_completed : BOOLEAN]
Employee == [ip : Ips, silent : 0 .. StaleThreshold + 1, sockfd : {"closed", "open"},
             state : {"NEW", "CONFIGURED"}, active_tasks : 0 .. MaxActive]
ASSUME NoEmployeeAssumption == NoEmployee \notin Employee

\* task_assignment_t assignment = {0}: its assigned_time is long ago.
NewTask == [employee_ip |-> NoIp, age |-> TaskTimeout + 1,
            is_sent |-> FALSE, is_completed |-> FALSE]

Init ==
    /\ pc = "populate" /\ i = 0 /\ is_active = TRUE /\ ready = {}
    /\ task_assignments = [n \in TaskIndex |-> NewTask] /\ assignment_count = 0
    /\ employees = [n \in Row |-> NoEmployee] /\ employee_count = 0
    /\ conn = [ip \in Ips |-> "none"]
    /\ results = [ip \in Ips |-> <<>>] /\ work = [ip \in Ips |-> <<>>]
    /\ alive = [ip \in Ips |-> TRUE]
    /\ bcast = {} /\ faults = 0

-----------------------------------------------------------------------------
NotSent(n) == ~task_assignments[n].is_sent     \* mutant: !is_completed forgotten
Unsent(n) == ~task_assignments[n].is_sent /\ ~task_assignments[n].is_completed
WasSent(n) == task_assignments[n].is_sent      \* mutant: !is_completed forgotten
Pending(n) == task_assignments[n].is_sent /\ ~task_assignments[n].is_completed
Open(j) == employees[j].sockfd = "open"
Usable(j) == Open(j) /\ employees[j].state = "CONFIGURED"

\* The row a search by address stops at.
FirstRow(j, ip) ==
    /\ j \in Listed /\ employees[j].ip = ip
    /\ \A k \in 0 .. j - 1 : employees[k].ip # ip
KnownOffByOne(ip) == \E j \in Listed \ {0} : employees[j].ip = ip   \* mutant
Known(ip) == \E j \in Listed : employees[j].ip = ip
RoomOffByOne == employee_count <= MaxEmployees                      \* mutant
Room == employee_count < MaxEmployees

\* Whom step 4 gives a task to, and what the two thresholds say.
Available(j) == Usable(j) /\ employees[j].active_tasks < MaxActive
NeverExpired(n) == FALSE                       \* mutant: no timeout
Expired(n) == Pending(n) /\ task_assignments[n].age > TaskTimeout
Stale(j) == employees[j].silent > StaleThreshold

Enter(l) == pc' = l /\ i' = 0
Advance == i' = i + 1 /\ UNCHANGED pc
Fault == faults < MaxFaults /\ faults' = faults + 1

\* close(sockfd): what was readable and not read is gone.
NoClose(ip) == UNCHANGED <<conn, results>>     \* mutant: the descriptor leaks
Disconnect(ip) ==
    /\ conn' = [conn EXCEPT ![ip] = "none"]
    /\ results' = [results EXCEPT ![ip] = <<>>]

\* Scan the chunk directory; add_task_assignment refuses what does not fit,
\* and nobody looks at its answer.
populate_chunked_tasks ==
    /\ pc = "populate"
    /\ \E file_count \in 0 .. MaxFiles :
          assignment_count' = IF file_count > MaxAssignments THEN MaxAssignments
                                                             ELSE file_count
    /\ Enter("select")
    /\ UNCHANGED <<is_active, ready, task_assignments, employees, employee_count, network>>

\* The connections select() reports readable: a result or the end of the stream.
Readable(ip) == results[ip] # <<>> \/ conn[ip] = "gone"

Select ==
    /\ pc = "select"
    /\ ready' = {ip \in Ips : Readable(ip)
                              /\ \E j \in Listed : employees[j].ip = ip /\ Open(j)}
    /\ Enter(IF bcast = {} THEN "receive" ELSE "discover")
    /\ UNCHANGED <<is_active, tables, network>>

\* signal_handler ran in this thread: select() fails with EINTR and leaves the
\* set as it was filled, so that every socket in it passes for readable.
Interrupted ==
    /\ pc = "select"
    /\ Interrupts /\ Fault
    /\ ready' = {ip \in Ips : \E j \in Listed : employees[j].ip = ip /\ Open(j)}
    /\ Enter("discover")
    /\ UNCHANGED <<is_active, tables, conn, results, work, alive, bcast>>

\* Any other error of select() leaves the loop, whatever is still to be done.
SelectFails ==
    /\ pc = "select"
    /\ Fault
    /\ Enter("cleanup")
    /\ UNCHANGED <<is_active, ready, tables, conn, results, work, alive, bcast>>

\* create_tcp_connection(ip): whether it succeeds is up to the employee.
Connect(ip, ok) ==
    \/ ok /\ alive[ip] /\ conn' = [conn EXCEPT ![ip] = "up"] /\ UNCHANGED faults
    \/ ~ok /\ ~alive[ip] /\ UNCHANGED <<conn, faults>>
    \/ ~ok /\ alive[ip] /\ Fault /\ UNCHANGED conn

UpdateEmployee(j) ==
    \/ /\ Open(j)
       /\ employees' = [employees EXCEPT ![j].silent = 0]
       /\ UNCHANGED <<conn, faults>>
    \/ /\ ~Open(j)
       /\ \E ok \in BOOLEAN :
             /\ Connect(employees[j].ip, ok)
             /\ employees' = [employees EXCEPT ![j] =
                   IF ok THEN [@ EXCEPT !.silent = 0, !.sockfd = "open", !.state = "NEW"]
                         ELSE [@ EXCEPT !.silent = 0]]

AddEmployee(ip) ==
    /\ Room
    /\ \E ok \in BOOLEAN :
          /\ Connect(ip, ok)
          /\ employees' = [employees EXCEPT ![employee_count] =
                [ip |-> ip, silent |-> 0, sockfd |-> IF ok THEN "open" ELSE "closed",
                 state |-> "NEW", active_tasks |-> 0]]
    /\ employee_count' = employee_count + 1

\* One datagram is read per iteration and handed to add_or_update_employee;
\* recvfrom waits if there is none.
add_or_update_employee(ip) ==
    /\ pc = "discover"
    /\ ip \in bcast
    /\ bcast' = bcast \ {ip}
    /\ \/ \E j \in Row : FirstRow(j, ip) /\ UpdateEmployee(j) /\ UNCHANGED employee_count
       \/ ~Known(ip) /\ AddEmployee(ip)
       \/ /\ ~Known(ip) /\ ~Room
          /\ UNCHANGED <<employees, employee_count, conn, faults>>
    /\ Enter("receive")
    /\ UNCHANGED <<is_active, ready, task_assignments, assignment_count,
                   results, work, alive>>

-----------------------------------------------------------------------------
\* The loops of the main loop, the element at index i when the step is not for
\* it, and the end of a loop.  The set of select() is not looked at after step 2.
EmployeeLoops == {"receive", "configure", "stale"}
TaskLoops == {"assign", "send"}
Following(l) == CASE l = "receive"   -> "configure"
                  [] l = "configure" -> "assign"
                  [] l = "assign"    -> "send"
                  [] l = "send"      -> "timeouts"
                  [] l = "stale"     -> "report"

AtEmployee(l) == pc = l /\ i \in Listed
AtTask(l) == pc = l /\ i \in Queued

OpenSocket(j) == Open(j)                       \* mutant: FD_ISSET forgotten
HasResult(j) == Open(j) /\ employees[j].ip \in ready
Unconfigured(j) == Open(j) /\ employees[j].state = "NEW"
Assignable(n) == Unsent(n) /\ \E j \in Listed : Available(j)
AnyTarget(n, j) == j \in Listed /\ Usable(j)   \* mutant: no address compared
Target(n, j) == FirstRow(j, task_assignments[n].employee_ip) /\ Usable(j)
Sendable(n) == Unsent(n) /\ \E j \in Row : Target(n, j)

LoopEnd ==
    /\ \/ pc \in EmployeeLoops /\ i \notin Listed
       \/ pc \in TaskLoops /\ i \notin Queued
    /\ Enter(Following(pc))
    /\ ready' = IF pc = "receive" THEN {} ELSE ready
    /\ UNCHANGED <<is_active, tables, network>>

Skip ==
    /\ \/ AtEmployee("receive") /\ ~HasResult(i)
       \/ AtEmployee("configure") /\ ~Unconfigured(i)
       \/ AtTask("assign") /\ ~Assignable(i)
       \/ AtTask("send") /\ ~Sendable(i)
       \/ AtEmployee("stale") /\ ~Stale(i)
    /\ Advance
    /\ UNCHANGED <<is_active, ready, tables, network>>

\* Step 2.  The first bytes of a result are there, or the end of the stream.
\* The rest of a result is read in parts, without a timeout (Blockable).
BeginReceive ==
    /\ AtEmployee("receive") /\ HasResult(i)
    /\ results[employees[i].ip] # <<>>
    /\ pc' = "reading"
    /\ UNCHANGED <<i, is_active, ready, tables, network>>

\* A result completes its task and takes one off the active tasks of the
\* employee that sent it; a second result for a task changes nothing.  If
\* the result file cannot be written the result is read and thrown away.
receive_result_from_employee ==
    /\ AtEmployee("reading") /\ HasResult(i)
    /\ LET ip == employees[i].ip
           n  == Head(results[ip])
       IN  /\ results[ip] # <<>>
           /\ results' = [results EXCEPT ![ip] = Tail(@)]
           /\ \/ /\ ~task_assignments[n].is_completed
                 /\ task_assignments' = [task_assignments EXCEPT ![n].is_completed = TRUE]
                 /\ employees' = [employees EXCEPT ![i].active_tasks =
                                    IF @ > 0 THEN @ - 1 ELSE @]
                 /\ UNCHANGED faults
              \/ /\ task_assignments[n].is_completed
                 /\ UNCHANGED <<task_assignments, employees, faults>>
              \/ Fault /\ UNCHANGED <<task_assignments, employees>>
    /\ pc' = "receive" /\ i' = i + 1
    /\ UNCHANGED <<is_active, ready, assignment_count, employee_count,
                   conn, work, alive, bcast>>

\* The stream ends, before a result or in the middle of it, or a length header
\* that arrives in two parts is taken for an error (Connection).
ReceiveFails ==
    /\ AtEmployee("receive") \/ AtEmployee("reading")
    /\ HasResult(i)
    /\ LET ip == employees[i].ip IN
       /\ \/ results[ip] = <<>> /\ conn[ip] = "gone" /\ UNCHANGED faults
          \/ pc = "reading" /\ Fault
       /\ Disconnect(ip)
    /\ employees' = [employees EXCEPT ![i].sockfd = "closed"]
    /\ pc' = "receive" /\ i' = i + 1
    /\ UNCHANGED <<is_active, ready, task_assignments, assignment_count,
                   employee_count, work, alive, bcast>>

\* Writing to a connection the employee left: the kernel may still accept the
\* bytes, or refuse them with an error, or raise SIGPIPE, which nobody handles.
Delivered(ip) == conn[ip] \in {"up", "gone"} /\ UNCHANGED <<conn, results, faults>>
Refused(ip) ==
    /\ \/ conn[ip] = "gone" /\ UNCHANGED faults
       \/ conn[ip] = "up" /\ Fault      \* the file to send cannot be opened
    /\ Disconnect(ip)

\* Step 3.
send_initial_config ==
    /\ AtEmployee("configure") /\ Unconfigured(i)
    /\ \/ /\ Delivered(employees[i].ip)
          /\ employees' = [employees EXCEPT ![i].state = "CONFIGURED"]
       \/ /\ Refused(employees[i].ip)
          /\ employees' = [employees EXCEPT ![i].sockfd = "closed"]
    /\ Advance
    /\ UNCHANGED <<is_active, ready, task_assignments, assignment_count, employee_count,
                   work, alive, bcast>>

\* Step 4: every unsent task, assigned before or not, goes to the first
\* employee with room.
Assign ==
    /\ AtTask("assign") /\ Unsent(i)
    /\ \E j \in Listed :
          /\ Available(j)
          /\ \A k \in 0 .. j - 1 : ~Available(k)
          /\ task_assignments' = [task_assignments EXCEPT
                ![i].employee_ip = employees[j].ip, ![i].age = 0]
          /\ employees' = [employees EXCEPT ![j].active_tasks = @ + 1]
    /\ Advance
    /\ UNCHANGED <<is_active, ready, assignment_count, employee_count, network>>

\* Step 5.  A chunk that reaches an employee without room for it is dropped
\* there; one written to a connection that is gone reaches nobody.
send_pending_tasks ==
    /\ AtTask("send") /\ Unsent(i)
    /\ \E j \in Row :
          /\ Target(i, j)
          /\ LET ip == employees[j].ip IN
             \/ /\ Delivered(ip)
                /\ task_assignments' = [task_assignments EXCEPT ![i].is_sent = TRUE]
                /\ work' = IF conn[ip] = "up" /\ Len(work[ip]) < BufferCap
                           THEN [work EXCEPT ![ip] = Append(@, i)] ELSE work
                /\ UNCHANGED employees
             \/ /\ Refused(ip)
                /\ employees' = [employees EXCEPT ![j].sockfd = "closed"]
                /\ UNCHANGED <<task_assignments, work>>
    /\ Advance
    /\ UNCHANGED <<is_active, ready, assignment_count, employee_count, alive, bcast>>

\* A write of step 3 or 5 raised SIGPIPE: the process ends there.
BrokenPipe ==
    /\ \/ AtEmployee("configure") /\ Unconfigured(i) /\ conn[employees[i].ip] = "gone"
       \/ AtTask("send") /\ Unsent(i)
             /\ \E j \in Row : Target(i, j) /\ conn[employees[j].ip] = "gone"
    /\ Enter("killed")
    /\ conn' = [ip \in Ips |-> "none"]
    /\ results' = [ip \in Ips |-> <<>>]
    /\ UNCHANGED <<is_active, ready, tables, work, alive, bcast, faults>>

\* Each task timed out takes one off the active tasks of the first employee
\* with its address, as long as there are any.
handle_task_timeouts ==
    LET Overdue == {n \in Queued : Expired(n)}
        From(j) == {n \in Overdue : FirstRow(j, task_assignments[n].employee_ip)}
    IN
    /\ pc = "timeouts"
    /\ task_assignments' = [n \in TaskIndex |->
          IF n \in Overdue THEN [task_assignments[n] EXCEPT !.is_sent = FALSE]
                           ELSE task_assignments[n]]
    /\ employees' = [j \in Row |->
          IF j \in Listed
          THEN [employees[j] EXCEPT !.active_tasks =
                  IF @ > Cardinality(From(j)) THEN @ - Cardinality(From(j)) ELSE 0]
          ELSE employees[j]]
    /\ Enter("stale")
    /\ UNCHANGED <<is_active, ready, assignment_count, employee_count, network>>

\* Step 6: the last row moves into the place of the one removed, and the same
\* index is looked at again.
remove_stale_employees ==
    /\ AtEmployee("stale") /\ Stale(i)
    /\ employees' = [employees EXCEPT ![i] = employees[employee_count - 1],
                                      ![employee_count - 1] = NoEmployee]
    /\ employee_count' = employee_count - 1
    /\ IF Open(i) THEN Disconnect(employees[i].ip) ELSE UNCHANGED <<conn, results>>
    /\ UNCHANGED <<loopVars, task_assignments, assignment_count, work, alive, bcast, faults>>

\* Steps 7 and 8.
AllSent ==                                     \* mutant: counts what was sent
    /\ assignment_count > 0
    /\ \A n \in Queued : task_assignments[n].is_sent
AllCompleted ==
    /\ assignment_count > 0
    /\ Cardinality({n \in Queued : task_assignments[n].is_completed}) >= assignment_count

CheckCompletion ==
    /\ pc = "report"
    /\ is_active' = ~AllCompleted
    /\ Enter(IF AllCompleted THEN "cleanup" ELSE "select")
    /\ UNCHANGED <<ready, tables, network>>

Cleanup ==
    /\ pc = "cleanup"
    /\ conn' = [ip \in Ips |-> "none"]
    /\ results' = [ip \in Ips |-> <<>>]
    /\ employees' = [j \in Row |-> NoEmployee]
    /\ employee_count' = 0
    /\ Enter("done")
    /\ UNCHANGED <<is_active, ready, task_assignments, assignment_count,
                   work, alive, bcast, faults>>

MainLoop ==
    \/ populate_chunked_tasks
    \/ Select \/ Interrupted \/ SelectFails
    \/ \E ip \in Ips : add_or_update_employee(ip)
    \/ LoopEnd \/ Skip
    \/ BeginReceive \/ receive_result_from_employee \/ ReceiveFails
    \/ send_initial_config
    \/ Assign
    \/ send_pending_tasks
    \/ BrokenPipe
    \/ handle_task_timeouts
    \/ remove_stale_employees
    \/ CheckCompletion
    \/ Cleanup

-----------------------------------------------------------------------------
\* The chunks ip has, and those whose results are under way.
Carried(ip) == {n \in TaskIndex : \E k \in 1 .. Len(work[ip] \o results[ip]) :
                                     (work[ip] \o results[ip])[k] = n}

\* The environment.  An employee broadcasts, and answers the chunks it has in
\* any order: what its node or its connection refused goes to the end of a
\* queue.  It may as well answer none: once its node has ended the connection
\* it drops every chunk (Employee).  Broken connections are faults, of which
\* there are MaxFaults; chunks lost and answers or broadcasts that come too late
\* count as faults or not (LossesCount).
Loss == IF LossesCount THEN Fault ELSE UNCHANGED faults

Broadcast(ip) ==
    /\ alive[ip]
    /\ ip \notin bcast
    /\ bcast' = bcast \cup {ip}
    /\ UNCHANGED <<loopVars, tables, conn, results, work, alive, faults>>

Answer(ip) ==
    /\ conn[ip] = "up"
    /\ Len(results[ip]) < WireCap
    /\ \E k \in 1 .. Len(work[ip]) :
          /\ results' = [results EXCEPT ![ip] = Append(@, work[ip][k])]
          /\ work' = [work EXCEPT ![ip] = RemoveAt(@, k)]
    /\ UNCHANGED <<loopVars, tables, conn, alive, bcast, faults>>

\* A chunk that produces no result.
LoseChunk(ip) ==
    /\ Loss
    /\ \E k \in 1 .. Len(work[ip]) : work' = [work EXCEPT ![ip] = RemoveAt(@, k)]
    /\ UNCHANGED <<loopVars, tables, conn, results, alive, bcast>>

\* The employee drops the connection, alone or because it dies.  Of the
\* results on their way only the first arrive.
Break(ip) ==
    /\ Fault
    /\ conn[ip] = "up"
    /\ conn' = [conn EXCEPT ![ip] = "gone"]
    /\ \E k \in 0 .. Len(results[ip]) :
          results' = [results EXCEPT ![ip] = SubSeq(@, 1, k)]
    /\ \/ UNCHANGED <<alive, work>>
       \/ alive' = [alive EXCEPT ![ip] = FALSE] /\ work' = [work EXCEPT ![ip] = <<>>]
    /\ UNCHANGED <<loopVars, tables, bcast>>

Restart(ip) ==
    /\ ~alive[ip]
    /\ alive' = [alive EXCEPT ![ip] = TRUE]
    /\ UNCHANGED <<loopVars, tables, conn, results, work, bcast, faults>>

\* Time passes where the loop can block: in select, connect, read and write.
TickPoints == {"select", "discover", "receive", "reading", "configure", "send"}
Grow(age, limit) == IF age > limit THEN age ELSE age + 1
Silenced == \E j \in Listed : employees[j].silent = StaleThreshold /\ alive[employees[j].ip]
Late == \E n \in Queued :
    /\ Pending(n) /\ task_assignments[n].age = TaskTimeout
    /\ \E ip \in Ips : n \in Carried(ip)

Tick ==
    /\ pc \in TickPoints
    /\ IF Silenced \/ Late THEN Loss ELSE UNCHANGED faults
    /\ task_assignments' = [n \in TaskIndex |->
          IF task_assignments[n].is_completed THEN task_assignments[n]
          ELSE [task_assignments[n] EXCEPT !.age = Grow(@, TaskTimeout)]]
    /\ employees' = [j \in Row |->
          IF j \in Listed THEN [employees[j] EXCEPT !.silent = Grow(@, StaleThreshold)]
          ELSE employees[j]]
    /\ UNCHANGED <<loopVars, assignment_count, employee_count,
                   conn, results, work, alive, bcast>>

Environment ==
    \/ \E ip \in Ips :
          Broadcast(ip) \/ Answer(ip) \/ LoseChunk(ip) \/ Break(ip) \/ Restart(ip)
    \/ Tick

\* The process has ended; the employees may go on.
Ended == pc \in {"done", "killed"} /\ UNCHANGED vars

Next == MainLoop \/ Environment \/ Ended

Spec == Init /\ [][Next]_vars

\* The step the thread is at may never come: it waits for a datagram or
\* a result that is not there, for the rest of a result, or for room to write,
\* none of them with a timeout, on a connection nobody has closed.
Blockable ==
    \/ pc = "discover" /\ bcast = {}
    \/ AtEmployee("receive") /\ HasResult(i) /\ ~Readable(employees[i].ip)
    \/ AtEmployee("reading") /\ conn[employees[i].ip] = "up"
    \/ AtEmployee("configure") /\ Unconfigured(i) /\ conn[employees[i].ip] = "up"
    \/ AtTask("send") /\ Unsent(i)
          /\ \E j \in Row : Target(i, j) /\ conn[employees[j].ip] = "up"

\* The thread is scheduled wherever it does not wait for others, and time
\* passes.  Of the employees nothing is assumed.
FairSpec ==
    /\ Spec
    /\ WF_vars(MainLoop /\ ~Blockable) /\ SF_vars(Tick)

\* More than the code gives, for the one run that looks for a failure: nothing
\* the loop reads or writes blocks it, and employees that are up broadcast and
\* answer.  An address that keeps broadcasting is not passed over for ever.
BestCaseSpec ==
    /\ Spec
    /\ WF_vars(MainLoop) /\ SF_vars(Tick)
    /\ \A ip \in Ips : /\ WF_vars(Broadcast(ip)) /\ WF_vars(Answer(ip))
                       /\ SF_vars(add_or_update_employee(ip))

-----------------------------------------------------------------------------
Locations == {"populate", "select", "discover", "receive", "reading", "configure", "assign",
              "send", "timeouts", "stale", "report", "cleanup", "done", "killed"}

LoopType ==
    /\ pc \in Locations /\ i \in Nat /\ is_active \in BOOLEAN
    /\ ready \in SUBSET Ips
TasksType ==
    /\ task_assignments \in [TaskIndex -> Task]
    /\ assignment_count \in 0 .. MaxAssignments
EmployeesType ==
    /\ employees \in [Row -> Employee \cup {NoEmployee}]
    /\ employee_count \in 0 .. MaxEmployees
    /\ \A j \in Row : employees[j] \in Employee <=> j < employee_count
NetworkType ==
    /\ conn \in [Ips -> {"none", "up", "gone"}]
    /\ results \in [Ips -> Seq(TaskIndex)] /\ work \in [Ips -> Seq(TaskIndex)]
    /\ alive \in [Ips -> BOOLEAN] /\ bcast \in SUBSET Ips
    /\ faults \in 0 .. MaxFaults

\* Type correctness: the tables stay inside their arrays, the rows in use hold
\* employees and the others none, and active_tasks stays in 0 .. 3 through all
\* the increments and decrements scattered over the loop.
TypeOK == LoopType /\ TasksType /\ EmployeesType /\ NetworkType

\* No address is listed twice, however rows are added, moved and removed.
UniqueEmployees ==
    \A j, k \in Listed : employees[j].ip = employees[k].ip => j = k

\* The connections are exactly the open sockets of the listed employees: no
\* descriptor is lost when a row is removed or a connection replaced, and none
\* is closed while its row still says it is open.  (SIGPIPE ends them all.)
SocketsAgree ==
    pc # "killed" => \A ip \in Ips : conn[ip] # "none" <=> \E j \in Listed : employees[j].ip = ip /\ Open(j)

\* Unless a signal interrupts select() (Interrupts), a read begins only where
\* there is something to read: select() vouches for the first read of steps 1
\* and 2 on every socket, though rows are added and connections replaced in
\* between.  (What follows the first bytes of a result can block: Blockable.)
ReadsStartReady ==
    /\ pc = "discover" => bcast # {}
    /\ \A j \in Listed :
          pc \in {"receive", "reading"} /\ j >= i /\ HasResult(j) => Readable(employees[j].ip)

\* The employer declares itself inactive only when every task of its table has
\* been completed by a result, never because some were given up.  (A failing
\* select() leaves the loop with is_active still set.)
StopsWhenCompleted ==
    ~is_active =>
        assignment_count > 0 /\ \A n \in Queued : task_assignments[n].is_completed

\* What an employee holds, sends or has answered was assigned to somebody:
\* no task is worked on, or completed, that was never given out.
OnlyAssignedWork ==
    \A n \in TaskIndex : task_assignments[n].employee_ip = NoIp =>
        /\ ~task_assignments[n].is_sent /\ ~task_assignments[n].is_completed
        /\ \A ip \in Ips : \A k \in 1 .. Len(work[ip] \o results[ip]) :
              (work[ip] \o results[ip])[k] # n

\* A completed task stays completed and is never sent again.
CompletedIsFinal ==
    [][\A n \in TaskIndex : task_assignments[n].is_completed =>
          /\ task_assignments'[n].is_completed
          /\ task_assignments'[n].is_sent = task_assignments[n].is_sent]_vars

\* A chunk goes to the employee its task is assigned to at that moment and to
\* no other, on a socket that stays open, and the task counts as sent: the row
\* found by address is the right one after rows were removed, moved and filled
\* anew and the task assigned again.
SentToAssignee ==
    [][\A ip \in Ips : \A n \in Carried(ip)' \ Carried(ip) :
          /\ task_assignments[n].employee_ip = ip /\ task_assignments'[n].is_sent
          /\ \E j \in Listed : employees'[j].ip = ip /\ employees'[j].sockfd = "open"]_vars

\* The employer implements TaskFarm: whatever its tables, sockets and timeouts
\* do, only a waiting task is handed out, a task becomes done by the result of
\* an employee that has a copy of it and never because it was taken back or
\* sent to a connection that broke, and the end comes when all are done, unless
\* a broken pipe or a failing select() aborts the farm.
Farm == INSTANCE TaskFarm WITH
    Tasks    <- TaskIndex,
    Workers  <- Ips,
    accepted <- Queued,
    out      <- {n \in TaskIndex : Pending(n)},
    done     <- {n \in TaskIndex : task_assignments[n].is_completed},
    copies   <- [ip \in Ips |-> Carried(ip)],
    state    <- CASE pc = "populate" -> "open"
                  [] pc \in {"cleanup", "done"} /\ ~is_active -> "finished"
                  [] pc = "killed" \/ (pc \in {"cleanup", "done"} /\ is_active) -> "aborted"
                  [] OTHER -> "working"
ImplementsFarm == Farm!Spec

\* A chunk that was sent does not stay unsettled: its result comes or the task
\* is taken back, to be sent again, although the employee may never answer, its
\* connection break, its row go to somebody else and the loop lose time in
\* every read, as long as no single read or write blocks it for ever.
SentIsSettled ==
    []<>~Blockable => \A n \in TaskIndex :
        Pending(n) ~> ~Pending(n) \/ pc \in {"done", "killed"}

-----------------------------------------------------------------------------
\* What the comments and the documentation say and the code does not do.

\* "4. Assign unassigned tasks to available employees" (715): it is not the
\* case that from some point on a task stays unsent while an employee without
\* any work is connected and configured.
Idle(j) == LET ip == employees[j].ip IN
           Usable(j) /\ conn[ip] = "up" /\ work[ip] = <<>> /\ results[ip] = <<>>
Starving == \E n \in Queued : Unsent(n) /\ \E j \in Listed : Idle(j)
IdleEmployeesGetWork == []<>~Starving
=============================================================================
