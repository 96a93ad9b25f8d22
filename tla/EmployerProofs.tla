--------------------------- MODULE EmployerProofs ---------------------------
(***************************************************************************)
(* What holds of the employer's main loop for any number of employees,     *)
(* files and faults and any thresholds: first of its tables, then between  *)
(* the tables and the connections.  Sockets and rows agree, reads find     *)
(* something to read, the work of the employees was assigned to them, and  *)
(* the whole implements TaskFarm.                                          *)
(***************************************************************************)
EXTENDS Employer, FiniteSetTheorems, SequenceTheorems, TLAPS

LEMMA ListedRows ==
    ASSUME EmployeesType, NEW j \in Listed
    PROVE  j \in Row /\ employees[j] \in Employee
  BY BoundsAssumption DEF EmployeesType, Listed, Row

LEMMA QueuedTasks ==
    ASSUME TasksType, NEW n \in Queued
    PROVE  n \in TaskIndex /\ task_assignments[n] \in Task
  BY BoundsAssumption DEF TasksType, Queued, TaskIndex

\* A row in use gets a new content.
LEMMA ReplaceRow ==
    ASSUME EmployeesType, NEW j \in Listed, NEW e \in Employee,
           employees' = [employees EXCEPT ![j] = e], employee_count' = employee_count
    PROVE  EmployeesType'
  BY ListedRows DEF EmployeesType

\* A row is added at the end of the table.
LEMMA AppendRow ==
    ASSUME EmployeesType, NEW e \in Employee, employee_count < MaxEmployees,
           employees' = [employees EXCEPT ![employee_count] = e],
           employee_count' = employee_count + 1
    PROVE  EmployeesType'
  <1>1. employee_count \in Row /\ MaxEmployees \in Nat
    BY BoundsAssumption DEF EmployeesType, Row
  <1>2. \A j \in Row : employees'[j] = IF j = employee_count THEN e ELSE employees[j]
    BY DEF EmployeesType
  <1>3. \A j \in Row : employees'[j] \in Employee <=> j < employee_count'
    BY <1>1, <1>2 DEF EmployeesType, Row
  <1> QED
    BY <1>1, <1>3 DEF EmployeesType

\* The last row moves to row j.
LEMMA RemoveRow ==
    ASSUME EmployeesType, NEW j \in Listed,
           employees' = [employees EXCEPT ![j] = employees[employee_count - 1],
                                          ![employee_count - 1] = NoEmployee],
           employee_count' = employee_count - 1
    PROVE  /\ EmployeesType'
           /\ \A k \in Listed' : employees'[k] = IF k = j THEN employees[employee_count - 1]
                                                          ELSE employees[k]
  <1>1. /\ employee_count - 1 \in Row /\ employee_count - 1 \in Listed /\ j \in Row
        /\ employee_count \in Nat /\ MaxEmployees \in Nat
    BY BoundsAssumption, ListedRows DEF EmployeesType, Row, Listed
  <1>2. \A k \in Row : employees'[k] = IF k = employee_count - 1 THEN NoEmployee
                                       ELSE IF k = j THEN employees[employee_count - 1]
                                       ELSE employees[k]
    BY <1>1 DEF EmployeesType
  <1>3. \A k \in Row : employees'[k] \in Employee <=> k < employee_count'
    BY <1>1, <1>2, NoEmployeeAssumption, ListedRows DEF EmployeesType, Row, Listed
  <1> QED
    BY <1>1, <1>2, <1>3 DEF EmployeesType, Listed, Row

\* Employees with one or more fields replaced.
LEMMA EmployeeFields ==
    ASSUME NEW e \in Employee
    PROVE  /\ e.ip \in Ips /\ e.active_tasks \in 0 .. MaxActive
           /\ e.silent \in 0 .. StaleThreshold + 1
           /\ \A s \in 0 .. StaleThreshold + 1 : [e EXCEPT !.silent = s] \in Employee
           /\ \A s \in 0 .. StaleThreshold + 1 :
                 [e EXCEPT !.silent = s, !.sockfd = "open", !.state = "NEW"] \in Employee
           /\ [e EXCEPT !.sockfd = "closed"] \in Employee
           /\ [e EXCEPT !.state = "CONFIGURED"] \in Employee
           /\ \A a \in 0 .. MaxActive : [e EXCEPT !.active_tasks = a] \in Employee
  BY DEF Employee

\* active_tasks++ and active_tasks--, guarded as the code guards them.
LEMMA CountBounds ==
    ASSUME NEW a \in 0 .. MaxActive
    PROVE  /\ (IF a > 0 THEN a - 1 ELSE a) \in 0 .. MaxActive
           /\ a < MaxActive => a + 1 \in 0 .. MaxActive
           /\ \A c \in Nat : (IF a > c THEN a - c ELSE 0) \in 0 .. MaxActive
  BY BoundsAssumption

LEMMA TaskFields ==
    ASSUME NEW t \in Task
    PROVE  /\ t.employee_ip \in Ips \cup {NoIp} /\ t.age \in 0 .. TaskTimeout + 1
           /\ t.is_sent \in BOOLEAN /\ t.is_completed \in BOOLEAN
           /\ \A b \in BOOLEAN : /\ [t EXCEPT !.is_sent = b] \in Task
                                 /\ [t EXCEPT !.is_completed = b] \in Task
           /\ \A a \in 0 .. TaskTimeout + 1 : [t EXCEPT !.age = a] \in Task
           /\ \A ip \in Ips : \A a \in 0 .. TaskTimeout + 1 :
                 [t EXCEPT !.employee_ip = ip, !.age = a] \in Task
  BY DEF Task

LEMMA DisconnectType ==
    ASSUME NetworkType, NEW ip \in Ips, Disconnect(ip), UNCHANGED <<work, alive, bcast>>,
           faults' \in 0 .. MaxFaults
    PROVE  NetworkType'
  <1>1. <<>> \in Seq(TaskIndex)
    OBVIOUS
  <1> QED
    BY <1>1 DEF NetworkType, Disconnect

LEMMA FaultType ==
    ASSUME NetworkType, Fault \/ UNCHANGED faults
    PROVE  faults' \in 0 .. MaxFaults
  BY BoundsAssumption DEF NetworkType, Fault

-----------------------------------------------------------------------------
\* The main loop keeps the types, one lemma per action.

LEMMA populateType ==
    ASSUME TypeOK, populate_chunked_tasks
    PROVE  TypeOK'
  <1> USE DEF populate_chunked_tasks, Enter, network
  <1>1. LoopType'
    BY DEF TypeOK, LoopType, Locations
  <1>2. TasksType'
    <2>1. PICK file_count \in 0 .. MaxFiles :
             assignment_count' = IF file_count > MaxAssignments THEN MaxAssignments
                                                                ELSE file_count
      OBVIOUS
    <2>2. assignment_count' \in 0 .. MaxAssignments
      BY <2>1, BoundsAssumption
    <2> QED
      BY <2>2 DEF TypeOK, TasksType
  <1>3. EmployeesType' /\ NetworkType'
    BY DEF TypeOK, EmployeesType, NetworkType
  <1> QED
    BY <1>1, <1>2, <1>3 DEF TypeOK

\* Actions that only move on in the loop.
LEMMA ControlType ==
    ASSUME TypeOK, Select \/ LoopEnd \/ Skip \/ BeginReceive \/ CheckCompletion \/ Ended
    PROVE  TypeOK'
  <1>1. LoopType'
    <2>1. CASE CheckCompletion
      <3>1. is_active' \in BOOLEAN
        BY <2>1 DEF CheckCompletion
      <3> QED
        BY <2>1, <3>1 DEF CheckCompletion, TypeOK, LoopType, Locations, Enter
    <2>2. CASE LoopEnd
      BY <2>2 DEF TypeOK, LoopType, Locations, LoopEnd, Enter, Following, EmployeeLoops, TaskLoops
    <2>3. CASE Select \/ Skip \/ BeginReceive \/ Ended
      BY <2>3 DEF TypeOK, LoopType, Locations, Select, Skip, BeginReceive, Ended, Enter,
         Advance, vars
    <2> QED
      BY <2>1, <2>2, <2>3
  <1>2. UNCHANGED <<tables, network>>
    BY DEF Select, LoopEnd, Skip, BeginReceive, CheckCompletion, Ended, vars, tables, network
  <1>3. TasksType' /\ EmployeesType' /\ NetworkType'
    BY <1>2 DEF TypeOK, TasksType, EmployeesType, NetworkType, tables, network
  <1> QED
    BY <1>1, <1>3 DEF TypeOK

LEMMA InterruptedType ==
    ASSUME TypeOK, Interrupted \/ SelectFails
    PROVE  TypeOK'
  <1>1. LoopType'
    BY DEF Interrupted, SelectFails, TypeOK, LoopType, Locations, Enter
  <1>2. NetworkType'
    BY FaultType DEF Interrupted, SelectFails, TypeOK, NetworkType
  <1>3. TasksType' /\ EmployeesType'
    BY DEF Interrupted, SelectFails, TypeOK, TasksType, EmployeesType, tables
  <1> QED
    BY <1>1, <1>2, <1>3 DEF TypeOK

LEMMA ConnectType ==
    ASSUME NetworkType, NEW ip \in Ips, NEW ok, Connect(ip, ok),
           UNCHANGED <<results, work, alive>>, bcast' \subseteq bcast
    PROVE  NetworkType'
  <1>1. \/ conn' = [conn EXCEPT ![ip] = "up"] /\ UNCHANGED faults
        \/ UNCHANGED conn /\ (Fault \/ UNCHANGED faults)
    BY Zenon DEF Connect
  <1> QED
    BY <1>1, FaultType DEF NetworkType

LEMMA discoverType ==
    ASSUME TypeOK, NEW ip \in Ips, add_or_update_employee(ip)
    PROVE  TypeOK'
  <1>0. UNCHANGED <<results, work, alive>> /\ bcast' \subseteq bcast
    BY DEF add_or_update_employee
  <1>1. ASSUME NEW j \in Row, FirstRow(j, ip), UpdateEmployee(j), UNCHANGED employee_count
        PROVE  EmployeesType' /\ NetworkType'
    <2>1. j \in Listed /\ employees[j] \in Employee /\ employees[j].ip \in Ips
      BY <1>1, ListedRows, EmployeeFields DEF FirstRow, TypeOK
    <2>2. 0 \in 0 .. StaleThreshold + 1
      BY BoundsAssumption
    <2>3. CASE UNCHANGED <<conn, faults>> /\ employees' = [employees EXCEPT ![j].silent = 0]
      <3>1. [employees[j] EXCEPT !.silent = 0] \in Employee
        BY <2>1, <2>2, EmployeeFields
      <3>2. EmployeesType'
        BY <1>1, <2>1, <2>3, <3>1, ReplaceRow DEF TypeOK
      <3> QED
        BY <1>0, <2>3, <3>2 DEF TypeOK, NetworkType
    <2>4. ASSUME NEW ok \in BOOLEAN, Connect(employees[j].ip, ok),
                 employees' = [employees EXCEPT ![j] =
                    IF ok THEN [@ EXCEPT !.silent = 0, !.sockfd = "open", !.state = "NEW"]
                          ELSE [@ EXCEPT !.silent = 0]]
          PROVE  EmployeesType' /\ NetworkType'
      <3>1. PICK e \in Employee : employees' = [employees EXCEPT ![j] = e]
        <4>1. CASE ok
          BY <2>1, <2>2, <2>4, <4>1, EmployeeFields
        <4>2. CASE ~ok
          BY <2>1, <2>2, <2>4, <4>2, EmployeeFields
        <4> QED
          BY <4>1, <4>2
      <3>2. EmployeesType'
        BY <1>1, <2>1, <3>1, ReplaceRow DEF TypeOK
      <3> QED
        BY <1>0, <2>1, <2>4, <3>2, ConnectType DEF TypeOK
    <2> QED
      BY <1>1, <2>3, <2>4 DEF UpdateEmployee
  <1>2. ASSUME AddEmployee(ip) PROVE EmployeesType' /\ NetworkType'
    <2> DEFINE new(ok) == [ip |-> ip, silent |-> 0,
                           sockfd |-> IF ok THEN "open" ELSE "closed",
                           state |-> "NEW", active_tasks |-> 0]
    <2>1. PICK ok \in BOOLEAN :
             Connect(ip, ok) /\ employees' = [employees EXCEPT ![employee_count] = new(ok)]
      BY <1>2 DEF AddEmployee
    <2>2. new(ok) \in Employee
      <3>1. (IF ok THEN "open" ELSE "closed") \in {"closed", "open"}
        OBVIOUS
      <3>2. 0 \in 0 .. StaleThreshold + 1 /\ 0 \in 0 .. MaxActive
        BY BoundsAssumption
      <3> QED
        BY <3>1, <3>2 DEF Employee
    <2> HIDE DEF new
    <2>3. EmployeesType'
      BY <1>2, <2>1, <2>2, AppendRow DEF AddEmployee, Room, TypeOK
    <2> QED
      BY <1>0, <2>1, <2>3, ConnectType DEF TypeOK
  <1>3. ASSUME UNCHANGED <<employees, employee_count, conn, faults>>
        PROVE  EmployeesType' /\ NetworkType'
    BY <1>0, <1>3 DEF TypeOK, EmployeesType, NetworkType
  <1>4. EmployeesType' /\ NetworkType'
    BY <1>1, <1>2, <1>3 DEF add_or_update_employee
  <1>5. LoopType' /\ TasksType'
    BY DEF add_or_update_employee, TypeOK, LoopType, TasksType, Locations, Enter
  <1> QED
    BY <1>4, <1>5 DEF TypeOK

\* Advance keeps the loop's own variables in their types.
LEMMA AdvanceType ==
    ASSUME LoopType, Advance, UNCHANGED <<is_active, ready>>
    PROVE  LoopType'
  BY DEF LoopType, Advance

\* One result is done with.
LEMMA NextRowType ==
    ASSUME LoopType, pc' = "receive", i' = i + 1, UNCHANGED <<is_active, ready>>
    PROVE  LoopType'
  BY DEF LoopType, Locations

LEMMA receiveType ==
    ASSUME TypeOK, receive_result_from_employee
    PROVE  TypeOK'
  <1> USE DEF receive_result_from_employee
  <1>1. i \in Listed /\ employees[i] \in Employee /\ employees[i].ip \in Ips
    BY ListedRows, EmployeeFields DEF TypeOK, AtEmployee
  <1> DEFINE ip == employees[i].ip
             n == Head(results[ip])
  <1>2. n \in TaskIndex /\ Tail(results[ip]) \in Seq(TaskIndex)
    BY <1>1, HeadTailProperties DEF TypeOK, NetworkType
  <1>3. NetworkType'
    <2>1. faults' \in 0 .. MaxFaults
      BY FaultType DEF TypeOK
    <2> QED
      BY <1>1, <1>2, <2>1 DEF TypeOK, NetworkType
  <1>4. TasksType'
    <2>1. [task_assignments[n] EXCEPT !.is_completed = TRUE] \in Task
      BY <1>2, TaskFields DEF TypeOK, TasksType
    <2>2. \/ UNCHANGED task_assignments
          \/ task_assignments' = [task_assignments EXCEPT
                ![n] = [task_assignments[n] EXCEPT !.is_completed = TRUE]]
      OBVIOUS
    <2> QED
      BY <1>2, <2>1, <2>2 DEF TypeOK, TasksType
  <1>5. EmployeesType'
    <2> DEFINE a == employees[i].active_tasks
               less == IF a > 0 THEN a - 1 ELSE a
    <2>1. less \in 0 .. MaxActive
      <3>1. a \in 0 .. MaxActive
        BY <1>1, EmployeeFields
      <3> QED
        BY <3>1, CountBounds
    <2>2. [employees[i] EXCEPT !.active_tasks = less] \in Employee
      BY <1>1, <2>1, EmployeeFields
    <2>3. \/ UNCHANGED employees
          \/ employees' = [employees EXCEPT ![i] = [employees[i] EXCEPT !.active_tasks = less]]
      OBVIOUS
    <2> HIDE DEF less
    <2>4. CASE UNCHANGED employees
      BY <2>4 DEF TypeOK, EmployeesType
    <2> QED
      BY <1>1, <2>2, <2>3, <2>4, ReplaceRow DEF TypeOK
  <1>6. LoopType'
    BY NextRowType DEF TypeOK
  <1> QED
    BY <1>3, <1>4, <1>5, <1>6 DEF TypeOK

\* close(sockfd) on row j: steps 2, 3 and 5 do it when the connection fails.
LEMMA CloseType ==
    ASSUME TypeOK, NEW j \in Listed, Disconnect(employees[j].ip), Fault \/ UNCHANGED faults,
           employees' = [employees EXCEPT ![j].sockfd = "closed"],
           UNCHANGED <<employee_count, work, alive, bcast>>
    PROVE  EmployeesType' /\ NetworkType'
  <1>1. /\ employees[j] \in Employee /\ employees[j].ip \in Ips
        /\ [employees[j] EXCEPT !.sockfd = "closed"] \in Employee
    BY ListedRows, EmployeeFields DEF TypeOK
  <1>2. EmployeesType'
    BY <1>1, ReplaceRow DEF TypeOK
  <1> QED
    BY <1>1, <1>2, DisconnectType, FaultType DEF TypeOK

LEMMA ReceiveFailsType ==
    ASSUME TypeOK, ReceiveFails
    PROVE  TypeOK'
  <1>1. EmployeesType' /\ NetworkType'
    BY CloseType DEF ReceiveFails, AtEmployee
  <1>2. LoopType' /\ TasksType'
    BY NextRowType DEF ReceiveFails, TypeOK, TasksType
  <1> QED
    BY <1>1, <1>2 DEF TypeOK

LEMMA configureType ==
    ASSUME TypeOK, send_initial_config
    PROVE  TypeOK'
  <1>1. i \in Listed /\ employees[i] \in Employee
    BY ListedRows DEF send_initial_config, AtEmployee, TypeOK
  <1>2. ASSUME Delivered(employees[i].ip),
               employees' = [employees EXCEPT ![i].state = "CONFIGURED"]
        PROVE  EmployeesType' /\ NetworkType'
    <2>1. [employees[i] EXCEPT !.state = "CONFIGURED"] \in Employee
      BY <1>1, EmployeeFields
    <2>2. EmployeesType'
      BY <1>1, <1>2, <2>1, ReplaceRow DEF send_initial_config, TypeOK
    <2> QED
      BY <1>2, <2>2 DEF send_initial_config, Delivered, TypeOK, NetworkType
  <1>3. ASSUME Refused(employees[i].ip),
               employees' = [employees EXCEPT ![i].sockfd = "closed"]
        PROVE  EmployeesType' /\ NetworkType'
    BY <1>1, <1>3, CloseType DEF send_initial_config, Refused
  <1>4. EmployeesType' /\ NetworkType'
    BY <1>2, <1>3 DEF send_initial_config
  <1>5. LoopType' /\ TasksType'
    BY AdvanceType DEF send_initial_config, TypeOK, TasksType
  <1> QED
    BY <1>4, <1>5 DEF TypeOK

LEMMA AssignType ==
    ASSUME TypeOK, Assign
    PROVE  TypeOK'
  <1>1. PICK j \in Listed :
           /\ Available(j)
           /\ task_assignments' = [task_assignments EXCEPT
                 ![i].employee_ip = employees[j].ip, ![i].age = 0]
           /\ employees' = [employees EXCEPT ![j].active_tasks = @ + 1]
    BY DEF Assign
  <1>2. employees[j] \in Employee /\ i \in TaskIndex /\ task_assignments[i] \in Task
    BY ListedRows, QueuedTasks DEF Assign, AtTask, TypeOK
  <1>3. EmployeesType'
    <2>1. employees[j].active_tasks + 1 \in 0 .. MaxActive
      <3>1. employees[j].active_tasks \in 0 .. MaxActive
        BY <1>2, EmployeeFields
      <3> QED
        BY <1>1, <3>1, CountBounds DEF Available
    <2>2. [employees[j] EXCEPT !.active_tasks = employees[j].active_tasks + 1] \in Employee
      BY <1>2, <2>1, EmployeeFields
    <2> QED
      BY <1>1, <2>2, ReplaceRow DEF Assign, TypeOK
  <1>4. TasksType'
    <2>1. 0 \in 0 .. TaskTimeout + 1
      BY BoundsAssumption
    <2>2. [task_assignments[i] EXCEPT !.employee_ip = employees[j].ip, !.age = 0] \in Task
      BY <1>2, <2>1, TaskFields, EmployeeFields
    <2>3. task_assignments' = [task_assignments EXCEPT ![i] =
             [task_assignments[i] EXCEPT !.employee_ip = employees[j].ip, !.age = 0]]
      BY <1>1, <1>2 DEF TypeOK, TasksType
    <2> QED
      BY <1>2, <2>2, <2>3 DEF Assign, TypeOK, TasksType
  <1>5. LoopType' /\ NetworkType'
    BY AdvanceType DEF Assign, TypeOK, NetworkType, network
  <1> QED
    BY <1>3, <1>4, <1>5 DEF TypeOK

LEMMA sendType ==
    ASSUME TypeOK, send_pending_tasks
    PROVE  TypeOK'
  <1>1. i \in Queued /\ i \in TaskIndex /\ task_assignments[i] \in Task
    BY QueuedTasks DEF send_pending_tasks, AtTask, TypeOK
  <1>2. PICK j \in Row :
          /\ Target(i, j)
          /\ LET ip == employees[j].ip IN
             \/ /\ Delivered(ip)
                /\ task_assignments' = [task_assignments EXCEPT ![i].is_sent = TRUE]
                /\ work' = IF conn[ip] = "up" /\ Len(work[ip]) < BufferCap
                           THEN [work EXCEPT ![ip] = Append(@, i)] ELSE work
                /\ UNCHANGED employees
             \/ /\ Refused(ip)
                /\ employees' = [employees EXCEPT ![j].sockfd = "closed"]
                /\ UNCHANGED <<task_assignments, work>>
    BY DEF send_pending_tasks
  <1>3. j \in Listed /\ employees[j] \in Employee /\ employees[j].ip \in Ips
    BY <1>2, ListedRows, EmployeeFields DEF Target, FirstRow, TypeOK
  <1>4. ASSUME Delivered(employees[j].ip),
               task_assignments' = [task_assignments EXCEPT ![i].is_sent = TRUE],
               work' = IF conn[employees[j].ip] = "up" /\ Len(work[employees[j].ip]) < BufferCap
                       THEN [work EXCEPT ![employees[j].ip] = Append(@, i)] ELSE work,
               UNCHANGED employees
        PROVE  TasksType' /\ EmployeesType' /\ NetworkType'
    <2>1. [task_assignments[i] EXCEPT !.is_sent = TRUE] \in Task
      BY <1>1, TaskFields
    <2>2. TasksType'
      BY <1>1, <1>4, <2>1 DEF send_pending_tasks, TypeOK, TasksType
    <2>3. Append(work[employees[j].ip], i) \in Seq(TaskIndex)
      BY <1>1, <1>3, AppendProperties DEF TypeOK, NetworkType
    <2>4. NetworkType'
      BY <1>4, <2>3 DEF send_pending_tasks, Delivered, TypeOK, NetworkType
    <2> QED
      BY <1>4, <2>2, <2>4 DEF send_pending_tasks, TypeOK, EmployeesType
  <1>5. ASSUME Refused(employees[j].ip),
               employees' = [employees EXCEPT ![j].sockfd = "closed"],
               UNCHANGED <<task_assignments, work>>
        PROVE  TasksType' /\ EmployeesType' /\ NetworkType'
    <2>1. EmployeesType' /\ NetworkType'
      BY <1>3, <1>5, CloseType DEF send_pending_tasks, Refused
    <2> QED
      BY <1>5, <2>1 DEF send_pending_tasks, TypeOK, TasksType
  <1>6. TasksType' /\ EmployeesType' /\ NetworkType'
    BY <1>2, <1>4, <1>5
  <1>7. LoopType'
    BY AdvanceType DEF send_pending_tasks, TypeOK
  <1> QED
    BY <1>6, <1>7 DEF TypeOK

LEMMA BrokenPipeType ==
    ASSUME TypeOK, BrokenPipe
    PROVE  TypeOK'
  <1>1. <<>> \in Seq(TaskIndex)
    OBVIOUS
  <1>2. NetworkType'
    BY <1>1 DEF BrokenPipe, TypeOK, NetworkType
  <1>3. LoopType'
    BY DEF BrokenPipe, TypeOK, LoopType, Enter, Locations
  <1>4. TasksType' /\ EmployeesType'
    BY DEF BrokenPipe, TypeOK, TasksType, EmployeesType, tables
  <1> QED
    BY <1>2, <1>3, <1>4 DEF TypeOK

\* Each employee's share of the tasks timed out is a finite set.
LEMMA OverdueFinite ==
    ASSUME TasksType, NEW S \in SUBSET Queued
    PROVE  IsFiniteSet(S) /\ Cardinality(S) \in Nat
  <1>1. assignment_count - 1 \in Int /\ 0 \in Int
    BY BoundsAssumption DEF TasksType
  <1>2. IsFiniteSet(Queued)
    BY <1>1, FS_Interval DEF Queued
  <1> QED
    BY <1>2, FS_Subset, FS_CardinalityType

LEMMA timeoutsType ==
    ASSUME TypeOK, handle_task_timeouts
    PROVE  TypeOK'
  <1> DEFINE Overdue == {n \in Queued : Expired(n)}
             From(j) == {n \in Overdue : FirstRow(j, task_assignments[n].employee_ip)}
  <1>1. /\ task_assignments' = [n \in TaskIndex |->
             IF n \in Overdue THEN [task_assignments[n] EXCEPT !.is_sent = FALSE]
                              ELSE task_assignments[n]]
        /\ employees' = [j \in Row |->
             IF j \in Listed
             THEN [employees[j] EXCEPT !.active_tasks =
                     IF @ > Cardinality(From(j)) THEN @ - Cardinality(From(j)) ELSE 0]
             ELSE employees[j]]
        /\ Enter("stale")
        /\ UNCHANGED <<is_active, ready, assignment_count, employee_count, network>>
    BY DEF handle_task_timeouts
  <1>2. \A n \in TaskIndex : /\ task_assignments[n] \in Task
                             /\ [task_assignments[n] EXCEPT !.is_sent = FALSE] \in Task
    BY TaskFields DEF TypeOK, TasksType
  <1>3. \A j \in Row : Cardinality(From(j)) \in Nat
    BY OverdueFinite DEF TypeOK
  <1> HIDE DEF Overdue, From
  <1>4. TasksType'
    BY <1>1, <1>2 DEF TypeOK, TasksType
  <1>5. ASSUME NEW j \in Listed
        PROVE  [employees[j] EXCEPT !.active_tasks =
                  IF @ > Cardinality(From(j)) THEN @ - Cardinality(From(j)) ELSE 0] \in Employee
    <2>1. j \in Row /\ employees[j] \in Employee /\ Cardinality(From(j)) \in Nat
      BY <1>3, ListedRows DEF TypeOK
    <2> DEFINE less == IF employees[j].active_tasks > Cardinality(From(j))
                       THEN employees[j].active_tasks - Cardinality(From(j)) ELSE 0
    <2>2. less \in 0 .. MaxActive
      <3>1. employees[j].active_tasks \in 0 .. MaxActive
        BY <2>1, EmployeeFields
      <3> QED
        BY <2>1, <3>1, CountBounds
    <2> HIDE DEF less
    <2>3. [employees[j] EXCEPT !.active_tasks = less] \in Employee
      BY <2>1, <2>2, EmployeeFields
    <2> QED
      BY <2>3 DEF less
  <1>6. EmployeesType'
    <2>1. ASSUME NEW j \in Row PROVE employees'[j] \in Employee <=> j \in Listed
      <3>1. CASE j \in Listed
        BY <1>1, <1>5, <3>1
      <3>2. CASE j \notin Listed
        <4>1. employees'[j] = employees[j]
          BY <1>1, <3>2
        <4>2. ~ (j < employee_count)
          BY <3>2, BoundsAssumption DEF TypeOK, EmployeesType, Listed, Row
        <4> QED
          BY <3>2, <4>1, <4>2 DEF TypeOK, EmployeesType
      <3> QED
        BY <3>1, <3>2
    <2>2. employees' \in [Row -> Employee \cup {NoEmployee}]
      BY <1>1, <1>5 DEF TypeOK, EmployeesType
    <2>3. \A j \in Row : j \in Listed <=> j < employee_count
      BY BoundsAssumption DEF TypeOK, EmployeesType, Listed, Row
    <2> QED
      BY <1>1, <2>1, <2>2, <2>3 DEF TypeOK, EmployeesType
  <1>7. LoopType' /\ NetworkType'
    BY <1>1 DEF TypeOK, LoopType, NetworkType, Enter, Locations, network
  <1> QED
    BY <1>4, <1>6, <1>7 DEF TypeOK

LEMMA staleType ==
    ASSUME TypeOK, remove_stale_employees
    PROVE  TypeOK'
  <1>1. i \in Listed /\ employees[i].ip \in Ips
    BY ListedRows, EmployeeFields DEF remove_stale_employees, AtEmployee, TypeOK
  <1>2. EmployeesType'
    BY <1>1, RemoveRow DEF remove_stale_employees, TypeOK
  <1>3. NetworkType'
    <2>1. CASE Open(i)
      BY <1>1, <2>1, DisconnectType, FaultType DEF remove_stale_employees, TypeOK
    <2>2. CASE ~Open(i)
      BY <2>2 DEF remove_stale_employees, TypeOK, NetworkType
    <2> QED
      BY <2>1, <2>2
  <1>4. LoopType' /\ TasksType'
    BY DEF remove_stale_employees, TypeOK, LoopType, TasksType, loopVars
  <1> QED
    BY <1>2, <1>3, <1>4 DEF TypeOK

LEMMA CleanupType ==
    ASSUME TypeOK, Cleanup
    PROVE  TypeOK'
  <1>1. <<>> \in Seq(TaskIndex)
    OBVIOUS
  <1>2. NetworkType'
    BY <1>1 DEF Cleanup, TypeOK, NetworkType
  <1>3. EmployeesType'
    BY NoEmployeeAssumption, BoundsAssumption DEF Cleanup, EmployeesType, Row
  <1>4. LoopType' /\ TasksType'
    BY DEF Cleanup, TypeOK, LoopType, TasksType, Enter, Locations
  <1> QED
    BY <1>2, <1>3, <1>4 DEF TypeOK

-----------------------------------------------------------------------------
\* So do the environment's actions.

LEMMA RemoveAtType ==
    ASSUME NEW S, NEW q \in Seq(S), NEW k \in 1 .. Len(q)
    PROVE  RemoveAt(q, k) \in Seq(S)
  <1>1. SubSeq(q, 1, k - 1) \in Seq(S) /\ SubSeq(q, k + 1, Len(q)) \in Seq(S)
    <2>1. Len(q) \in Nat /\ k \in Nat /\ k - 1 \in 0 .. Len(q)
      BY LenProperties
    <2>2. \A n \in 1 .. Len(q) : q[n] \in S
      BY ElementOfSeq
    <2> QED
      BY <2>1, <2>2, SubSeqProperties
  <1> QED
    BY <1>1, ConcatProperties DEF RemoveAt

LEMMA EmployeesActType ==
    ASSUME TypeOK, NEW ip \in Ips,
           Broadcast(ip) \/ Answer(ip) \/ LoseChunk(ip) \/ Break(ip) \/ Restart(ip)
    PROVE  TypeOK'
  <1>1. UNCHANGED <<loopVars, tables>> /\ faults' \in 0 .. MaxFaults
    BY FaultType DEF TypeOK, Broadcast, Answer, LoseChunk, Loss, Break, Restart
  <1>2. LoopType' /\ TasksType' /\ EmployeesType'
    BY <1>1 DEF TypeOK, LoopType, TasksType, EmployeesType, loopVars, tables
  <1>3. CASE Broadcast(ip) \/ Restart(ip)
    BY <1>1, <1>2, <1>3 DEF TypeOK, NetworkType, Broadcast, Restart
  <1>4. CASE Answer(ip)
    <2>1. PICK k \in 1 .. Len(work[ip]) :
             /\ results' = [results EXCEPT ![ip] = Append(@, work[ip][k])]
             /\ work' = [work EXCEPT ![ip] = RemoveAt(@, k)]
      BY <1>4 DEF Answer
    <2>2. results[ip] \in Seq(TaskIndex) /\ work[ip] \in Seq(TaskIndex)
      BY DEF TypeOK, NetworkType
    <2>3. work[ip][k] \in TaskIndex /\ RemoveAt(work[ip], k) \in Seq(TaskIndex)
      BY <2>2, RemoveAtType, ElementOfSeq
    <2>4. Append(results[ip], work[ip][k]) \in Seq(TaskIndex)
      BY <2>2, <2>3, AppendProperties
    <2> QED
      BY <1>1, <1>2, <1>4, <2>1, <2>3, <2>4 DEF TypeOK, NetworkType, Answer
  <1>5. CASE LoseChunk(ip)
    <2>1. PICK k \in 1 .. Len(work[ip]) : work' = [work EXCEPT ![ip] = RemoveAt(@, k)]
      BY <1>5 DEF LoseChunk
    <2>2. RemoveAt(work[ip], k) \in Seq(TaskIndex)
      BY RemoveAtType DEF TypeOK, NetworkType
    <2> QED
      BY <1>1, <1>2, <1>5, <2>1, <2>2 DEF TypeOK, NetworkType, LoseChunk
  <1>6. CASE Break(ip)
    <2>1. PICK k \in 0 .. Len(results[ip]) :
             results' = [results EXCEPT ![ip] = SubSeq(@, 1, k)]
      BY <1>6 DEF Break
    <2>2. results[ip] \in Seq(TaskIndex)
      BY DEF TypeOK, NetworkType
    <2>3. SubSeq(results[ip], 1, k) \in Seq(TaskIndex)
      BY <2>1, <2>2, SubSeqProperties
    <2>4. results' \in [Ips -> Seq(TaskIndex)]
      BY <2>1, <2>3 DEF TypeOK, NetworkType
    <2>5. work' \in [Ips -> Seq(TaskIndex)]
      <3>1. <<>> \in Seq(TaskIndex)
        OBVIOUS
      <3> QED
        BY <1>6, <3>1 DEF Break, TypeOK, NetworkType
    <2> QED
      BY <1>1, <1>2, <1>6, <2>4, <2>5 DEF TypeOK, NetworkType, Break
  <1> QED
    BY <1>3, <1>4, <1>5, <1>6

LEMMA TickType ==
    ASSUME TypeOK, Tick
    PROVE  TypeOK'
  <1>1. LoopType' /\ NetworkType'
    BY FaultType DEF Tick, Loss, TypeOK, LoopType, NetworkType, loopVars
  <1>2. TasksType'
    <2>1. ASSUME NEW t \in Task PROVE [t EXCEPT !.age = Grow(@, TaskTimeout)] \in Task
      <3>1. Grow(t.age, TaskTimeout) \in 0 .. TaskTimeout + 1
        <4>1. t.age \in 0 .. TaskTimeout + 1
          BY TaskFields
        <4> QED
          BY <4>1, BoundsAssumption DEF Grow
      <3> QED
        BY <3>1, TaskFields
    <2> QED
      BY <2>1 DEF Tick, TypeOK, TasksType
  <1>3. EmployeesType'
    <2>1. ASSUME NEW e \in Employee
          PROVE  [e EXCEPT !.silent = Grow(@, StaleThreshold)] \in Employee
      <3>1. Grow(e.silent, StaleThreshold) \in 0 .. StaleThreshold + 1
        <4>1. e.silent \in 0 .. StaleThreshold + 1
          BY EmployeeFields
        <4> QED
          BY <4>1, BoundsAssumption DEF Grow
      <3> QED
        BY <3>1, EmployeeFields
    <2>2. employees' = [j \in Row |->
             IF j \in Listed THEN [employees[j] EXCEPT !.silent = Grow(@, StaleThreshold)]
             ELSE employees[j]]
      BY DEF Tick
    <2>3. \A j \in Row : j \in Listed <=> j < employee_count
      BY BoundsAssumption DEF TypeOK, EmployeesType, Listed, Row
    <2>4. ASSUME NEW j \in Row
          PROVE  /\ employees'[j] \in Employee <=> j < employee_count
                 /\ employees'[j] \in Employee \cup {NoEmployee}
      <3>1. CASE j \in Listed
        <4>1. employees[j] \in Employee
          BY <3>1, ListedRows DEF TypeOK
        <4> QED
          BY <2>1, <2>2, <2>3, <3>1, <4>1
      <3>2. CASE j \notin Listed
        <4>1. employees'[j] = employees[j]
          BY <2>2, <3>2
        <4> QED
          BY <4>1 DEF TypeOK, EmployeesType
      <3> QED
        BY <3>1, <3>2
    <2> QED
      BY <2>2, <2>4 DEF Tick, TypeOK, EmployeesType
  <1> QED
    BY <1>1, <1>2, <1>3 DEF TypeOK

LEMMA NextType == TypeOK /\ [Next]_vars => TypeOK'
  <1> SUFFICES ASSUME TypeOK, [Next]_vars PROVE TypeOK'
    OBVIOUS
  <1>1. CASE MainLoop
    BY <1>1, populateType, ControlType, InterruptedType, discoverType, receiveType, ReceiveFailsType,
       configureType, AssignType, sendType, BrokenPipeType, timeoutsType, staleType,
       CleanupType DEF MainLoop
  <1>2. CASE Environment
    BY <1>2, EmployeesActType, TickType DEF Environment
  <1>3. CASE UNCHANGED vars
    BY <1>3 DEF vars, TypeOK, LoopType, TasksType, EmployeesType, NetworkType
  <1> QED
    BY <1>1, <1>2, <1>3, ControlType DEF Next

LEMMA InitType == Init => TypeOK
  <1> SUFFICES ASSUME Init PROVE TypeOK
    OBVIOUS
  <1>1. LoopType
    BY BoundsAssumption DEF Init, LoopType, Locations
  <1>2. TasksType
    BY BoundsAssumption DEF Init, TasksType, NewTask, Task
  <1>3. EmployeesType
    BY BoundsAssumption, NoEmployeeAssumption DEF Init, EmployeesType, Row
  <1>4. NetworkType
    <2>1. <<>> \in Seq(TaskIndex)
      OBVIOUS
    <2> QED
      BY <2>1, BoundsAssumption DEF Init, NetworkType
  <1> QED
    BY <1>1, <1>2, <1>3, <1>4 DEF TypeOK

\* The tables stay inside their arrays, and active_tasks inside its limit, for
\* any number of employees, tasks and faults (volcom_employer.c).
THEOREM TypeCorrect == Spec => []TypeOK
  BY InitType, NextType, PTL DEF Spec

-----------------------------------------------------------------------------
\* No address is listed twice.

\* Most actions leave the addresses of the rows alone.
LEMMA SameAddresses ==
    ASSUME UniqueEmployees, employee_count' = employee_count,
           \A j \in Listed : employees'[j].ip = employees[j].ip
    PROVE  UniqueEmployees'
  BY DEF UniqueEmployees, Listed

LEMMA AddressesKept ==
    ASSUME TypeOK, [Next]_vars,
           ~ \E ip \in Ips : add_or_update_employee(ip),
           ~ remove_stale_employees, ~ Cleanup
    PROVE  /\ employee_count' = employee_count
           /\ \A j \in Listed : employees'[j].ip = employees[j].ip
  <1> SUFFICES ASSUME NEW j \in Listed
               PROVE  employee_count' = employee_count /\ employees'[j].ip = employees[j].ip
    <2>1. CASE Listed = {}
      BY <2>1 DEF Next, MainLoop, Environment, vars, tables, populate_chunked_tasks, Select,
         Interrupted, SelectFails, LoopEnd, Skip, BeginReceive, receive_result_from_employee,
         ReceiveFails, send_initial_config,
         Assign, send_pending_tasks, BrokenPipe, handle_task_timeouts, CheckCompletion,
         Broadcast, Answer, LoseChunk, Break, Restart, Tick, Ended
    <2> QED
      BY <2>1
  <1>1. /\ j \in Row /\ employees[j] \in Employee /\ employees \in [Row -> Employee \cup {NoEmployee}]
        /\ DOMAIN employees[j] = {"ip", "silent", "sockfd", "state", "active_tasks"}
    BY ListedRows DEF TypeOK, EmployeesType, Employee
  <1>2. CASE populate_chunked_tasks \/ Select \/ Interrupted \/ SelectFails \/ LoopEnd \/ Skip
             \/ BeginReceive \/ BrokenPipe
             \/ CheckCompletion \/ Ended \/ UNCHANGED vars
             \/ (\E ip \in Ips : Broadcast(ip) \/ Answer(ip) \/ LoseChunk(ip) \/ Break(ip)
                                 \/ Restart(ip))
    BY <1>2 DEF populate_chunked_tasks, Select, Interrupted, SelectFails, LoopEnd, Skip,
       BeginReceive, BrokenPipe, CheckCompletion, Ended, vars, tables, Broadcast, Answer,
       LoseChunk, Break, Restart
  <1>3. CASE receive_result_from_employee \/ ReceiveFails \/ send_initial_config
             \/ Assign \/ send_pending_tasks
    <2>1. CASE receive_result_from_employee
      <3>1. employee_count' = employee_count
        BY <2>1 DEF receive_result_from_employee
      <3>2. \/ UNCHANGED employees
            \/ employees' = [employees EXCEPT ![i].active_tasks = IF @ > 0 THEN @ - 1 ELSE @]
        BY <2>1, Zenon DEF receive_result_from_employee
      <3> QED
        BY <1>1, <3>1, <3>2
    <2>2. CASE ReceiveFails \/ send_initial_config
      BY <1>1, <2>2 DEF ReceiveFails, send_initial_config
    <2>3. CASE Assign
      BY <1>1, <2>3 DEF Assign
    <2>4. CASE send_pending_tasks
      BY <1>1, <2>4 DEF send_pending_tasks
    <2> QED
      BY <1>3, <2>1, <2>2, <2>3, <2>4
  <1>4. CASE handle_task_timeouts
    BY <1>1, <1>4 DEF handle_task_timeouts
  <1>5. CASE Tick
    BY <1>1, <1>5 DEF Tick
  <1> QED
    BY <1>2, <1>3, <1>4, <1>5 DEF Next, MainLoop, Environment

LEMMA discoverUnique ==
    ASSUME TypeOK, UniqueEmployees, NEW ip \in Ips, add_or_update_employee(ip)
    PROVE  UniqueEmployees'
  <1>1. ASSUME NEW j \in Row, FirstRow(j, ip), UpdateEmployee(j), UNCHANGED employee_count
        PROVE  UniqueEmployees'
    <2>1. \A k \in Listed : /\ k \in Row /\ employees[k] \in Employee
                            /\ DOMAIN employees[k] = {"ip", "silent", "sockfd", "state",
                                                      "active_tasks"}
      BY ListedRows DEF TypeOK, Employee
    <2>2. j \in Listed /\ employees \in [Row -> Employee \cup {NoEmployee}]
      BY <1>1 DEF FirstRow, TypeOK, EmployeesType
    <2>3. \/ employees' = [employees EXCEPT ![j].silent = 0]
          \/ employees' = [employees EXCEPT ![j] =
                [@ EXCEPT !.silent = 0, !.sockfd = "open", !.state = "NEW"]]
      BY <1>1 DEF UpdateEmployee
    <2>4. employees'[j].ip = employees[j].ip
      BY <2>1, <2>2, <2>3
    <2>5. \A k \in Listed : k # j => employees'[k] = employees[k]
      BY <2>1, <2>2, <2>3, Zenon
    <2>6. \A k \in Listed : employees'[k].ip = employees[k].ip
      BY <2>4, <2>5, Zenon
    <2> QED
      BY <1>1, <2>6, SameAddresses
  <1>2. ASSUME ~Known(ip), AddEmployee(ip) PROVE UniqueEmployees'
    <2>1. /\ employee_count' = employee_count + 1 /\ employee_count \in Row
          /\ employee_count \in Nat
      BY <1>2, BoundsAssumption DEF AddEmployee, Room, TypeOK, EmployeesType, Row
    <2>2. /\ employees'[employee_count].ip = ip
          /\ \A k \in Listed : employees'[k] = employees[k]
      BY <1>2, <2>1 DEF AddEmployee, TypeOK, EmployeesType, Listed
    <2>3. Listed' = Listed \cup {employee_count}
      BY <2>1 DEF Listed
    <2> QED
      BY <1>2, <2>2, <2>3 DEF UniqueEmployees, Known
  <1>3. ASSUME UNCHANGED <<employees, employee_count>> PROVE UniqueEmployees'
    BY <1>3 DEF UniqueEmployees, Listed
  <1> QED
    BY <1>1, <1>2, <1>3 DEF add_or_update_employee

LEMMA staleUnique ==
    ASSUME TypeOK, UniqueEmployees, remove_stale_employees
    PROVE  UniqueEmployees'
  <1>1. /\ i \in Listed
        /\ \A k \in Listed' : employees'[k] = IF k = i THEN employees[employee_count - 1]
                                                       ELSE employees[k]
    BY RemoveRow DEF remove_stale_employees, AtEmployee, TypeOK
  <1>2. /\ Listed' = Listed \ {employee_count - 1}
        /\ employee_count - 1 \in Listed
    <2>1. employee_count' = employee_count - 1 /\ employee_count \in Nat
      BY DEF remove_stale_employees, TypeOK, EmployeesType
    <2> QED
      BY <1>1, <2>1 DEF Listed
  <1> QED
    BY <1>1, <1>2 DEF UniqueEmployees

LEMMA NextUnique == TypeOK /\ UniqueEmployees /\ [Next]_vars => UniqueEmployees'
  <1> SUFFICES ASSUME TypeOK, UniqueEmployees, [Next]_vars PROVE UniqueEmployees'
    OBVIOUS
  <1>1. CASE \E ip \in Ips : add_or_update_employee(ip)
    BY <1>1, discoverUnique
  <1>2. CASE remove_stale_employees
    BY <1>2, staleUnique
  <1>3. CASE Cleanup
    BY <1>3 DEF Cleanup, UniqueEmployees, Listed
  <1> QED
    BY <1>1, <1>2, <1>3, AddressesKept, SameAddresses

\* The searches by address that stop at the first match, the swap of the last
\* row into a removed one and the append of a new row never list an employee
\* twice (volcom_employer.c 60-151).
THEOREM EmployeesAreUnique == Spec => []UniqueEmployees
  <1>1. Init => UniqueEmployees
    BY DEF Init, UniqueEmployees, Listed
  <1> QED
    BY <1>1, NextUnique, TypeCorrect, PTL DEF Spec

-----------------------------------------------------------------------------
\* A completed task is final.

LEMMA FinalStep ==
    ASSUME TypeOK, [Next]_vars, NEW n \in TaskIndex, task_assignments[n].is_completed
    PROVE  /\ task_assignments'[n].is_completed
           /\ task_assignments'[n].is_sent = task_assignments[n].is_sent
  <1>1. /\ task_assignments[n] \in Task
        /\ task_assignments \in [TaskIndex -> Task]
        /\ DOMAIN task_assignments[n] = {"employee_ip", "age", "is_sent", "is_completed"}
    BY DEF TypeOK, TasksType, Task
  <1>2. CASE receive_result_from_employee
    BY <1>1, <1>2 DEF receive_result_from_employee
  <1>3. CASE Assign \/ send_pending_tasks
    BY <1>1, <1>3 DEF Assign, send_pending_tasks, Unsent
  <1>4. CASE handle_task_timeouts
    BY <1>1, <1>4 DEF handle_task_timeouts, Expired, Pending
  <1>5. CASE Tick
    BY <1>1, <1>5 DEF Tick
  <1>6. CASE UNCHANGED task_assignments
    BY <1>6
  <1> QED
    BY <1>2, <1>3, <1>4, <1>5, <1>6 DEF Next, MainLoop, Environment, vars, tables,
       populate_chunked_tasks, Select, Interrupted, SelectFails, add_or_update_employee,
       LoopEnd, Skip, BeginReceive, ReceiveFails, send_initial_config, BrokenPipe,
       remove_stale_employees, CheckCompletion, Cleanup,
       Broadcast, Answer, LoseChunk, Break, Restart, Ended

\* No timeout, late or second result, or reassignment ever takes a completed
\* task back or sends it again (volcom_employer.c 172-272, 412-495, 715-736).
THEOREM CompletedStays == Spec => CompletedIsFinal
  <1>1. TypeOK /\ [Next]_vars =>
           [\A n \in TaskIndex : task_assignments[n].is_completed =>
               /\ task_assignments'[n].is_completed
               /\ task_assignments'[n].is_sent = task_assignments[n].is_sent]_vars
    BY FinalStep
  <1> QED
    BY <1>1, TypeCorrect, PTL DEF Spec, CompletedIsFinal

-----------------------------------------------------------------------------
\* The loop stops only when all is completed.

LEMMA AllMeansAll ==
    ASSUME TasksType, AllCompleted
    PROVE  assignment_count > 0 /\ \A n \in Queued : task_assignments[n].is_completed
  <1> DEFINE Done == {n \in Queued : task_assignments[n].is_completed}
  <1>1. assignment_count \in Nat /\ assignment_count - 1 \in Int /\ 0 \in Int
    BY BoundsAssumption DEF TasksType
  <1>2. IsFiniteSet(Queued) /\ Cardinality(Queued) = assignment_count
    BY <1>1, FS_Interval DEF Queued, AllCompleted
  <1>3. Done \subseteq Queued /\ Cardinality(Done) >= Cardinality(Queued)
    BY <1>2 DEF AllCompleted
  <1>4. Done = Queued
    <2>1. IsFiniteSet(Done) /\ Cardinality(Done) \in Nat /\ Cardinality(Queued) \in Nat
      BY <1>2, <1>3, FS_Subset, FS_CardinalityType
    <2>2. Cardinality(Done) <= Cardinality(Queued)
      BY <1>2, <1>3, FS_Subset
    <2>3. Cardinality(Done) = Cardinality(Queued)
      BY <1>3, <2>1, <2>2
    <2> QED
      BY <1>2, <1>3, <2>3, FS_Subset
  <1> QED
    BY <1>4 DEF AllCompleted

\* StopsWhenCompleted as it is inductive: the end of the loop follows at once.
StopInv ==
    ~is_active =>
        /\ pc \in {"cleanup", "done"} /\ assignment_count > 0
        /\ \A n \in Queued : task_assignments[n].is_completed

LEMMA StopsStep ==
    TypeOK /\ StopInv /\ [Next]_vars => StopInv'
  <1> SUFFICES ASSUME TypeOK, StopInv, [Next]_vars, ~is_active'
               PROVE  /\ pc' \in {"cleanup", "done"} /\ assignment_count' > 0
                      /\ \A n \in Queued' : task_assignments'[n].is_completed
    BY DEF StopInv
  <1>1. CASE ~is_active
    <2>1. pc \in {"cleanup", "done"} /\ assignment_count > 0
      BY <1>1 DEF StopInv
    <2>2. UNCHANGED assignment_count /\ pc' \in {"cleanup", "done"}
      BY <2>1 DEF Next, MainLoop, Environment, vars, tables, loopVars, Enter, Advance,
         AtEmployee, AtTask, EmployeeLoops, TaskLoops, populate_chunked_tasks, Select,
         Interrupted, SelectFails, add_or_update_employee, LoopEnd, Skip, BeginReceive,
         receive_result_from_employee, ReceiveFails, send_initial_config, Assign,
         send_pending_tasks, BrokenPipe, handle_task_timeouts, remove_stale_employees,
         CheckCompletion, Cleanup, Broadcast, Answer, LoseChunk, Break, Restart, Tick, Ended
    <2>3. \A n \in Queued : n \in TaskIndex /\ task_assignments[n].is_completed
      BY <1>1, QueuedTasks DEF StopInv, TypeOK
    <2> QED
      BY <2>1, <2>2, <2>3, FinalStep DEF Queued
  <1>2. CASE is_active
    <2>1. CheckCompletion /\ AllCompleted
      BY <1>2 DEF Next, MainLoop, Environment, vars, loopVars, populate_chunked_tasks, Select,
         Interrupted, SelectFails, add_or_update_employee, LoopEnd, Skip, BeginReceive,
         receive_result_from_employee, ReceiveFails, send_initial_config, Assign,
         send_pending_tasks, BrokenPipe, handle_task_timeouts, remove_stale_employees,
         CheckCompletion, Cleanup, Broadcast, Answer, LoseChunk, Break, Restart, Tick, Ended
    <2>2. UNCHANGED <<task_assignments, assignment_count>> /\ pc' = "cleanup"
      BY <2>1 DEF CheckCompletion, tables, Enter
    <2> QED
      BY <2>1, <2>2, AllMeansAll DEF TypeOK, Queued
  <1> QED
    BY <1>1, <1>2

LEMMA StopInvHolds == Spec => []StopInv
  <1>1. Init => StopInv
    BY DEF Init, StopInv
  <1> QED
    BY <1>1, StopsStep, TypeCorrect, PTL DEF Spec

\* The employer never declares itself inactive with a task of its table
\* unfinished (volcom_employer.c 221-234, 745-759); the other end of its loop is
\* a failing select() (660-663).
THEOREM StopsOnlyWhenCompleted == Spec => []StopsWhenCompleted
  <1>1. StopInv => StopsWhenCompleted
    BY DEF StopInv, StopsWhenCompleted
  <1> QED
    BY <1>1, StopInvHolds, PTL

-----------------------------------------------------------------------------
\* Tables and connections.

\* The actions that move or replace rows, or open and close connections, come
\* first in every proof; what the others leave alone is said here once.
Calm == populate_chunked_tasks \/ Select \/ Interrupted \/ SelectFails \/ LoopEnd \/ Skip
        \/ BeginReceive \/ CheckCompletion \/ Ended \/ UNCHANGED vars
        \/ \E ip \in Ips : Broadcast(ip) \/ Restart(ip)
Moving(ip) == Answer(ip) \/ LoseChunk(ip) \/ Break(ip)

LEMMA StepCases ==
    ASSUME [Next]_vars
    PROVE  \/ Calm \/ Tick \/ \E ip \in Ips : Moving(ip)
           \/ \E ip \in Ips : add_or_update_employee(ip)
           \/ receive_result_from_employee \/ ReceiveFails \/ send_initial_config
           \/ Assign \/ send_pending_tasks \/ BrokenPipe \/ handle_task_timeouts
           \/ remove_stale_employees \/ Cleanup
  BY DEF Next, MainLoop, Environment, Calm, Moving

LEMMA CalmKeeps ==
    ASSUME Calm
    PROVE  UNCHANGED <<task_assignments, employees, employee_count, conn, results, work>>
  BY DEF Calm, populate_chunked_tasks, Select, Interrupted, SelectFails, LoopEnd, Skip, BeginReceive,
     CheckCompletion, Ended, vars, tables, network, Broadcast, Restart

\* Nothing follows the end by SIGPIPE.
LEMMA KilledStays ==
    ASSUME pc = "killed", [Next]_vars
    PROVE  pc' = "killed"
  BY DEF Next, MainLoop, Environment, vars, loopVars, populate_chunked_tasks, Select,
     Interrupted, SelectFails, add_or_update_employee, LoopEnd, Skip, BeginReceive,
     receive_result_from_employee, ReceiveFails, send_initial_config, Assign,
     send_pending_tasks, BrokenPipe,
     handle_task_timeouts, remove_stale_employees, CheckCompletion, Cleanup, Broadcast,
     Answer, LoseChunk, Break, Restart, Tick, Ended, AtEmployee, AtTask, EmployeeLoops,
     TaskLoops

-----------------------------------------------------------------------------
\* Sockets and rows agree.
Linked == \A ip \in Ips : conn[ip] # "none" <=> \E j \in Listed : employees[j].ip = ip /\ Open(j)

LEMMA SameLinks ==
    ASSUME Linked, employee_count' = employee_count,
           \A j \in Listed : /\ employees'[j].ip = employees[j].ip
                             /\ employees'[j].sockfd = employees[j].sockfd,
           \A ip \in Ips : conn'[ip] = "none" <=> conn[ip] = "none"
    PROVE  Linked'
  <1>1. Listed' = Listed
    BY DEF Listed
  <1>2. \A j \in Listed : Open(j)' <=> Open(j)
    BY DEF Open
  <1>3. ASSUME NEW ip \in Ips
        PROVE  conn'[ip] # "none" <=> \E j \in Listed : employees'[j].ip = ip /\ Open(j)'
    BY <1>2 DEF Linked
  <1> QED
    BY <1>1, <1>3 DEF Linked

\* Row j gets a new content, and only the connection to its address changes.
LEMMA RelinkRow ==
    ASSUME TypeOK, UniqueEmployees, Linked, NEW j \in Listed, NEW e \in Employee,
           e.ip = employees[j].ip,
           employees' = [employees EXCEPT ![j] = e], employee_count' = employee_count,
           \A ip \in Ips : ip # e.ip => conn'[ip] = conn[ip],
           conn'[e.ip] # "none" <=> e.sockfd = "open"
    PROVE  Linked'
  <1>1. Listed' = Listed /\ j \in Row
    BY ListedRows DEF Listed, TypeOK
  <1>2. \A k \in Listed : /\ k \in Row
                          /\ employees'[k] = IF k = j THEN e ELSE employees[k]
    BY <1>1, ListedRows DEF TypeOK, EmployeesType
  <1>3. \A k \in Listed : Open(k)' <=> IF k = j THEN e.sockfd = "open" ELSE Open(k)
    BY <1>2 DEF Open
  <1>4. ASSUME NEW ip \in Ips
        PROVE  conn'[ip] # "none" <=> \E k \in Listed : employees'[k].ip = ip /\ Open(k)'
    <2>1. CASE ip = e.ip
      <3>1. \A k \in Listed : employees'[k].ip = ip => k = j
        BY <1>2, <2>1 DEF UniqueEmployees
      <3> QED
        BY <1>2, <1>3, <2>1, <3>1
    <2>2. CASE ip # e.ip
      <3>1. \A k \in Listed : employees'[k].ip = ip => k # j
        BY <1>2, <2>2
      <3>2. \A k \in Listed : employees[k].ip = ip => k # j
        BY <2>2
      <3> QED
        BY <1>2, <1>3, <2>2, <3>1, <3>2 DEF Linked
    <2> QED
      BY <2>1, <2>2
  <1> QED
    BY <1>1, <1>4 DEF Linked

\* close(sockfd) on row j.
LEMMA CloseLinks ==
    ASSUME TypeOK, UniqueEmployees, Linked, NEW j \in Listed, Disconnect(employees[j].ip),
           employees' = [employees EXCEPT ![j].sockfd = "closed"],
           employee_count' = employee_count
    PROVE  Linked'
  <1> DEFINE e == [employees[j] EXCEPT !.sockfd = "closed"]
  <1>1. /\ e \in Employee /\ employees[j].ip \in Ips
        /\ e.ip = employees[j].ip /\ e.sockfd = "closed"
    <2>1. employees[j] \in Employee
      BY ListedRows DEF TypeOK
    <2> QED
      BY <2>1, EmployeeFields DEF Employee
  <1>2. conn'[e.ip] = "none" /\ \A ip \in Ips : ip # e.ip => conn'[ip] = conn[ip]
    BY <1>1 DEF Disconnect, TypeOK, NetworkType
  <1>3. employees' = [employees EXCEPT ![j] = e]
    OBVIOUS
  <1> HIDE DEF e
  <1> QED
    BY <1>1, <1>2, <1>3, RelinkRow

LEMMA discoverLinks ==
    ASSUME TypeOK, UniqueEmployees, Linked, NEW ip \in Ips, add_or_update_employee(ip)
    PROVE  Linked'
  <1>1. ASSUME NEW j \in Row, FirstRow(j, ip), UpdateEmployee(j), UNCHANGED employee_count
        PROVE  Linked'
    <2>1. /\ j \in Listed /\ employees[j] \in Employee /\ employees[j].ip = ip
          /\ 0 \in 0 .. StaleThreshold + 1
      BY <1>1, ListedRows, BoundsAssumption DEF FirstRow, TypeOK
    <2>2. ASSUME NEW e \in Employee, e.ip = ip,
                 employees' = [employees EXCEPT ![j] = e],
                 \/ conn' = conn /\ e.sockfd = employees[j].sockfd
                 \/ conn' = [conn EXCEPT ![ip] = "up"] /\ e.sockfd = "open"
          PROVE  Linked'
      <3>1. conn \in [Ips -> {"none", "up", "gone"}]
        BY DEF TypeOK, NetworkType
      <3>2. conn[ip] # "none" <=> Open(j)
        BY <2>1 DEF Linked, UniqueEmployees
      <3>3. /\ conn'[ip] # "none" <=> e.sockfd = "open"
            /\ \A a \in Ips : a # ip => conn'[a] = conn[a]
        BY <2>2, <3>1, <3>2 DEF Open
      <3> QED
        BY <1>1, <2>1, <2>2, <3>3, RelinkRow
    <2> DEFINE kept == [employees[j] EXCEPT !.silent = 0]
               new  == [employees[j] EXCEPT !.silent = 0, !.sockfd = "open", !.state = "NEW"]
    <2>3. /\ kept \in Employee /\ kept.ip = ip /\ kept.sockfd = employees[j].sockfd
          /\ new \in Employee /\ new.ip = ip /\ new.sockfd = "open"
      <3>1. kept \in Employee /\ new \in Employee
        BY <2>1, EmployeeFields
      <3> QED
        BY <2>1, <3>1 DEF Employee
    <2>4. \/ employees' = [employees EXCEPT ![j] = kept] /\ conn' = conn
          \/ employees' = [employees EXCEPT ![j] = new] /\ conn' = [conn EXCEPT ![ip] = "up"]
      BY <1>1, <2>1 DEF UpdateEmployee, Connect
    <2> HIDE DEF kept, new
    <2> QED
      BY <2>2, <2>3, <2>4
  <1>2. ASSUME ~Known(ip), AddEmployee(ip) PROVE Linked'
    <2>1. PICK ok \in BOOLEAN :
             /\ Connect(ip, ok)
             /\ employees' = [employees EXCEPT ![employee_count] =
                   [ip |-> ip, silent |-> 0, sockfd |-> IF ok THEN "open" ELSE "closed",
                    state |-> "NEW", active_tasks |-> 0]]
      BY <1>2 DEF AddEmployee
    <2>2. /\ employee_count' = employee_count + 1 /\ employee_count \in Row
          /\ employee_count \in Nat /\ employee_count \notin Listed
      BY <1>2, BoundsAssumption DEF AddEmployee, Room, TypeOK, EmployeesType, Row, Listed
    <2>3. Listed' = Listed \cup {employee_count}
      BY <2>2 DEF Listed
    <2>4. /\ employees'[employee_count].ip = ip
          /\ employees'[employee_count].sockfd = "open" <=> ok
          /\ \A k \in Listed : employees'[k] = employees[k]
      BY <2>1, <2>2 DEF TypeOK, EmployeesType
    <2>5. conn[ip] = "none"
      BY <1>2 DEF Linked, Known
    <2>6. conn'[ip] # "none" <=> ok
      BY <2>1, <2>5 DEF Connect, TypeOK, NetworkType
    <2>7. \A a \in Ips : a # ip => conn'[a] = conn[a]
      BY <2>1 DEF Connect, TypeOK, NetworkType
    <2>8. \A k \in Listed' : Open(k)' <=> IF k = employee_count THEN ok ELSE Open(k)
      BY <2>2, <2>3, <2>4 DEF Open
    <2>9. ASSUME NEW a \in Ips
          PROVE  conn'[a] # "none" <=> \E k \in Listed' : employees'[k].ip = a /\ Open(k)'
      <3>1. CASE a = ip
        <4>1. \A k \in Listed : employees'[k].ip # ip
          BY <1>2, <2>4 DEF Known
        <4>2. \A k \in Listed' : employees'[k].ip = ip <=> k = employee_count
          BY <2>3, <2>4, <4>1
        <4> QED
          BY <2>3, <2>6, <2>8, <3>1, <4>2
      <3>2. CASE a # ip
        <4>1. (\E k \in Listed' : employees'[k].ip = a /\ Open(k)')
                 <=> (\E k \in Listed : employees[k].ip = a /\ Open(k))
          BY <2>2, <2>3, <2>4, <2>8, <3>2
        <4> QED
          BY <2>7, <3>2, <4>1 DEF Linked
      <3> QED
        BY <3>1, <3>2
    <2> QED
      BY <2>9 DEF Linked
  <1>3. ASSUME UNCHANGED <<employees, employee_count, conn>> PROVE Linked'
    BY <1>3, SameLinks
  <1> QED
    BY <1>1, <1>2, <1>3 DEF add_or_update_employee

LEMMA staleLinks ==
    ASSUME TypeOK, UniqueEmployees, Linked, remove_stale_employees
    PROVE  Linked'
  <1>1. /\ i \in Listed
        /\ \A k \in Listed' : employees'[k] = IF k = i THEN employees[employee_count - 1]
                                                       ELSE employees[k]
    BY RemoveRow DEF remove_stale_employees, AtEmployee, TypeOK
  <1>2. /\ Listed' = Listed \ {employee_count - 1}
        /\ employee_count - 1 \in Listed
    <2>1. employee_count' = employee_count - 1 /\ employee_count \in Nat
      BY DEF remove_stale_employees, TypeOK, EmployeesType
    <2> QED
      BY <1>1, <2>1 DEF Listed
  <1>3. employees[i].ip \in Ips
    BY <1>1, ListedRows, EmployeeFields DEF TypeOK
  <1>4. /\ conn'[employees[i].ip] = "none"
        /\ \A a \in Ips : a # employees[i].ip => conn'[a] = conn[a]
    <2>1. CASE Open(i)
      BY <1>3, <2>1 DEF remove_stale_employees, Disconnect, TypeOK, NetworkType
    <2>2. CASE ~Open(i)
      BY <1>1, <1>3, <2>2 DEF remove_stale_employees, Linked, UniqueEmployees
    <2> QED
      BY <2>1, <2>2
  <1> DEFINE old(k) == IF k = i THEN employee_count - 1 ELSE k
  <1>5. \A k \in Listed' : /\ old(k) \in Listed /\ old(k) # i
                           /\ employees'[k] = employees[old(k)]
    BY <1>1, <1>2
  <1>6. \A m \in Listed : m # i => \E k \in Listed' : old(k) = m
    BY <1>1, <1>2
  <1> HIDE DEF old
  <1>7. \A k \in Listed' : Open(k)' <=> Open(old(k))
    BY <1>5 DEF Open
  <1>8. ASSUME NEW a \in Ips
        PROVE  conn'[a] # "none" <=> \E k \in Listed' : employees'[k].ip = a /\ Open(k)'
    <2>1. CASE a = employees[i].ip
      <3>1. \A k \in Listed' : employees'[k].ip # a
        BY <1>1, <1>5, <2>1 DEF UniqueEmployees
      <3> QED
        BY <1>4, <2>1, <3>1
    <2>2. CASE a # employees[i].ip
      <3>1. (\E k \in Listed' : employees'[k].ip = a /\ Open(k)')
               => (\E m \in Listed : employees[m].ip = a /\ Open(m))
        BY <1>5, <1>7
      <3>2. ASSUME NEW m \in Listed, employees[m].ip = a, Open(m)
            PROVE  \E k \in Listed' : employees'[k].ip = a /\ Open(k)'
        <4>1. m # i
          BY <2>2, <3>2
        <4>2. PICK k \in Listed' : old(k) = m
          BY <1>6, <4>1
        <4> QED
          BY <1>5, <1>7, <3>2, <4>2
      <3> QED
        BY <1>4, <2>2, <3>1, <3>2 DEF Linked
    <2> QED
      BY <2>1, <2>2
  <1> QED
    BY <1>8 DEF Linked

\* Steps on the fields of rows other than ip and sockfd.
LEMMA TablesLinks ==
    ASSUME TypeOK, Linked,
           receive_result_from_employee \/ Assign \/ handle_task_timeouts \/ Tick
           \/ \E ip \in Ips : Moving(ip)
    PROVE  Linked'
  <1>1. employee_count' = employee_count
    BY DEF receive_result_from_employee, Assign, handle_task_timeouts, Tick, Moving, Answer,
       LoseChunk, Break, tables
  <1>2. \A ip \in Ips : conn'[ip] = "none" <=> conn[ip] = "none"
    <2>1. CASE receive_result_from_employee \/ Assign \/ handle_task_timeouts \/ Tick
               \/ \E ip \in Ips : Answer(ip) \/ LoseChunk(ip)
      BY <2>1 DEF receive_result_from_employee, Assign, handle_task_timeouts, Tick, Answer,
         LoseChunk, network
    <2>2. ASSUME NEW ip \in Ips, Break(ip)
          PROVE  \A a \in Ips : conn'[a] = "none" <=> conn[a] = "none"
      BY <2>2 DEF Break, TypeOK, NetworkType
    <2> QED
      BY <2>1, <2>2 DEF Moving
  <1>3. ASSUME NEW j \in Listed
        PROVE  employees'[j].ip = employees[j].ip /\ employees'[j].sockfd = employees[j].sockfd
    <2>1. /\ j \in Row /\ employees[j] \in Employee
          /\ employees \in [Row -> Employee \cup {NoEmployee}]
          /\ DOMAIN employees[j] = {"ip", "silent", "sockfd", "state", "active_tasks"}
      BY ListedRows DEF TypeOK, EmployeesType, Employee
    <2>2. CASE receive_result_from_employee
      <3>1. \/ UNCHANGED employees
            \/ employees' = [employees EXCEPT ![i].active_tasks = IF @ > 0 THEN @ - 1 ELSE @]
        BY <2>2, Zenon DEF receive_result_from_employee
      <3> QED
        BY <2>1, <3>1
    <2>3. CASE Assign
      BY <2>1, <2>3 DEF Assign
    <2>4. CASE handle_task_timeouts
      BY <2>1, <2>4 DEF handle_task_timeouts
    <2>5. CASE Tick
      BY <2>1, <2>5 DEF Tick
    <2>6. CASE \E ip \in Ips : Moving(ip)
      BY <2>6 DEF Moving, Answer, LoseChunk, Break, tables
    <2> QED
      BY <2>2, <2>3, <2>4, <2>5, <2>6
  <1> QED
    BY <1>1, <1>2, <1>3, SameLinks

LEMMA configureLinks ==
    ASSUME TypeOK, UniqueEmployees, Linked, send_initial_config
    PROVE  Linked'
  <1>1. i \in Listed /\ i \in Row /\ employees[i] \in Employee
    BY ListedRows DEF send_initial_config, AtEmployee, TypeOK
  <1>2. CASE Refused(employees[i].ip) /\ employees' = [employees EXCEPT ![i].sockfd = "closed"]
    BY <1>1, <1>2, CloseLinks DEF send_initial_config, Refused
  <1>3. CASE Delivered(employees[i].ip)
             /\ employees' = [employees EXCEPT ![i].state = "CONFIGURED"]
    <2>1. \A j \in Listed : /\ employees'[j].ip = employees[j].ip
                            /\ employees'[j].sockfd = employees[j].sockfd
      BY <1>1, <1>3, ListedRows DEF TypeOK, EmployeesType, Employee
    <2> QED
      BY <1>3, <2>1, SameLinks DEF send_initial_config, Delivered
  <1> QED
    BY <1>2, <1>3 DEF send_initial_config

LEMMA sendLinks ==
    ASSUME TypeOK, UniqueEmployees, Linked, send_pending_tasks
    PROVE  Linked'
  <1>1. PICK j \in Row :
          /\ Target(i, j)
          /\ \/ Delivered(employees[j].ip) /\ UNCHANGED employees
             \/ /\ Refused(employees[j].ip)
                /\ employees' = [employees EXCEPT ![j].sockfd = "closed"]
    BY DEF send_pending_tasks
  <1>2. j \in Listed /\ employee_count' = employee_count
    BY <1>1 DEF Target, FirstRow, send_pending_tasks
  <1>3. CASE Delivered(employees[j].ip) /\ UNCHANGED employees
    BY <1>2, <1>3, SameLinks DEF Delivered
  <1>4. CASE Refused(employees[j].ip) /\ employees' = [employees EXCEPT ![j].sockfd = "closed"]
    BY <1>2, <1>4, CloseLinks DEF Refused
  <1> QED
    BY <1>1, <1>3, <1>4

LEMMA NextLinks ==
    TypeOK /\ UniqueEmployees /\ SocketsAgree /\ [Next]_vars => SocketsAgree'
  <1> SUFFICES ASSUME TypeOK, UniqueEmployees, SocketsAgree, [Next]_vars, pc' # "killed"
               PROVE  Linked'
    BY DEF SocketsAgree, Linked
  <1>1. Linked
    BY KilledStays DEF SocketsAgree, Linked
  <1>2. CASE Calm
    BY <1>1, <1>2, CalmKeeps, SameLinks
  <1>3. CASE BrokenPipe
    BY <1>3 DEF BrokenPipe, Enter
  <1>4. CASE Cleanup
    BY <1>4 DEF Cleanup, Linked, Listed
  <1>5. CASE ReceiveFails
    <2>1. Fault \/ UNCHANGED faults
      BY <1>5 DEF ReceiveFails
    <2> QED
      BY <1>1, <1>5, <2>1, CloseLinks DEF ReceiveFails, AtEmployee
  <1> QED
    BY <1>1, <1>2, <1>3, <1>4, <1>5, StepCases, TablesLinks, discoverLinks, staleLinks,
       configureLinks, sendLinks

\* The sockets open in the table are the connections there are, through failed
\* sends, reconnections, rows that move and timeouts (volcom_employer.c 60-151,
\* 275-410, 580-777).
THEOREM SocketsAlwaysAgree == Spec => []SocketsAgree
  <1>1. Init => SocketsAgree
    BY DEF Init, SocketsAgree, Listed
  <1> QED
    BY <1>1, NextLinks, TypeCorrect, EmployeesAreUnique, PTL DEF Spec

-----------------------------------------------------------------------------
\* Reads start where there is something to read.

\* ReadsStartReady as it is inductive: from select() on, what it found readable
\* stays so until it is read, and belongs to an open row until rows may change.
ReadInv ==
    /\ pc = "discover" =>
          /\ bcast # {}
          /\ \A ip \in ready : /\ Readable(ip)
                               /\ \E j \in Listed : employees[j].ip = ip /\ Open(j)
    /\ \A j \in Listed :
          pc \in {"receive", "reading"} /\ j >= i /\ HasResult(j) => Readable(employees[j].ip)

\* What the employees do leaves readable sockets readable and rows alone.
LEMMA OutsideReads ==
    ASSUME TypeOK, ReadInv, Tick \/ \E ip \in Ips : Broadcast(ip) \/ Restart(ip) \/ Moving(ip)
    PROVE  ReadInv'
  <1>1. UNCHANGED <<pc, i, ready, employee_count>> /\ bcast \subseteq bcast'
    BY DEF Tick, Broadcast, Restart, Moving, Answer, LoseChunk, Break, loopVars, tables
  <1>2. ASSUME NEW a \in Ips, Readable(a) PROVE Readable(a)'
    <2>1. CASE Tick \/ \E ip \in Ips : Broadcast(ip) \/ Restart(ip) \/ LoseChunk(ip)
      BY <1>2, <2>1 DEF Tick, Broadcast, Restart, LoseChunk, Readable
    <2>2. ASSUME NEW ip \in Ips, Answer(ip) PROVE Readable(a)'
      <3>1. PICK k \in 1 .. Len(work[ip]) : results' = [results EXCEPT ![ip] = Append(@, work[ip][k])]
        BY <2>2 DEF Answer
      <3>2. /\ results \in [Ips -> Seq(TaskIndex)] /\ work[ip] \in Seq(TaskIndex)
            /\ results[ip] \in Seq(TaskIndex)
        BY DEF TypeOK, NetworkType
      <3>3. work[ip][k] \in TaskIndex
        BY <3>2, ElementOfSeq
      <3>4. Append(results[ip], work[ip][k]) # <<>>
        BY <3>2, <3>3, AppendProperties, EmptySeq
      <3> QED
        BY <1>2, <2>2, <3>1, <3>2, <3>4 DEF Answer, Readable
    <2>3. ASSUME NEW ip \in Ips, Break(ip) PROVE Readable(a)'
      BY <1>2, <2>3 DEF Break, Readable, TypeOK, NetworkType
    <2> QED
      BY <2>1, <2>2, <2>3 DEF Moving
  <1>3. ASSUME NEW j \in Listed
        PROVE  /\ employees[j].ip \in Ips /\ employees'[j].ip = employees[j].ip
               /\ employees'[j].sockfd = employees[j].sockfd
    <2>1. /\ j \in Row /\ employees[j] \in Employee
          /\ DOMAIN employees[j] = {"ip", "silent", "sockfd", "state", "active_tasks"}
      BY ListedRows DEF TypeOK, Employee
    <2>2. employees[j].ip \in Ips
      BY <2>1, EmployeeFields
    <2>3. CASE Tick
      BY <2>1, <2>2, <2>3 DEF Tick
    <2>4. CASE \E ip \in Ips : Broadcast(ip) \/ Restart(ip) \/ Moving(ip)
      BY <2>2, <2>4 DEF Broadcast, Restart, Moving, Answer, LoseChunk, Break, tables
    <2> QED
      BY <2>3, <2>4
  <1>4. Listed' = Listed
    BY <1>1 DEF Listed
  <1>5. \A j \in Listed : (Open(j)' <=> Open(j)) /\ (HasResult(j)' <=> HasResult(j))
    BY <1>1, <1>3 DEF Open, HasResult
  <1>6. CASE pc = "discover"
    <2>1. \A ip \in ready : Readable(ip)' /\ \E j \in Listed' : employees'[j].ip = ip /\ Open(j)'
      BY <1>2, <1>3, <1>4, <1>5, <1>6 DEF ReadInv, TypeOK, LoopType
    <2> QED
      BY <1>1, <1>6, <2>1 DEF ReadInv
  <1>7. CASE pc # "discover"
    <2>1. ASSUME NEW j \in Listed, pc \in {"receive", "reading"}, j >= i, HasResult(j)
          PROVE  Readable(employees[j].ip)'
      <3>1. PICK a \in Ips : a = employees[j].ip
        BY <1>3
      <3>2. Readable(a)'
        BY <1>2, <2>1, <3>1 DEF ReadInv
      <3> QED
        BY <1>3, <3>1, <3>2 DEF Readable
    <2> QED
      BY <1>1, <1>4, <1>5, <1>7, <2>1 DEF ReadInv
  <1> QED
    BY <1>6, <1>7

LEMMA discoverReads ==
    ASSUME TypeOK, UniqueEmployees, ReadInv, NEW ip \in Ips, add_or_update_employee(ip)
    PROVE  ReadInv'
  <1>1. pc = "discover" /\ pc' = "receive" /\ i' = 0 /\ UNCHANGED <<ready, results>>
    BY DEF add_or_update_employee, Enter
  <1>2. ASSUME NEW a \in ready PROVE conn'[a] = conn[a]
    <2>1. PICK k \in Listed : employees[k].ip = a /\ Open(k)
      BY <1>1 DEF ReadInv
    <2>2. a \in Ips /\ conn \in [Ips -> {"none", "up", "gone"}]
      BY DEF TypeOK, LoopType, NetworkType
    <2>3. ASSUME NEW j \in Row, FirstRow(j, ip), UpdateEmployee(j) PROVE conn'[a] = conn[a]
      <3>1. j \in Listed /\ employees[j].ip = ip
        BY <2>3 DEF FirstRow
      <3>2. CASE Open(j)
        BY <2>3, <3>2 DEF UpdateEmployee
      <3>3. CASE ~Open(j)
        <4>1. ip # a
          BY <2>1, <3>1, <3>3 DEF UniqueEmployees
        <4> QED
          BY <2>2, <2>3, <3>1, <3>3, <4>1 DEF UpdateEmployee, Connect
      <3> QED
        BY <3>2, <3>3
    <2>4. CASE ~Known(ip) /\ AddEmployee(ip)
      <3>1. ip # a
        BY <2>1, <2>4 DEF Known
      <3> QED
        BY <2>2, <2>4, <3>1 DEF AddEmployee, Connect
    <2> QED
      BY <2>3, <2>4 DEF add_or_update_employee
  <1>3. \A a \in ready : Readable(a)'
    BY <1>1, <1>2 DEF ReadInv, Readable
  <1>4. ASSUME NEW j \in Listed', HasResult(j)' PROVE Readable(employees[j].ip)'
    <2>1. PICK a \in ready : a = employees'[j].ip
      BY <1>1, <1>4 DEF HasResult
    <2> QED
      BY <1>3, <2>1 DEF Readable
  <1> QED
    BY <1>1, <1>4 DEF ReadInv

\* Row i is done with; what is readable at the rows after it stays so.
LEMMA LaterReads ==
    ASSUME TypeOK, UniqueEmployees, ReadInv, AtEmployee("receive") \/ AtEmployee("reading"),
           pc' = "receive", i' = i + 1, UNCHANGED <<ready, employee_count>>,
           \A j \in Listed : j # i => employees'[j] = employees[j],
           \A a \in Ips : a # employees[i].ip => conn'[a] = conn[a] /\ results'[a] = results[a]
    PROVE  ReadInv'
  <1>1. pc \in {"receive", "reading"} /\ i \in Listed /\ i \in Nat
    BY DEF AtEmployee, TypeOK, LoopType
  <1>2. ASSUME NEW j \in Listed', j >= i', HasResult(j)' PROVE Readable(employees[j].ip)'
    <2>1. j \in Listed /\ j \in Nat /\ j > i
      <3>1. Listed' = Listed /\ employee_count \in Nat
        BY DEF Listed, TypeOK, EmployeesType
      <3>2. j \in Listed /\ j \in Nat
        BY <1>2, <3>1 DEF Listed
      <3>3. j >= i + 1
        BY <1>1, <1>2
      <3> QED
        BY <1>1, <3>2, <3>3
    <2>2. employees'[j] = employees[j] /\ employees[j].ip \in Ips
      <3>1. j # i
        BY <1>1, <2>1
      <3>2. employees[j].ip \in Ips
        BY <2>1, ListedRows, EmployeeFields DEF TypeOK
      <3> QED
        BY <2>1, <3>1, <3>2
    <2>3. Readable(employees[j].ip)
      BY <1>1, <1>2, <2>1, <2>2 DEF HasResult, Open, ReadInv
    <2>4. employees[j].ip # employees[i].ip
      BY <1>1, <2>1 DEF UniqueEmployees
    <2> QED
      BY <2>2, <2>3, <2>4 DEF Readable
  <1> QED
    BY <1>1, <1>2 DEF ReadInv

LEMMA receiveReads ==
    ASSUME TypeOK, UniqueEmployees, ReadInv,
           \/ receive_result_from_employee \/ ReceiveFails
           \/ AtEmployee("receive") /\ Skip
    PROVE  ReadInv'
  <1>1. /\ AtEmployee("receive") \/ AtEmployee("reading")
        /\ pc' = "receive" /\ i' = i + 1 /\ UNCHANGED <<ready, employee_count>>
    BY DEF receive_result_from_employee, ReceiveFails, Skip, tables, Advance, AtEmployee
  <1>2. ASSUME NEW j \in Listed, j # i PROVE employees'[j] = employees[j]
    <2>1. j \in Row /\ employees \in [Row -> Employee \cup {NoEmployee}]
      BY ListedRows DEF TypeOK, EmployeesType
    <2>2. \/ UNCHANGED employees
          \/ \E e : employees' = [employees EXCEPT ![i] = e]
      <3>1. CASE receive_result_from_employee
        BY <3>1 DEF receive_result_from_employee
      <3>2. CASE ReceiveFails
        BY <3>2 DEF ReceiveFails
      <3>3. CASE Skip
        BY <3>3 DEF Skip, tables
      <3> QED
        BY <3>1, <3>2, <3>3
    <2> QED
      BY <1>2, <2>1, <2>2
  <1>3. ASSUME NEW a \in Ips, a # employees[i].ip
        PROVE  conn'[a] = conn[a] /\ results'[a] = results[a]
    BY <1>3 DEF receive_result_from_employee, ReceiveFails, Disconnect, Skip, network, TypeOK,
       NetworkType
  <1> QED
    BY <1>1, <1>2, <1>3, LaterReads

LEMMA NextReads ==
    ASSUME Interrupts = FALSE
    PROVE  TypeOK /\ UniqueEmployees /\ ReadInv /\ [Next]_vars => ReadInv'
  <1> SUFFICES ASSUME TypeOK, UniqueEmployees, ReadInv, [Next]_vars PROVE ReadInv'
    OBVIOUS
  <1>1. CASE Tick \/ \E ip \in Ips : Broadcast(ip) \/ Restart(ip) \/ Moving(ip)
    BY <1>1, OutsideReads
  <1>2. CASE \E ip \in Ips : add_or_update_employee(ip)
    BY <1>2, discoverReads
  <1>3. CASE \/ receive_result_from_employee \/ ReceiveFails
             \/ AtEmployee("receive") /\ Skip
    BY <1>3, receiveReads
  <1>4. CASE Select
    <2>1. /\ ready' = {ip \in Ips : Readable(ip) /\ \E j \in Listed : employees[j].ip = ip /\ Open(j)}
          /\ pc' = IF bcast = {} THEN "receive" ELSE "discover"
          /\ UNCHANGED <<employees, employee_count, conn, results, bcast>>
      BY <1>4 DEF Select, Enter, tables, network
    <2>2. Listed' = Listed /\ (\A j \in Listed : Open(j)' <=> Open(j))
          /\ \A ip \in Ips : Readable(ip)' <=> Readable(ip)
      BY <2>1 DEF Listed, Open, Readable
    <2>3. \A ip \in ready' : ip \in Ips /\ Readable(ip)'
                            /\ \E j \in Listed' : employees'[j].ip = ip /\ Open(j)'
      BY <2>1, <2>2
    <2>4. ASSUME NEW j \in Listed', HasResult(j)' PROVE Readable(employees[j].ip)'
      <3>1. PICK a \in ready' : a = employees'[j].ip
        BY <2>4 DEF HasResult
      <3> QED
        BY <2>3, <3>1 DEF Readable
    <2> QED
      BY <2>1, <2>3, <2>4 DEF ReadInv
  <1>5. CASE UNCHANGED vars
    BY <1>5 DEF vars, ReadInv, Listed, Open, HasResult, Readable
  <1>6. CASE \/ populate_chunked_tasks \/ LoopEnd \/ CheckCompletion \/ Ended
             \/ send_initial_config \/ Assign \/ send_pending_tasks \/ BrokenPipe
             \/ handle_task_timeouts \/ remove_stale_employees \/ Cleanup
             \/ SelectFails
             \/ Skip /\ ~AtEmployee("receive")
    <2>1. pc' \notin {"discover", "receive", "reading"}
      BY <1>6 DEF SelectFails, populate_chunked_tasks, LoopEnd, CheckCompletion, Ended,
         send_initial_config, Assign, send_pending_tasks, BrokenPipe, handle_task_timeouts,
         remove_stale_employees,
         Cleanup, Skip, Enter, Advance, AtEmployee, AtTask, Following, EmployeeLoops,
         TaskLoops, loopVars, vars
    <2> QED
      BY <2>1 DEF ReadInv
  <1>7. CASE Interrupted
    BY <1>7 DEF Interrupted
  <1>8. CASE BeginReceive
    <2>1. /\ pc = "receive" /\ pc' = "reading"
          /\ UNCHANGED <<i, ready, employees, employee_count, conn, results>>
      BY <1>8 DEF BeginReceive, AtEmployee, tables, network
    <2> QED
      BY <2>1 DEF ReadInv, Listed, HasResult, Open, Readable
  <1>9. CASE Skip
    BY <1>3, <1>6, <1>9
  <1>10. CASE Calm
    BY <1>1, <1>4, <1>5, <1>6, <1>7, <1>8, <1>9, <1>10 DEF Calm
  <1> QED
    BY <1>1, <1>2, <1>3, <1>6, <1>10, StepCases

\* Unless a signal interrupts select(), every read of steps 1 and 2 starts with
\* a datagram, a result or the end of the stream to read, whatever happened since
\* select() (volcom_employer.c 658-698).
THEOREM ReadsFindSomething ==
    ASSUME Interrupts = FALSE
    PROVE  Spec => []ReadsStartReady
  <1>1. Init => ReadInv
    BY DEF Init, ReadInv
  <1>2. ReadInv => ReadsStartReady
    BY DEF ReadInv, ReadsStartReady
  <1> QED
    BY <1>1, <1>2, NextReads, TypeCorrect, EmployeesAreUnique, PTL DEF Spec

-----------------------------------------------------------------------------
\* What is in a queue, and what the operations on queues change of it.
In(q, x) == \E k \in 1 .. Len(q) : q[k] = x

LEMMA EmptyHasNone == \A x : ~In(<<>>, x)
  BY DEF In

LEMMA AppendedIn ==
    ASSUME NEW S, NEW q \in Seq(S), NEW x \in S
    PROVE  \A y : In(Append(q, x), y) <=> In(q, y) \/ y = x
  <1> DEFINE r == Append(q, x)
  <1>1. /\ Len(r) = Len(q) + 1 /\ Len(q) \in Nat
        /\ r[Len(q) + 1] = x /\ \A k \in 1 .. Len(q) : r[k] = q[k]
    BY AppendProperties, LenProperties
  <1> HIDE DEF r
  <1>2. \A k \in 1 .. Len(r) : k \in 1 .. Len(q) \/ k = Len(q) + 1
    BY <1>1
  <1>3. Len(q) + 1 \in 1 .. Len(r) /\ \A k \in 1 .. Len(q) : k \in 1 .. Len(r)
    BY <1>1
  <1>4. \A y : In(r, y) <=> In(q, y) \/ y = x
    BY <1>1, <1>2, <1>3 DEF In
  <1> QED
    BY <1>4 DEF r

LEMMA HeadOrTail ==
    ASSUME NEW S, NEW q \in Seq(S), q # <<>>
    PROVE  \A y : In(q, y) <=> In(Tail(q), y) \/ y = Head(q)
  <1> DEFINE r == Tail(q)
  <1>1. /\ Len(q) \in Nat \ {0} /\ Len(r) = Len(q) - 1 /\ Head(q) = q[1]
        /\ \A k \in 1 .. Len(q) - 1 : r[k] = q[k + 1]
    BY HeadTailProperties, LenProperties, EmptySeq
  <1> HIDE DEF r
  <1>2. \A k \in 1 .. Len(r) : k + 1 \in 1 .. Len(q) /\ r[k] = q[k + 1]
    BY <1>1
  <1>3. \A k \in 1 .. Len(q) : k # 1 => k - 1 \in 1 .. Len(r) /\ r[k - 1] = q[k]
    BY <1>1
  <1>4. 1 \in 1 .. Len(q)
    BY <1>1
  <1>5. \A y : In(q, y) <=> In(r, y) \/ y = q[1]
    BY <1>2, <1>3, <1>4 DEF In
  <1> QED
    BY <1>1, <1>5 DEF r

LEMMA ConcatIn ==
    ASSUME NEW S, NEW p \in Seq(S), NEW q \in Seq(S)
    PROVE  \A y : In(p \o q, y) <=> In(p, y) \/ In(q, y)
  <1> DEFINE r == p \o q
  <1>1. /\ Len(p) \in Nat /\ Len(q) \in Nat /\ Len(r) = Len(p) + Len(q)
        /\ \A k \in 1 .. Len(p) + Len(q) : r[k] = IF k <= Len(p) THEN p[k] ELSE q[k - Len(p)]
    BY ConcatProperties, LenProperties
  <1> HIDE DEF r
  <1>2. \A k \in 1 .. Len(r) : \/ k \in 1 .. Len(p) /\ r[k] = p[k]
                               \/ k - Len(p) \in 1 .. Len(q) /\ r[k] = q[k - Len(p)]
    BY <1>1
  <1>3. \A k \in 1 .. Len(p) : k \in 1 .. Len(r) /\ r[k] = p[k]
    BY <1>1
  <1>4. \A k \in 1 .. Len(q) : k + Len(p) \in 1 .. Len(r) /\ r[k + Len(p)] = q[k]
    BY <1>1
  <1>5. \A y : In(r, y) <=> In(p, y) \/ In(q, y)
    BY <1>2, <1>3, <1>4 DEF In
  <1> QED
    BY <1>5 DEF r

LEMMA PrefixIn ==
    ASSUME NEW S, NEW q \in Seq(S), NEW k \in 0 .. Len(q)
    PROVE  \A y : In(SubSeq(q, 1, k), y) => In(q, y)
  <1> DEFINE r == SubSeq(q, 1, k)
  <1>1. \A n \in 1 .. Len(r) : n \in 1 .. Len(q) /\ r[n] = q[n]
    BY SubSeqProperties, LenProperties, ElementOfSeq
  <1> HIDE DEF r
  <1>2. \A y : In(r, y) => In(q, y)
    BY <1>1 DEF In
  <1> QED
    BY <1>2 DEF r

\* One element goes, the others stay.
LEMMA RemovedIn ==
    ASSUME NEW S, NEW q \in Seq(S), NEW k \in 1 .. Len(q)
    PROVE  /\ In(q, q[k])
           /\ \A y : In(RemoveAt(q, k), y) => In(q, y)
           /\ \A y : In(q, y) => In(RemoveAt(q, k), y) \/ y = q[k]
  <1> DEFINE a == SubSeq(q, 1, k - 1)
             b == SubSeq(q, k + 1, Len(q))
  <1>1. /\ Len(q) \in Nat /\ k \in Nat \ {0} /\ k <= Len(q)
        /\ \A n \in 1 .. Len(q) : q[n] \in S
    BY LenProperties, ElementOfSeq
  <1>2. /\ a \in Seq(S) /\ Len(a) = k - 1 /\ \A n \in 1 .. k - 1 : a[n] = q[n]
    BY <1>1, SubSeqProperties
  <1>3. /\ b \in Seq(S) /\ Len(b) = Len(q) - k
        /\ \A n \in 1 .. Len(q) - k : b[n] = q[k + n]
    BY <1>1, SubSeqProperties
  <1>4. RemoveAt(q, k) = a \o b
    BY DEF RemoveAt
  <1> HIDE DEF a, b
  <1>5. \A y : In(RemoveAt(q, k), y) <=> In(a, y) \/ In(b, y)
    BY <1>2, <1>3, <1>4, ConcatIn
  <1>6. /\ \A n \in 1 .. Len(a) : n \in 1 .. Len(q) /\ a[n] = q[n]
        /\ \A n \in 1 .. Len(b) : k + n \in 1 .. Len(q) /\ b[n] = q[k + n]
    BY <1>1, <1>2, <1>3
  <1>7. \A n \in 1 .. Len(q) : \/ n = k
                               \/ n \in 1 .. Len(a) /\ a[n] = q[n]
                               \/ n - k \in 1 .. Len(b) /\ b[n - k] = q[n]
    BY <1>1, <1>2, <1>3
  <1>8. \A y : In(a, y) \/ In(b, y) => In(q, y)
    BY <1>6 DEF In
  <1>9. \A y : In(q, y) => In(a, y) \/ In(b, y) \/ y = q[k]
    BY <1>7 DEF In
  <1> QED
    BY <1>5, <1>8, <1>9 DEF In

\* The copies of a task on their way or with an employee.
Has(ip, n) == In(work[ip], n) \/ In(results[ip], n)

CarriedAgrees == \A ip \in Ips : Carried(ip) = {n \in TaskIndex : Has(ip, n)}

LEMMA CarriedIs == TypeOK => CarriedAgrees
  <1> SUFFICES ASSUME TypeOK, NEW ip \in Ips, NEW n
               PROVE  (\E k \in 1 .. Len(work[ip] \o results[ip]) :
                          (work[ip] \o results[ip])[k] = n) <=> Has(ip, n)
    BY DEF CarriedAgrees, Carried
  <1>1. work[ip] \in Seq(TaskIndex) /\ results[ip] \in Seq(TaskIndex)
    BY DEF TypeOK, NetworkType
  <1>2. In(work[ip] \o results[ip], n) <=> Has(ip, n)
    BY <1>1, ConcatIn DEF Has
  <1> QED
    BY <1>2 DEF In

\* Copies become fewer, except where a chunk is sent.
FewerCopies == \A ip \in Ips : \A n : Has(ip, n)' => Has(ip, n)
SameCopies == \A ip \in Ips : \A n : Has(ip, n)' <=> Has(ip, n)

LEMMA KeptCopies ==
    ASSUME UNCHANGED <<work, results>>
    PROVE  SameCopies
  BY DEF SameCopies, Has

LEMMA DisconnectCopies ==
    ASSUME TypeOK, NEW ip \in Ips, Disconnect(ip), UNCHANGED work
    PROVE  FewerCopies
  <1>1. \A a \in Ips : results'[a] = IF a = ip THEN <<>> ELSE results[a]
    BY DEF Disconnect, TypeOK, NetworkType
  <1> QED
    BY <1>1, EmptyHasNone DEF FewerCopies, Has

LEMMA AllDisconnectedCopies ==
    ASSUME results' = [ip \in Ips |-> <<>>], UNCHANGED work
    PROVE  FewerCopies
  <1>1. \A a \in Ips : results'[a] = <<>>
    OBVIOUS
  <1> QED
    BY <1>1, EmptyHasNone DEF FewerCopies, Has

LEMMA MovingCopies ==
    ASSUME TypeOK, NEW ip \in Ips, Moving(ip)
    PROVE  FewerCopies
  <1>1. /\ work \in [Ips -> Seq(TaskIndex)] /\ results \in [Ips -> Seq(TaskIndex)]
        /\ work[ip] \in Seq(TaskIndex) /\ results[ip] \in Seq(TaskIndex)
    BY DEF TypeOK, NetworkType
  <1>2. CASE Answer(ip)
    <2>1. PICK k \in 1 .. Len(work[ip]) :
             /\ results' = [results EXCEPT ![ip] = Append(@, work[ip][k])]
             /\ work' = [work EXCEPT ![ip] = RemoveAt(@, k)]
      BY <1>2 DEF Answer
    <2>2. work[ip][k] \in TaskIndex
      BY <1>1, ElementOfSeq
    <2>3. /\ \A n : In(Append(results[ip], work[ip][k]), n) => In(results[ip], n) \/ n = work[ip][k]
          /\ \A n : In(RemoveAt(work[ip], k), n) => In(work[ip], n)
          /\ In(work[ip], work[ip][k])
      BY <1>1, <2>2, AppendedIn, RemovedIn
    <2>4. \A a \in Ips : /\ results'[a] = IF a = ip THEN Append(results[ip], work[ip][k]) ELSE results[a]
                         /\ work'[a] = IF a = ip THEN RemoveAt(work[ip], k) ELSE work[a]
      BY <1>1, <2>1
    <2> QED
      BY <2>3, <2>4 DEF FewerCopies, Has
  <1>3. CASE LoseChunk(ip)
    <2>1. PICK k \in 1 .. Len(work[ip]) : work' = [work EXCEPT ![ip] = RemoveAt(@, k)]
      BY <1>3 DEF LoseChunk
    <2>2. \A n : In(RemoveAt(work[ip], k), n) => In(work[ip], n)
      BY <1>1, RemovedIn
    <2>3. \A a \in Ips : /\ results'[a] = results[a]
                         /\ work'[a] = IF a = ip THEN RemoveAt(work[ip], k) ELSE work[a]
      BY <1>1, <1>3, <2>1 DEF LoseChunk
    <2> QED
      BY <2>2, <2>3 DEF FewerCopies, Has
  <1>4. CASE Break(ip)
    <2>1. PICK k \in 0 .. Len(results[ip]) : results' = [results EXCEPT ![ip] = SubSeq(@, 1, k)]
      BY <1>4 DEF Break
    <2>2. \A n : In(SubSeq(results[ip], 1, k), n) => In(results[ip], n)
      BY <1>1, PrefixIn
    <2>3. \A a \in Ips :
             /\ results'[a] = IF a = ip THEN SubSeq(results[ip], 1, k) ELSE results[a]
             /\ work'[a] = work[a] \/ work'[a] = <<>>
      BY <1>1, <1>4, <2>1 DEF Break
    <2> QED
      BY <2>2, <2>3, EmptyHasNone DEF FewerCopies, Has
  <1> QED
    BY <1>2, <1>3, <1>4 DEF Moving

\* A result is read: one copy goes, unless the employee has another.
LEMMA receiveCopies ==
    ASSUME TypeOK, receive_result_from_employee
    PROVE  \E ip \in Ips, n \in TaskIndex :
              /\ Has(ip, n)
              /\ \/ SameCopies
                 \/ \A a \in Ips : \A m : Has(a, m)' <=> Has(a, m) /\ ~(a = ip /\ m = n)
              /\ \/ UNCHANGED task_assignments
                 \/ task_assignments' = [task_assignments EXCEPT ![n].is_completed = TRUE]
  <1>1. employees[i].ip \in Ips
    BY ListedRows, EmployeeFields DEF receive_result_from_employee, AtEmployee, TypeOK
  <1>2. PICK ip \in Ips : ip = employees[i].ip
    BY <1>1
  <1>3. /\ results[ip] \in Seq(TaskIndex) /\ results[ip] # <<>>
        /\ results' = [results EXCEPT ![ip] = Tail(@)] /\ work' = work
        /\ \/ UNCHANGED task_assignments
           \/ task_assignments' = [task_assignments EXCEPT ![Head(results[ip])].is_completed = TRUE]
    BY <1>2 DEF receive_result_from_employee, TypeOK, NetworkType
  <1>4. PICK n \in TaskIndex : n = Head(results[ip])
    BY <1>3, HeadTailProperties
  <1>5. \A m : In(results[ip], m) <=> In(Tail(results[ip]), m) \/ m = n
    BY <1>3, <1>4, HeadOrTail
  <1>6. \A a \in Ips : results'[a] = IF a = ip THEN Tail(results[ip]) ELSE results[a]
    BY <1>3 DEF TypeOK, NetworkType
  <1>7. \A a \in Ips : \A m : Has(a, m)' <=>
           IF a = ip THEN In(work[a], m) \/ In(Tail(results[a]), m) ELSE Has(a, m)
    BY <1>3, <1>6 DEF Has
  <1>8. Has(ip, n)
    BY <1>5 DEF Has
  <1>9. \A a \in Ips : \A m : ~(a = ip /\ m = n) => (Has(a, m)' <=> Has(a, m))
    BY <1>5, <1>7 DEF Has
  <1>10. CASE Has(ip, n)'
    BY <1>3, <1>4, <1>8, <1>9, <1>10 DEF SameCopies
  <1>11. CASE ~Has(ip, n)'
    BY <1>3, <1>4, <1>8, <1>9, <1>11
  <1> QED
    BY <1>10, <1>11

\* A chunk is sent: there may be one copy more, with the employee it was assigned to.
LEMMA sendCopies ==
    ASSUME TypeOK, send_pending_tasks
    PROVE  \E ip \in Ips :
              /\ i \in Queued /\ i \in TaskIndex /\ Unsent(i)
              /\ task_assignments[i].employee_ip = ip
              /\ \/ /\ task_assignments' = [task_assignments EXCEPT ![i].is_sent = TRUE]
                    /\ \E j \in Listed : employees'[j].ip = ip /\ employees'[j].sockfd = "open"
                    /\ \/ SameCopies
                       \/ \A a \in Ips : \A m : Has(a, m)' <=> Has(a, m) \/ (a = ip /\ m = i)
                 \/ UNCHANGED task_assignments /\ FewerCopies
  <1>1. i \in Queued /\ i \in TaskIndex /\ Unsent(i)
    BY QueuedTasks DEF send_pending_tasks, AtTask, TypeOK
  <1>2. PICK j \in Row :
          /\ Target(i, j)
          /\ LET ip == employees[j].ip IN
             \/ /\ Delivered(ip)
                /\ task_assignments' = [task_assignments EXCEPT ![i].is_sent = TRUE]
                /\ work' = IF conn[ip] = "up" /\ Len(work[ip]) < BufferCap
                           THEN [work EXCEPT ![ip] = Append(@, i)] ELSE work
                /\ UNCHANGED employees
             \/ /\ Refused(ip)
                /\ UNCHANGED <<task_assignments, work>>
    BY DEF send_pending_tasks
  <1>3. employees[j].ip \in Ips /\ task_assignments[i].employee_ip = employees[j].ip
    BY <1>2, ListedRows, EmployeeFields DEF Target, FirstRow, TypeOK
  <1>4. PICK ip \in Ips : ip = employees[j].ip
    BY <1>3
  <1>5. ASSUME UNCHANGED employees
        PROVE  \E k \in Listed : employees'[k].ip = ip /\ employees'[k].sockfd = "open"
    BY <1>2, <1>4, <1>5 DEF Target, FirstRow, Usable, Open
  <1>6. CASE Refused(ip) /\ UNCHANGED <<task_assignments, work>>
    BY <1>1, <1>3, <1>4, <1>6, DisconnectCopies DEF Refused
  <1>7. CASE /\ Delivered(ip)
             /\ task_assignments' = [task_assignments EXCEPT ![i].is_sent = TRUE]
             /\ work' = work /\ UNCHANGED employees
    BY <1>1, <1>3, <1>4, <1>7, <1>5, KeptCopies DEF Delivered
  <1>8. CASE /\ Delivered(ip)
             /\ task_assignments' = [task_assignments EXCEPT ![i].is_sent = TRUE]
             /\ work' = [work EXCEPT ![ip] = Append(@, i)] /\ UNCHANGED employees
    <2>1. work[ip] \in Seq(TaskIndex)
      BY DEF TypeOK, NetworkType
    <2>2. \A m : In(Append(work[ip], i), m) <=> In(work[ip], m) \/ m = i
      BY <1>1, <2>1, AppendedIn
    <2>3. \A a \in Ips : /\ work'[a] = IF a = ip THEN Append(work[ip], i) ELSE work[a]
                         /\ results'[a] = results[a]
      BY <1>8 DEF Delivered, TypeOK, NetworkType
    <2>4. \A a \in Ips : \A m : Has(a, m)' <=> Has(a, m) \/ (a = ip /\ m = i)
      BY <2>2, <2>3 DEF Has
    <2> QED
      BY <1>1, <1>3, <1>4, <1>8, <1>5, <2>4
  <1> QED
    BY <1>2, <1>4, <1>6, <1>7, <1>8

\* The steps that look at no task.
Apart == Calm \/ (\E ip \in Ips : Moving(ip) \/ add_or_update_employee(ip))
         \/ ReceiveFails \/ send_initial_config \/ BrokenPipe
         \/ remove_stale_employees \/ Cleanup

LEMMA ApartCopies ==
    ASSUME TypeOK, Apart
    PROVE  task_assignments' = task_assignments /\ FewerCopies
  <1>1. SameCopies => FewerCopies
    BY DEF SameCopies, FewerCopies
  <1>2. CASE Calm
    BY <1>1, <1>2, CalmKeeps, KeptCopies
  <1>3. CASE \E ip \in Ips : Moving(ip)
    BY <1>3, MovingCopies DEF Moving, Answer, LoseChunk, Break, tables
  <1>4. CASE \E ip \in Ips : add_or_update_employee(ip)
    BY <1>1, <1>4, KeptCopies DEF add_or_update_employee
  <1>5. CASE ReceiveFails \/ send_initial_config
    <2>1. i \in Listed /\ task_assignments' = task_assignments /\ work' = work
          /\ (UNCHANGED results \/ Disconnect(employees[i].ip))
      BY <1>5 DEF ReceiveFails, send_initial_config, AtEmployee, Delivered, Refused
    <2>2. employees[i].ip \in Ips
      BY <2>1, ListedRows, EmployeeFields DEF TypeOK
    <2> QED
      BY <1>1, <2>1, <2>2, KeptCopies, DisconnectCopies
  <1>6. CASE BrokenPipe \/ Cleanup
    BY <1>6, AllDisconnectedCopies DEF BrokenPipe, Cleanup, tables
  <1>7. CASE remove_stale_employees
    <2>1. i \in Listed /\ task_assignments' = task_assignments /\ work' = work
          /\ (UNCHANGED results \/ Disconnect(employees[i].ip))
      BY <1>7 DEF remove_stale_employees, AtEmployee
    <2>2. employees[i].ip \in Ips
      BY <2>1, ListedRows, EmployeeFields DEF TypeOK
    <2> QED
      BY <1>1, <2>1, <2>2, KeptCopies, DisconnectCopies
  <1> QED
    BY <1>2, <1>3, <1>4, <1>5, <1>6, <1>7 DEF Apart

\* The steps that change who a task is with, or its time, and no copies.
LEMMA TaskSteps ==
    ASSUME TypeOK, Assign \/ handle_task_timeouts \/ Tick
    PROVE  /\ SameCopies
           /\ \A n \in TaskIndex :
                 /\ task_assignments'[n].is_completed = task_assignments[n].is_completed
                 /\ task_assignments'[n].is_sent => task_assignments[n].is_sent
                 /\ task_assignments[n].employee_ip # NoIp => task_assignments'[n].employee_ip # NoIp
                 /\ ~handle_task_timeouts =>
                       task_assignments'[n].is_sent = task_assignments[n].is_sent
  <1>1. SameCopies
    BY KeptCopies DEF Assign, handle_task_timeouts, Tick, network
  <1>2. ASSUME NEW n \in TaskIndex
        PROVE  /\ task_assignments'[n].is_completed = task_assignments[n].is_completed
               /\ task_assignments'[n].is_sent => task_assignments[n].is_sent
               /\ task_assignments[n].employee_ip # NoIp => task_assignments'[n].employee_ip # NoIp
               /\ ~handle_task_timeouts =>
                       task_assignments'[n].is_sent = task_assignments[n].is_sent
    <2>1. /\ task_assignments[n] \in Task /\ task_assignments \in [TaskIndex -> Task]
          /\ DOMAIN task_assignments[n] = {"employee_ip", "age", "is_sent", "is_completed"}
      BY DEF TypeOK, TasksType, Task
    <2>2. CASE Assign
      <3>1. PICK j \in Listed : task_assignments' = [task_assignments EXCEPT
                                   ![i].employee_ip = employees[j].ip, ![i].age = 0]
        BY <2>2 DEF Assign
      <3>2. employees[j].ip \in Ips
        BY ListedRows, EmployeeFields DEF TypeOK
      <3>3. employees[j].ip # NoIp
        BY <3>2, IpsAssumption
      <3> QED
        BY <2>1, <3>1, <3>3
    <2>3. CASE handle_task_timeouts
      BY <2>1, <2>3 DEF handle_task_timeouts
    <2>4. CASE Tick
      BY <2>1, <2>4 DEF Tick
    <2> QED
      BY <2>2, <2>3, <2>4
  <1> QED
    BY <1>1, <1>2

-----------------------------------------------------------------------------
\* Only what was assigned is sent, worked on or completed.
OnlyAssigned ==
    \A n \in TaskIndex : task_assignments[n].employee_ip = NoIp =>
        /\ ~task_assignments[n].is_sent /\ ~task_assignments[n].is_completed
        /\ \A ip \in Ips : ~Has(ip, n)

LEMMA NextAssigned == TypeOK /\ OnlyAssigned /\ [Next]_vars => OnlyAssigned'
  <1> SUFFICES ASSUME TypeOK, OnlyAssigned, [Next]_vars, NEW n \in TaskIndex,
                      task_assignments'[n].employee_ip = NoIp
               PROVE  /\ ~task_assignments'[n].is_sent /\ ~task_assignments'[n].is_completed
                      /\ \A ip \in Ips : ~Has(ip, n)'
    BY DEF OnlyAssigned
  <1>1. /\ task_assignments[n] \in Task /\ task_assignments \in [TaskIndex -> Task]
        /\ DOMAIN task_assignments[n] = {"employee_ip", "age", "is_sent", "is_completed"}
    BY DEF TypeOK, TasksType, Task
  <1>2. CASE Apart
    BY <1>2, ApartCopies DEF OnlyAssigned, FewerCopies
  <1>3. CASE Assign \/ handle_task_timeouts \/ Tick
    BY <1>3, TaskSteps DEF OnlyAssigned, SameCopies
  <1>4. CASE receive_result_from_employee
    <2>1. PICK ip \in Ips, m \in TaskIndex :
             /\ Has(ip, m) /\ \A a \in Ips : Has(a, n)' => Has(a, n)
             /\ \/ UNCHANGED task_assignments
                \/ task_assignments' = [task_assignments EXCEPT ![m].is_completed = TRUE]
      BY <1>4, receiveCopies DEF SameCopies
    <2>2. task_assignments[n].employee_ip = NoIp
      BY <1>1, <2>1
    <2>3. m # n
      BY <2>1, <2>2 DEF OnlyAssigned
    <2> QED
      BY <1>1, <2>1, <2>2, <2>3 DEF OnlyAssigned
  <1>5. CASE send_pending_tasks
    <2>1. PICK ip \in Ips :
             /\ i \in TaskIndex /\ task_assignments[i].employee_ip = ip
             /\ \/ /\ task_assignments' = [task_assignments EXCEPT ![i].is_sent = TRUE]
                   /\ \A a \in Ips : Has(a, n)' => Has(a, n) \/ n = i
                \/ UNCHANGED task_assignments /\ FewerCopies
      BY <1>5, sendCopies DEF SameCopies
    <2>2. task_assignments[n].employee_ip = NoIp
      BY <1>1, <2>1
    <2>3. n # i
      BY <2>1, <2>2, IpsAssumption
    <2> QED
      BY <1>1, <2>1, <2>2, <2>3 DEF OnlyAssigned, FewerCopies
  <1> QED
    BY <1>2, <1>3, <1>4, <1>5, StepCases DEF Apart

LEMMA AssignedIs == TypeOK /\ OnlyAssigned => OnlyAssignedWork
  <1> SUFFICES ASSUME TypeOK, OnlyAssigned, NEW n \in TaskIndex, NEW ip \in Ips,
                      task_assignments[n].employee_ip = NoIp
               PROVE  /\ ~task_assignments[n].is_sent /\ ~task_assignments[n].is_completed
                      /\ \A k \in 1 .. Len(work[ip] \o results[ip]) :
                            (work[ip] \o results[ip])[k] # n
    BY DEF OnlyAssigned, OnlyAssignedWork
  <1>1. n \notin Carried(ip)
    BY CarriedIs DEF CarriedAgrees, OnlyAssigned
  <1> QED
    BY <1>1 DEF OnlyAssigned, Carried

\* No chunk is sent, worked on or completed that step 4 has not assigned
\* (volcom_employer.c 172-219, 412-495, 715-740).
THEOREM OnlyAssignedIsWorkedOn == Spec => []OnlyAssignedWork
  <1>1. Init => OnlyAssigned
    BY EmptyHasNone DEF Init, OnlyAssigned, NewTask, Has
  <1> QED
    BY <1>1, NextAssigned, AssignedIs, TypeCorrect, PTL DEF Spec

-----------------------------------------------------------------------------
\* A chunk goes to the employee its task is assigned to.
LEMMA SentStep ==
    ASSUME TypeOK, TypeOK', [Next]_vars, NEW ip \in Ips, NEW n \in Carried(ip)' \ Carried(ip)
    PROVE  /\ task_assignments[n].employee_ip = ip /\ task_assignments'[n].is_sent
           /\ \E j \in Listed : employees'[j].ip = ip /\ employees'[j].sockfd = "open"
  <1>1. CarriedAgrees'
    BY CarriedIs, PTL
  <1>2. n \in TaskIndex /\ Has(ip, n)' /\ ~Has(ip, n)
    BY <1>1, CarriedIs DEF CarriedAgrees
  <1>3. ~FewerCopies /\ ~SameCopies
    BY <1>2 DEF FewerCopies, SameCopies
  <1>4. ~Apart /\ ~Assign /\ ~handle_task_timeouts /\ ~Tick
    BY <1>3, ApartCopies, TaskSteps
  <1>5. ~receive_result_from_employee
    <2>1. ASSUME receive_result_from_employee PROVE FewerCopies
      BY <2>1, receiveCopies DEF SameCopies, FewerCopies
    <2> QED
      BY <1>3, <2>1
  <1>6. send_pending_tasks
    BY <1>4, <1>5, StepCases DEF Apart
  <1>7. PICK a \in Ips :
           /\ i \in TaskIndex /\ task_assignments[i].employee_ip = a
           /\ task_assignments' = [task_assignments EXCEPT ![i].is_sent = TRUE]
           /\ \E j \in Listed : employees'[j].ip = a /\ employees'[j].sockfd = "open"
           /\ \A b \in Ips : \A m : Has(b, m)' <=> Has(b, m) \/ (b = a /\ m = i)
    BY <1>3, <1>6, sendCopies
  <1>8. ip = a /\ n = i
    BY <1>2, <1>7
  <1>9. task_assignments'[i].is_sent
    <2>1. task_assignments \in [TaskIndex -> Task] /\ task_assignments[i] \in Task
      BY <1>7 DEF TypeOK, TasksType
    <2>2. task_assignments'[i] = [task_assignments[i] EXCEPT !.is_sent = TRUE]
      BY <1>7, <2>1
    <2> QED
      BY <2>1, <2>2 DEF Task
  <1> QED
    BY <1>7, <1>8, <1>9

\* A chunk reaches no employee but the one step 4 assigned its task to, whatever
\* became of the rows since (volcom_employer.c 172-219, 715-740).
THEOREM SentOnlyToAssignee == Spec => SentToAssignee
  <1>1. TypeOK /\ TypeOK' /\ [Next]_vars =>
           [\A ip \in Ips : \A n \in Carried(ip)' \ Carried(ip) :
               /\ task_assignments[n].employee_ip = ip /\ task_assignments'[n].is_sent
               /\ \E j \in Listed : employees'[j].ip = ip /\ employees'[j].sockfd = "open"]_vars
    BY SentStep
  <1> QED
    BY <1>1, TypeCorrect, PTL DEF Spec, SentToAssignee

-----------------------------------------------------------------------------
\* The employer implements TaskFarm.  Its variables, as Farm maps them:
Out == {n \in TaskIndex : Pending(n)}
Done == {n \in TaskIndex : task_assignments[n].is_completed}
Copies == [ip \in Ips |-> Carried(ip)]
State == CASE pc = "populate" -> "open"
           [] pc \in {"cleanup", "done"} /\ ~is_active -> "finished"
           [] pc = "killed" \/ (pc \in {"cleanup", "done"} /\ is_active) -> "aborted"
           [] OTHER -> "working"

SameFarm == Queued' = Queued /\ Out' = Out /\ Done' = Done

\* The steps of TaskFarm over the queues themselves.
Accepting ==
    /\ State = "open" /\ State' = "working" /\ Queued' \subseteq TaskIndex
    /\ Out' = Out /\ Done' = Done /\ SameCopies
Giving(n, ip) ==
    /\ State = "working" /\ State' = "working"
    /\ n \in Queued \ (Out \cup Done) /\ Out' = Out \cup {n} /\ Done' = Done /\ Queued' = Queued
    /\ \/ SameCopies
       \/ \A a \in Ips : \A m : Has(a, m)' <=> Has(a, m) \/ (a = ip /\ m = n)
Returning(n, ip) ==
    /\ State = "working" /\ State' = "working" /\ Queued' = Queued
    /\ Has(ip, n)
    /\ \/ Done' = Done \cup {n} /\ Out' = Out \ {n}
       \/ Done' = Done /\ Out' = Out
    /\ \/ SameCopies
       \/ \A a \in Ips : \A m : Has(a, m)' <=> Has(a, m) /\ ~(a = ip /\ m = n)
TakingBack ==
    /\ State = "working" /\ State' = "working"
    /\ Out' \subseteq Out /\ Done' = Done /\ Queued' = Queued /\ SameCopies
Losing == SameFarm /\ State' = State /\ FewerCopies
Finishing ==
    /\ State = "working" /\ State' = "finished"
    /\ Queued # {} /\ Queued \subseteq Done /\ SameFarm /\ SameCopies
Aborting == State = "working" /\ State' = "aborted" /\ SameFarm /\ FewerCopies

Farming ==
    \/ Accepting \/ TakingBack \/ Losing \/ Finishing \/ Aborting
    \/ \E n \in TaskIndex, ip \in Ips : Giving(n, ip) \/ Returning(n, ip)

LEMMA SameTasks ==
    ASSUME task_assignments' = task_assignments, assignment_count' = assignment_count
    PROVE  SameFarm
  BY DEF SameFarm, Queued, Out, Done, Pending

LEMMA FirstTasks ==
    ASSUME NEW m \in 0 .. MaxAssignments
    PROVE  0 .. m - 1 \subseteq TaskIndex
  BY BoundsAssumption DEF TaskIndex

LEMMA ApartFarms ==
    ASSUME TypeOK, StopInv, Apart
    PROVE  Farming
  <1>1. task_assignments' = task_assignments /\ FewerCopies
    BY ApartCopies
  <1>2. CASE populate_chunked_tasks
    <2>1. State = "open" /\ State' = "working"
      BY <1>2 DEF populate_chunked_tasks, Enter, State
    <2>2. SameCopies
      BY <1>2, KeptCopies DEF populate_chunked_tasks, network
    <2>3. Out' = Out /\ Done' = Done
      BY <1>1 DEF Out, Done, Pending
    <2>4. assignment_count' \in 0 .. MaxAssignments
      BY <1>2, populateType DEF TypeOK, TasksType
    <2>5. Queued' \subseteq TaskIndex
      BY <2>4, FirstTasks DEF Queued
    <2> QED
      BY <2>1, <2>2, <2>3, <2>5 DEF Accepting, Farming
  <1>3. CASE CheckCompletion /\ AllCompleted
    <2>1. State = "working" /\ State' = "finished" /\ UNCHANGED <<tables, network>>
      BY <1>3 DEF CheckCompletion, Enter, State
    <2>2. SameFarm /\ SameCopies
      BY <2>1, SameTasks, KeptCopies DEF tables, network
    <2>3. assignment_count > 0 /\ \A n \in Queued : n \in Done
      BY <1>3, AllMeansAll, QueuedTasks DEF TypeOK, Done
    <2>4. 0 \in Queued
      BY <2>3 DEF Queued, TypeOK, TasksType
    <2> QED
      BY <2>1, <2>2, <2>3, <2>4 DEF Finishing, Farming
  <1>4. CASE BrokenPipe
    <2>1. State = "working" /\ State' = "aborted" /\ assignment_count' = assignment_count
      BY <1>4 DEF BrokenPipe, Enter, AtEmployee, AtTask, State, tables
    <2> QED
      BY <1>1, <2>1, SameTasks DEF Aborting, Farming
  <1>5. CASE SelectFails
    <2>1. State = "working" /\ State' = "aborted" /\ assignment_count' = assignment_count
      BY <1>5 DEF SelectFails, Enter, StopInv, State, tables
    <2> QED
      BY <1>1, <2>1, SameTasks DEF Aborting, Farming
  <1>6. ASSUME ~populate_chunked_tasks, ~(CheckCompletion /\ AllCompleted), ~BrokenPipe,
               ~SelectFails
        PROVE  assignment_count' = assignment_count /\ State' = State
    <2>1. CASE CheckCompletion
      BY <1>6, <2>1 DEF CheckCompletion, Enter, State, tables
    <2>2. CASE Select \/ Interrupted
      BY <2>2 DEF Select, Interrupted, Enter, State, tables
    <2>3. CASE LoopEnd
      BY <2>3 DEF LoopEnd, Enter, Following, EmployeeLoops, TaskLoops, State, tables
    <2>4. CASE Cleanup
      BY <2>4 DEF Cleanup, Enter, State
    <2>5. CASE \E ip \in Ips : add_or_update_employee(ip)
      BY <2>5 DEF add_or_update_employee, Enter, State
    <2>6. CASE Skip \/ BeginReceive \/ ReceiveFails \/ send_initial_config
               \/ remove_stale_employees
      BY <2>6 DEF Skip, BeginReceive, ReceiveFails, send_initial_config,
         remove_stale_employees, Advance, AtEmployee, loopVars, tables, State
    <2>7. CASE Ended \/ UNCHANGED vars \/ \E ip \in Ips : Broadcast(ip) \/ Restart(ip) \/ Moving(ip)
      BY <2>7 DEF Ended, vars, Broadcast, Restart, Moving, Answer, LoseChunk, Break, loopVars,
         tables, State
    <2> QED
      BY <1>6, <2>1, <2>2, <2>3, <2>4, <2>5, <2>6, <2>7 DEF Apart, Calm
  <1>7. CASE /\ ~populate_chunked_tasks /\ ~(CheckCompletion /\ AllCompleted)
             /\ ~BrokenPipe /\ ~SelectFails
    BY <1>1, <1>6, <1>7, SameTasks DEF Losing, Farming
  <1> QED
    BY <1>2, <1>3, <1>4, <1>7, <1>5

LEMMA TasksFarm ==
    ASSUME TypeOK, Assign \/ handle_task_timeouts \/ Tick
    PROVE  Farming
  <1>1. SameCopies /\ FewerCopies
    BY TaskSteps DEF SameCopies, FewerCopies
  <1>2. Out' \subseteq Out /\ Done' = Done
    BY TaskSteps DEF Out, Done, Pending
  <1>3. Queued' = Queued
    BY DEF Assign, handle_task_timeouts, Tick, Queued
  <1>4. CASE handle_task_timeouts
    <2>1. State = "working" /\ State' = "working"
      BY <1>4 DEF handle_task_timeouts, Enter, State
    <2> QED
      BY <1>1, <1>2, <1>3, <2>1 DEF TakingBack, Farming
  <1>5. CASE ~handle_task_timeouts
    <2>1. State' = State
      BY <1>5 DEF Assign, Tick, Advance, loopVars, State
    <2>2. Out' = Out
      BY <1>5, TaskSteps DEF Out, Pending
    <2> QED
      BY <1>1, <1>2, <1>3, <2>1, <2>2 DEF SameFarm, Losing, Farming
  <1> QED
    BY <1>4, <1>5

LEMMA receiveFarms ==
    ASSUME TypeOK, receive_result_from_employee
    PROVE  Farming
  <1>1. PICK ip \in Ips, n \in TaskIndex :
           /\ Has(ip, n)
           /\ \/ SameCopies
              \/ \A a \in Ips : \A m : Has(a, m)' <=> Has(a, m) /\ ~(a = ip /\ m = n)
           /\ \/ UNCHANGED task_assignments
              \/ task_assignments' = [task_assignments EXCEPT ![n].is_completed = TRUE]
    BY receiveCopies
  <1>2. State = "working" /\ State' = "working" /\ Queued' = Queued
    BY DEF receive_result_from_employee, AtEmployee, Advance, State, Queued
  <1>3. \/ Done' = Done \cup {n} /\ Out' = Out \ {n}
        \/ Done' = Done /\ Out' = Out
    <2>1. CASE UNCHANGED task_assignments
      BY <2>1 DEF Done, Out, Pending
    <2>2. CASE task_assignments' = [task_assignments EXCEPT ![n].is_completed = TRUE]
      <3>1. ASSUME NEW m \in TaskIndex
            PROVE  /\ task_assignments'[m].is_completed <=> task_assignments[m].is_completed \/ m = n
                   /\ task_assignments'[m].is_sent = task_assignments[m].is_sent
        <4>1. /\ task_assignments \in [TaskIndex -> Task] /\ task_assignments[m] \in Task
              /\ DOMAIN task_assignments[m] = {"employee_ip", "age", "is_sent", "is_completed"}
          BY DEF TypeOK, TasksType, Task
        <4> QED
          BY <2>2, <4>1
      <3> QED
        BY <3>1 DEF Done, Out, Pending
    <2> QED
      BY <1>1, <2>1, <2>2
  <1> QED
    BY <1>1, <1>2, <1>3 DEF Returning, Farming

LEMMA sendFarms ==
    ASSUME TypeOK, send_pending_tasks
    PROVE  Farming
  <1>1. PICK ip \in Ips :
           /\ i \in Queued /\ i \in TaskIndex /\ Unsent(i)
           /\ \/ /\ task_assignments' = [task_assignments EXCEPT ![i].is_sent = TRUE]
                 /\ \/ SameCopies
                    \/ \A a \in Ips : \A m : Has(a, m)' <=> Has(a, m) \/ (a = ip /\ m = i)
              \/ UNCHANGED task_assignments /\ FewerCopies
    BY sendCopies
  <1>2. State = "working" /\ State' = "working" /\ assignment_count' = assignment_count
    BY DEF send_pending_tasks, AtTask, Advance, State
  <1>3. CASE UNCHANGED task_assignments /\ FewerCopies
    BY <1>2, <1>3, SameTasks DEF Losing, Farming
  <1>4. CASE /\ task_assignments' = [task_assignments EXCEPT ![i].is_sent = TRUE]
             /\ \/ SameCopies
                \/ \A a \in Ips : \A m : Has(a, m)' <=> Has(a, m) \/ (a = ip /\ m = i)
    <2>1. ASSUME NEW m \in TaskIndex
          PROVE  /\ task_assignments'[m].is_sent <=> task_assignments[m].is_sent \/ m = i
                 /\ task_assignments'[m].is_completed = task_assignments[m].is_completed
      <3>1. /\ task_assignments \in [TaskIndex -> Task] /\ task_assignments[m] \in Task
            /\ DOMAIN task_assignments[m] = {"employee_ip", "age", "is_sent", "is_completed"}
        BY DEF TypeOK, TasksType, Task
      <3> QED
        BY <1>1, <1>4, <3>1
    <2>2. i \in Queued \ (Out \cup Done)
      BY <1>1 DEF Out, Done, Pending, Unsent
    <2>3. Done' = Done
      BY <2>1 DEF Done
    <2>4. Out' = Out \cup {i}
      BY <1>1, <2>1 DEF Out, Pending, Unsent
    <2>5. Queued' = Queued
      BY <1>2 DEF Queued
    <2>6. Giving(i, ip)
      BY <1>2, <1>4, <2>2, <2>3, <2>4, <2>5 DEF Giving
    <2> QED
      BY <1>1, <2>6 DEF Farming
  <1> QED
    BY <1>1, <1>3, <1>4

LEMMA StepFarms ==
    TypeOK /\ StopInv /\ [Next]_vars => Farming
  BY StepCases, ApartFarms, TasksFarm, receiveFarms, sendFarms DEF Apart

LEMMA CopiesAre ==
    ASSUME CarriedAgrees, CarriedAgrees', NEW ip \in Ips, NEW n \in TaskIndex
    PROVE  /\ SameCopies => Copies' = Copies
           /\ FewerCopies => \A a \in Ips : Copies'[a] \subseteq Copies[a]
           /\ (\A a \in Ips : \A m : Has(a, m)' <=> Has(a, m) \/ (a = ip /\ m = n))
                 => Copies' = [Copies EXCEPT ![ip] = @ \cup {n}]
           /\ (\A a \in Ips : \A m : Has(a, m)' <=> Has(a, m) /\ ~(a = ip /\ m = n))
                 => Copies' = [Copies EXCEPT ![ip] = @ \ {n}]
           /\ Has(ip, n) => n \in Copies[ip]
  <1>1. /\ Copies = [a \in Ips |-> {m \in TaskIndex : Has(a, m)}]
        /\ Copies' = [a \in Ips |-> {m \in TaskIndex : Has(a, m)'}]
    BY DEF CarriedAgrees, Copies
  <1>2. SameCopies => Copies' = Copies
    BY <1>1 DEF SameCopies
  <1>3. FewerCopies => \A a \in Ips : Copies'[a] \subseteq Copies[a]
    BY <1>1 DEF FewerCopies
  <1>4. ASSUME \A a \in Ips : \A m : Has(a, m)' <=> Has(a, m) \/ (a = ip /\ m = n)
        PROVE  Copies' = [Copies EXCEPT ![ip] = @ \cup {n}]
    <2>1. \A a \in Ips : {m \in TaskIndex : Has(a, m)'} =
             IF a = ip THEN {m \in TaskIndex : Has(a, m)} \cup {n} ELSE {m \in TaskIndex : Has(a, m)}
      BY <1>4
    <2> QED
      BY <1>1, <2>1
  <1>5. ASSUME \A a \in Ips : \A m : Has(a, m)' <=> Has(a, m) /\ ~(a = ip /\ m = n)
        PROVE  Copies' = [Copies EXCEPT ![ip] = @ \ {n}]
    <2>1. \A a \in Ips : {m \in TaskIndex : Has(a, m)'} =
             IF a = ip THEN {m \in TaskIndex : Has(a, m)} \ {n} ELSE {m \in TaskIndex : Has(a, m)}
      BY <1>5
    <2> QED
      BY <1>1, <2>1
  <1>6. Has(ip, n) => n \in Copies[ip]
    BY <1>1
  <1> QED
    BY <1>2, <1>3, <1>4, <1>5, <1>6

\* Every behaviour of the employer, with any number of employees, tasks and faults,
\* is one of TaskFarm: a task is done only by the result of an employee that had a
\* copy, and the end comes when all are done, unless a broken pipe or a failing
\* select() aborts it (volcom_employer.c 154-272, 412-495, 580-777).
THEOREM EmployerFarms == Spec => ImplementsFarm
  <1>1. Init => Farm!Init
    <2> SUFFICES ASSUME Init PROVE Farm!Init
      OBVIOUS
    <2>1. State = "open" /\ Queued = {}
      BY DEF Init, State, Queued
    <2>2. Out = {} /\ Done = {}
      BY DEF Init, Out, Done, Pending, NewTask
    <2>3. \A ip \in Ips : Carried(ip) = {}
      <3>1. TypeOK /\ \A ip \in Ips : \A n : ~Has(ip, n)
        BY InitType, EmptyHasNone DEF Init, Has
      <3> QED
        BY <3>1, CarriedIs DEF CarriedAgrees
    <2>4. Copies = [ip \in Ips |-> {}]
      BY <2>3 DEF Copies
    <2> QED
      BY <2>1, <2>2, <2>4 DEF Farm!Init, State, Out, Done, Copies
  <1>2. TypeOK' => CarriedAgrees'
    BY CarriedIs, PTL
  <1>3. TypeOK /\ TypeOK' /\ StopInv /\ [Next]_vars => [Farm!Next]_(Farm!vars)
    <2> SUFFICES ASSUME TypeOK, TypeOK', StopInv, [Next]_vars
                 PROVE  [Farm!Next]_(Farm!vars)
      OBVIOUS
    <2>1. CarriedAgrees /\ CarriedAgrees'
      BY <1>2, CarriedIs
    <2>2. /\ SameCopies => Copies' = Copies
          /\ FewerCopies => \A a \in Ips : Copies'[a] \subseteq Copies[a]
          /\ Copies' = [a \in Ips |-> Copies'[a]]
      BY <2>1, CopiesAre DEF Copies, SameCopies, FewerCopies, CarriedAgrees
    <2>3. CASE Accepting
      <3>1. Farm!Accept(Queued')
        BY <2>2, <2>3 DEF Accepting, Farm!Accept, State, Out, Done, Copies
      <3> QED
        BY <2>3, <3>1 DEF Accepting, Farm!Next
    <2>4. CASE TakingBack
      <3>1. Out' = Out \ (Out \ Out') /\ Out \ Out' \in SUBSET TaskIndex
        BY <2>4 DEF TakingBack, Out
      <3>2. Farm!TakeBack(Out \ Out')
        BY <2>2, <2>4, <3>1 DEF TakingBack, Farm!TakeBack, State, Out, Done, Copies
      <3> QED
        BY <3>1, <3>2 DEF Farm!Next
    <2>5. CASE Losing
      <3>1. Farm!Lose
        BY <2>2, <2>5 DEF Losing, SameFarm, Farm!Lose, Farm!Fewer, State, Out, Done, Copies
      <3> QED
        BY <3>1 DEF Farm!Next
    <2>6. CASE Finishing
      <3>1. Farm!Finish
        BY <2>2, <2>6 DEF Finishing, SameFarm, Farm!Finish, State, Out, Done, Copies
      <3> QED
        BY <3>1 DEF Farm!Next
    <2>7. CASE Aborting
      <3>1. Farm!Abort
        BY <2>2, <2>7 DEF Aborting, SameFarm, Farm!Abort, Farm!Fewer, State, Out, Done, Copies
      <3> QED
        BY <3>1 DEF Farm!Next
    <2>8. ASSUME NEW n \in TaskIndex, NEW ip \in Ips, Giving(n, ip) PROVE Farm!Next
      <3>1. Copies' = Copies \/ Copies' = [Copies EXCEPT ![ip] = @ \cup {n}]
        BY <2>1, <2>8, CopiesAre DEF Giving
      <3>2. Farm!Give(n, ip)
        BY <2>8, <3>1 DEF Giving, Farm!Give, State, Out, Done, Copies
      <3> QED
        BY <3>2 DEF Farm!Next
    <2>9. ASSUME NEW n \in TaskIndex, NEW ip \in Ips, Returning(n, ip) PROVE Farm!Next
      <3>1. /\ n \in Copies[ip]
            /\ Copies' = Copies \/ Copies' = [Copies EXCEPT ![ip] = @ \ {n}]
        BY <2>1, <2>9, CopiesAre DEF Returning
      <3>2. Farm!Return(n, ip)
        BY <2>9, <3>1 DEF Returning, Farm!Return, State, Out, Done, Copies
      <3> QED
        BY <3>2 DEF Farm!Next
    <2> QED
      BY <2>3, <2>4, <2>5, <2>6, <2>7, <2>8, <2>9, StepFarms DEF Farming
  <1> QED
    BY <1>1, <1>3, TypeCorrect, StopInvHolds, PTL DEF Spec, ImplementsFarm, Farm!Spec

-----------------------------------------------------------------------------
\* No task from nowhere: what employees hold, send back or have completed is of the
\* table, though task ids come back over the network and index it; and when the
\* employer declares itself inactive, what is completed is the whole table.
FarmInv ==
    /\ State = "open" => Queued = {}
    /\ Out \subseteq Queued /\ Done \subseteq Queued
    /\ \A ip \in Ips : \A n : Has(ip, n) => n \in Queued
    /\ State = "finished" => Done = Queued
OnlyQueuedWork ==
    /\ \A n \in TaskIndex :
          \/ n \in Queued
          \/ /\ ~task_assignments[n].is_completed /\ ~Pending(n)
             /\ \A ip \in Ips : n \notin Carried(ip)
    /\ ~is_active => Queued = {n \in TaskIndex : task_assignments[n].is_completed}
THEOREM NothingInvented == Spec => []OnlyQueuedWork
  <1>1. Init => FarmInv
    <2> SUFFICES ASSUME Init PROVE FarmInv
      OBVIOUS
    <2>1. State = "open" /\ Queued = {} /\ Out = {} /\ Done = {}
      BY DEF Init, State, Queued, Out, Done, Pending, NewTask
    <2>2. \A ip \in Ips : \A n : ~Has(ip, n)
      BY EmptyHasNone DEF Init, Has
    <2> QED
      BY <2>1, <2>2 DEF FarmInv
  <1>2. FarmInv /\ Farming => FarmInv'
    <2> SUFFICES ASSUME FarmInv, Farming PROVE FarmInv'
      OBVIOUS
    <2>1. CASE Accepting
      BY <2>1 DEF Accepting, SameCopies, FarmInv
    <2>2. CASE TakingBack
      BY <2>2 DEF TakingBack, SameCopies, FarmInv
    <2>3. CASE Losing
      BY <2>3 DEF Losing, SameFarm, FewerCopies, FarmInv
    <2>4. CASE Finishing
      BY <2>4 DEF Finishing, SameFarm, SameCopies, FarmInv
    <2>5. CASE Aborting
      BY <2>5 DEF Aborting, SameFarm, FewerCopies, FarmInv
    <2>6. ASSUME NEW n \in TaskIndex, NEW ip \in Ips, Giving(n, ip)
          PROVE  FarmInv'
      BY <2>6 DEF Giving, SameCopies, FarmInv
    <2>7. ASSUME NEW n \in TaskIndex, NEW ip \in Ips, Returning(n, ip)
          PROVE  FarmInv'
      BY <2>7 DEF Returning, SameCopies, FarmInv
    <2> QED
      BY <2>1, <2>2, <2>3, <2>4, <2>5, <2>6, <2>7 DEF Farming
  <1>3. TypeOK /\ StopInv /\ FarmInv => OnlyQueuedWork
    <2> SUFFICES ASSUME TypeOK, StopInv, FarmInv PROVE OnlyQueuedWork
      OBVIOUS
    <2>1. \A ip \in Ips : Carried(ip) \subseteq Queued
      BY CarriedIs DEF CarriedAgrees, FarmInv
    <2>2. ~is_active => State = "finished"
      BY DEF State, StopInv
    <2> QED
      BY <2>1, <2>2 DEF OnlyQueuedWork, FarmInv, Out, Done
  <1> QED
    BY <1>1, <1>2, <1>3, StepFarms, TypeCorrect, StopInvHolds, PTL DEF Spec
=============================================================================
