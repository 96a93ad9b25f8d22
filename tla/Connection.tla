------------------------------ MODULE Connection ------------------------------
(***************************************************************************)
(* One TCP connection between the employer's loop and the employee's main  *)
(* thread, down to what a read() may find: a length header that may come   *)
(* in two parts, a JSON body, the size of a file, and the file in blocks.  *)
(* These cells lie in bounded socket buffers, one each way; a write waits  *)
(* for room and a read for data.  Neither side reads while it writes.      *)
(*                                                                         *)
(* The employer sends a configuration first and then chunks, the employee  *)
(* a result for a chunk.  Either may end at any time.                      *)
(***************************************************************************)
EXTENDS Integers, SequencesExt

CONSTANTS
    Sizes,         \* blocks in a configuration or a chunk; 0: an empty file
    ResultBlocks,  \* blocks in a result
    DownCap, UpCap, \* cells the socket buffers hold, each way
    MaxActive,     \* chunks the employer sends ahead (3)
    MaxChunks,     \* bound: chunks sent
    MaxTimeouts    \* bound: chunks the employer no longer waits for

ResultCells == ResultBlocks + 4

\* Nothing is assumed of how the buffers compare with the messages.
ASSUME BoundsAssumption ==
    /\ Sizes \subseteq Nat /\ ResultBlocks \in Nat
    /\ MaxActive \in Nat \ {0} /\ MaxChunks \in Nat /\ MaxTimeouts \in Nat
    /\ DownCap \in Nat /\ UpCap \in Nat

Directions == {"down", "up"}
From(d) == IF d = "down" THEN "employer" ELSE "employee"
To(d) == IF d = "down" THEN "employee" ELSE "employer"
Cap(d) == IF d = "down" THEN DownCap ELSE UpCap

VARIABLES
    wire,          \* the cells in the buffers
    out,           \* the cells of a message that are not written yet
    reading,       \* how far the receiver is with a message
    at,            \* where each loop is
    open,          \* whose end of the connection is open
    configured,    \* the employer's state of this employee
    active_tasks,
    timeouts,
    next,          \* the next chunk
    results,       \* chunks whose results wait to be sent
    sent, received

stream == <<wire, out>>
tables == <<configured, active_tasks, timeouts, next, results>>
vars   == <<stream, reading, at, open, tables, sent, received>>

Config == 0
Message(name, blocks) == [name |-> name, data |-> [i \in 1 .. blocks |-> <<name, i>>]]

Cell(part, content) == [part |-> part, content |-> content]
Data(m) == [i \in DOMAIN m.data |-> Cell("data", m.data[i])]

\* send_json makes two writes, of the length and of the body; the size and each
\* block of the file are writes of their own.
Cells(m) ==
    <<Cell("length", 1), Cell("length", 2), Cell("body", m.name),
      Cell("size", Len(m.data))>> \o Data(m)

NotReading == [part |-> "length", name |-> Config, size |-> 0, data |-> <<>>]

Init ==
    /\ wire = [d \in Directions |-> <<>>] /\ out = wire
    /\ reading = [d \in Directions |-> NotReading]
    /\ at = [s \in {"employer", "employee"} |-> "select"]
    /\ open = [s \in {"employer", "employee"} |-> TRUE]
    /\ configured = FALSE /\ active_tasks = 0 /\ timeouts = 0 /\ next = 1
    /\ results = {}
    /\ sent = [d \in Directions |-> <<>>] /\ received = sent

Go(s, place) == at' = [at EXCEPT ![s] = place]

-----------------------------------------------------------------------------
StartSending(d, m) ==
    /\ out' = [out EXCEPT ![d] = Cells(m)]
    /\ sent' = [sent EXCEPT ![d] = Append(@, m)]
    /\ UNCHANGED <<wire, reading, open, received>>

\* A write puts its bytes one after the other, as there is room.
Write(d) ==
    /\ open[From(d)]
    /\ out[d] # <<>>
    /\ Len(wire[d]) < Cap(d)
    /\ wire' = [wire EXCEPT ![d] = Append(@, Head(out[d]))]
    /\ out' = [out EXCEPT ![d] = Tail(@)]
    /\ UNCHANGED <<reading, at, open, tables, sent, received>>

\* How a file is complete.  The file is read while total_received < file_size.
OneTooMany(r) == Len(r.data) > r.size  \* mutant: <= in its place
Complete(r) == r.part = "data" /\ Len(r.data) = r.size

Ready(d) == at[To(d)] = "read" /\ wire[d] # <<>>
Take(d, n, next_reading) ==
    /\ wire' = [wire EXCEPT ![d] = SubSeq(@, n + 1, Len(@))]
    /\ reading' = [reading EXCEPT ![d] = next_reading]
    /\ UNCHANGED <<out, at, open, tables, sent, received>>

\* recv_json reads the header in one read, which may find a part of it.
AnyPart(d) == TRUE                     \* mutant: a short read is as good
WholeHeader(d) == Len(wire[d]) >= 2
Smaller(i, j) == IF i < j THEN i ELSE j
ReadLength(d) ==
    /\ Ready(d) /\ reading[d].part = "length" /\ WholeHeader(d)
    /\ Take(d, Smaller(2, Len(wire[d])), [reading[d] EXCEPT !.part = "body"])

ReadBody(d) ==
    /\ Ready(d) /\ reading[d].part = "body"
    /\ Take(d, 1, [reading[d] EXCEPT !.part = "size", !.name = Head(wire[d]).content])

ReadSize(d) ==
    /\ Ready(d) /\ reading[d].part = "size"
    /\ Take(d, 1, [reading[d] EXCEPT !.part = "data", !.size = Head(wire[d]).content])

ReadData(d) ==
    /\ Ready(d) /\ reading[d].part = "data" /\ ~Complete(reading[d])
    /\ Take(d, 1, [reading[d] EXCEPT !.data = Append(@, Head(wire[d]).content)])

Finish(d) ==
    /\ at[To(d)] = "read" /\ Complete(reading[d])
    /\ received' = [received EXCEPT ![d] =
                       Append(@, [name |-> reading[d].name, data |-> reading[d].data])]
    /\ reading' = [reading EXCEPT ![d] = NotReading]
    /\ UNCHANGED <<stream, open, sent>>

\* The sender is gone and nothing more can be read.
NotAnError(d) == FALSE                 \* mutant: n < 0 in place of n <= 0
EndOfFile(d) ==
    /\ ~open[From(d)] /\ wire[d] = <<>>
    /\ at[To(d)] = "select" \/ (at[To(d)] = "read" /\ ~Complete(reading[d]))

-----------------------------------------------------------------------------
\* select() comes first, then the reading, then the sending.
EmployerSelects ==
    /\ open["employer"]
    /\ at["employer"] = "select" /\ ~EndOfFile("up")
    /\ IF wire["up"] # <<>> THEN Go("employer", "read") ELSE Go("employer", "send")
    /\ UNCHANGED <<stream, reading, open, tables, sent, received>>

\* The assignment is completed, unless it was completed by an earlier result.
receive_result_from_employee ==
    /\ open["employer"]
    /\ Finish("up")
    /\ Go("employer", "send")
    /\ active_tasks' \in {active_tasks, IF active_tasks > 0 THEN active_tasks - 1 ELSE 0}
    /\ UNCHANGED <<configured, timeouts, next, results>>

Sending == open["employer"] /\ at["employer"] = "send" /\ out["down"] = <<>>

send_initial_config ==
    /\ Sending /\ ~configured
    /\ \E blocks \in Sizes : StartSending("down", Message(Config, blocks))
    /\ configured' = TRUE
    /\ UNCHANGED <<at, active_tasks, timeouts, next, results>>

AnyNumber == TRUE                      \* mutant: active_tasks is not looked at
Idle == active_tasks < MaxActive

send_file_to_employee ==
    /\ Sending /\ configured
    /\ Idle
    /\ next <= MaxChunks /\ next' = next + 1
    /\ active_tasks' = active_tasks + 1
    /\ \E blocks \in Sizes : StartSending("down", Message(next, blocks))
    /\ UNCHANGED <<at, configured, timeouts, results>>

\* handle_task_timeouts takes a late chunk off the employee.
TimesOut ==
    /\ Sending
    /\ timeouts < MaxTimeouts /\ timeouts' = timeouts + 1
    /\ active_tasks > 0 /\ active_tasks' = active_tasks - 1
    /\ UNCHANGED <<stream, reading, at, open, configured, next, results, sent, received>>

EmployerLoops ==
    /\ Sending /\ configured
    /\ Go("employer", "select")
    /\ UNCHANGED <<stream, reading, open, tables, sent, received>>

-----------------------------------------------------------------------------
\* recv_json_peek finds a whole message, or what has come of it so far: then the
\* employee takes the connection for closed (see GivesUp).
recv_json_peek ==
    /\ open["employee"]
    /\ at["employee"] = "select" /\ ~EndOfFile("down")
    /\ IF Len(wire["down"]) >= 3 THEN Go("employee", "read")
       ELSE wire["down"] = <<>> /\ Go("employee", "result")
    /\ UNCHANGED <<stream, reading, open, tables, sent, received>>

\* An empty chunk is refused, an empty configuration just fails.  A received
\* chunk is worked on elsewhere.
receive_task_from_employer ==
    LET m == reading["down"] IN
    /\ open["employee"]
    /\ Finish("down")
    /\ IF m.name # Config /\ m.data = <<>> THEN Go("employee", "refused")
                                           ELSE Go("employee", "result")
    /\ UNCHANGED tables

\* The worker queues the result of a received chunk.
Result(n) ==
    /\ open["employee"]
    /\ \E i \in DOMAIN received["down"] :
          received["down"][i].name = n /\ received["down"][i].data # <<>>
    /\ n \notin results \cup {received["up"][i].name : i \in DOMAIN received["up"]}
    /\ \A i \in DOMAIN sent["up"] : sent["up"][i].name # n
    /\ results' = results \cup {n}
    /\ UNCHANGED <<stream, reading, at, open, configured, active_tasks, timeouts, next,
                   sent, received>>

\* One result in each round.
send_result_to_employer(n) ==
    /\ open["employee"] /\ at["employee"] = "result"
    /\ n \in results
    /\ StartSending("up", Message(n, ResultBlocks))
    /\ results' = results \ {n}
    /\ Go("employee", "sending")
    /\ UNCHANGED <<configured, active_tasks, timeouts, next>>

EmployeeLoops ==
    /\ open["employee"]
    /\ \/ at["employee"] = "result" /\ results = {}
       \/ at["employee"] = "sending" /\ out["up"] = <<>>
    /\ Go("employee", "select")
    /\ UNCHANGED <<stream, reading, open, tables, sent, received>>

-----------------------------------------------------------------------------
\* A side closes.  Its own last cells may not arrive; what it has not read is lost.
Close(s) ==
    /\ open' = [open EXCEPT ![s] = FALSE]
    /\ \E d \in Directions : \E k \in 0 .. Len(wire[d]) :
          From(d) = s /\ wire' = [wire EXCEPT ![d] = SubSeq(@, 1, k)]
    /\ out' = [d \in Directions |-> IF From(d) = s THEN <<>> ELSE out[d]]
    /\ reading' = [d \in Directions |-> IF To(d) = s THEN NotReading ELSE reading[d]]
    /\ Go(s, "gone")
    /\ UNCHANGED <<tables, sent, received>>

\* The program ends, or the connection is of no more use to it.
Leave(s) == open[s] /\ Close(s)

\* A message stops short.  d is the way to the side that gives up.
ShortHeader(d) ==
    \/ at[To(d)] = "read" /\ reading[d].part = "length" /\ Len(wire[d]) = 1
    \/ d = "down" /\ at["employee"] = "select" /\ Len(wire["down"]) \in {1, 2}

\* receive_task_from_employer refuses a file of more than 100 MB, or one it has no
\* memory for, once it has its size.  A configuration does not end the loop by that,
\* but its first bytes do: they make no header.
RefusesFile(d) ==
    /\ d = "down" /\ at["employee"] = "read"
    /\ reading[d].part = "data" /\ reading[d].data = <<>> /\ reading[d].size # 0

BrokenPipe(d) == ~open[From(d)] /\ \E b \in Directions : From(b) = To(d) /\ out[b] # <<>>

GivesUp(d) ==
    /\ open[To(d)]
    /\ \/ ShortHeader(d) \/ EndOfFile(d) \/ RefusesFile(d) \/ BrokenPipe(d)
       \/ at[To(d)] = "refused"
    /\ Close(To(d))

Next ==
    \/ \E d \in Directions : \/ Write(d) \/ ReadLength(d) \/ ReadBody(d) \/ ReadSize(d)
                             \/ ReadData(d) \/ GivesUp(d)
    \/ EmployerSelects \/ receive_result_from_employee
    \/ send_initial_config \/ send_file_to_employee \/ TimesOut \/ EmployerLoops
    \/ recv_json_peek \/ receive_task_from_employer \/ EmployeeLoops
    \/ \E n \in 1 .. MaxChunks : Result(n) \/ send_result_to_employer(n)
    \/ Leave("employer") \/ Leave("employee")

Spec == Init /\ [][Next]_vars

\* Both processes run on.
EmployerRuns ==
    \/ Write("down") \/ ReadLength("up") \/ ReadBody("up") \/ ReadSize("up")
    \/ ReadData("up") \/ GivesUp("up")
    \/ EmployerSelects \/ receive_result_from_employee \/ send_initial_config
    \/ send_file_to_employee \/ EmployerLoops
EmployeeRuns ==
    \/ Write("up") \/ ReadLength("down") \/ ReadBody("down") \/ ReadSize("down")
    \/ ReadData("down") \/ GivesUp("down")
    \/ recv_json_peek \/ receive_task_from_employer \/ EmployeeLoops
    \/ \E n \in 1 .. MaxChunks : send_result_to_employer(n)

FairSpec == Spec /\ WF_vars(EmployerRuns) /\ WF_vars(EmployeeRuns)

-----------------------------------------------------------------------------
\* Type correctness.  A receiver never has more of a file than its size says.
TypeOK ==
    /\ \A d \in Directions :
          /\ Len(wire[d]) <= Cap(d)
          /\ reading[d].part \in {"length", "body", "size", "data"}
          /\ Len(reading[d].data) <= reading[d].size
    /\ at["employer"] \in {"select", "read", "send", "gone"}
    /\ at["employee"] \in {"select", "read", "result", "sending", "refused", "gone"}
    /\ open \in [{"employer", "employee"} -> BOOLEAN]
    /\ configured \in BOOLEAN /\ active_tasks \in 0 .. MaxActive
    /\ timeouts \in 0 .. MaxTimeouts /\ next \in 1 .. MaxChunks + 1
    /\ results \subseteq 1 .. MaxChunks

\* Both agents are in a write that waits for the other to read: for ever, for neither
\* write has a timeout.
BothBlocked ==
    \A d \in Directions : open[From(d)] /\ out[d] # <<>> /\ Len(wire[d]) = Cap(d)

\* The limit on active_tasks bounds what may bring that about: the results of the
\* chunks sent ahead but one, and of those that timed out, do not fit into the socket
\* buffers.  Nothing else blocks both, whatever the sizes of the files and the buffer
\* on the way down; only with results as large as that, which no line of the code
\* rules out, may they block each other.
BlockedByLargeResults ==
    BothBlocked => (MaxActive - 1 + timeouts) * ResultCells > UpCap

\* However the cells of messages arrive, the agents see whole messages in order,
\* or the end of the connection.
Abstract == INSTANCE Channel WITH
    Messages <- {Message(n, blocks) : n \in 0 .. MaxChunks,
                                      blocks \in Sizes \cup {ResultBlocks}}
ImplementsChannel == Abstract!ChannelSpec

\* What was sent arrives, or both sides give the connection up, or both block in
\* writing: nobody waits for ever for the rest of a message for any other reason, when
\* the other side refuses a file, ends in the middle of one, or takes a header in two
\* parts for the end.
SentArrives ==
    \A d \in Directions :
        (sent[d] # received[d]) ~>
            \/ sent[d] = received[d]
            \/ ~open["employer"] /\ ~open["employee"]
            \/ BothBlocked
===============================================================================
