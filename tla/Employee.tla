------------------------------ MODULE Employee ------------------------------
(***************************************************************************)
(* The employee of volcom_agents/employee/volcom_employee.c and the node   *)
(* script it runs.  Threads of the process: main (accepts employers and    *)
(* serves one connection at a time), the worker (hands chunks to the node  *)
(* script over a Unix socket and queues its answers), and for every        *)
(* initial_config a thread that saves the script and one that starts node. *)
(* They share four globals without a lock: employee_running,               *)
(* is_node_started, unix_socket_connected and the descriptor of the Unix   *)
(* socket; the chunk buffer and the result queue are the ring buffers of   *)
(* TaskManagement, here bounded sequences.                                 *)
(*                                                                         *)
(* The employer is the environment: it connects, sends its script, then    *)
(* chunks, and may close the connection at any time.  Connections are      *)
(* numbered; so are the saver, starter and node process each one leads to. *)
(***************************************************************************)
EXTENDS Naturals, Sequences, FiniteSets

CONSTANTS
    Chunks,          \* the chunks employers send, each of them once
    NoChunk,         \* no chunk in hand
    ChunkCap,        \* capacity of data_chunk_buffer (50)
    ResultCap,       \* capacity of result_queue (10)
    MaxRetries,      \* connect attempts of start_node_thread (15)
    MaxConnections,  \* bound: connections employers make
    MaxFaults        \* bound: memory pressure, failed selects, short peeks, messages
                     \*   that cannot be received or result files not opened, node
                     \*   deaths, chunks sent illegibly and answers lost

ASSUME NoChunkAssumption == NoChunk \notin Chunks
ASSUME MessagesAssumption == {"config", "rest"} \cap Chunks = {}
ASSUME BoundsAssumption ==
    /\ ChunkCap \in Nat \ {0} /\ ResultCap \in Nat \ {0}
    /\ MaxRetries \in Nat /\ MaxConnections \in Nat \ {0} /\ MaxFaults \in Nat

VARIABLES
    running,                \* employee_running
    main,                   \* what the main thread does
    conn, epoch, inbox,     \* the employer's connection, its number, its messages
    is_node_started, unix_socket_connected,
    chunks, results,        \* data_chunk_buffer, result_queue
    outgoing,               \* the result main is sending
    worker, chunk, asked,   \* what the worker does, its data_chunk, and the node
                            \*   whose answer it waits for
    legible,                \* whether that node can parse what it was sent
    freed,                  \* chunks whose data was given to free()
    script,                 \* the file at config_filepath
    saver, starter, retries, node,   \* per connection
    listener,               \* the node that owns the socket path, 0 if none
    peer, answered,         \* the node the descriptor is connected to (0: none),
                            \*   and whether that node has ended its side
    received, sent,         \* the connection a chunk came, its result left by
    faults

vars == <<running, main, conn, epoch, inbox, is_node_started, unix_socket_connected,
          chunks, results, outgoing, worker, chunk, asked, legible, freed, script, saver, starter,
          retries, node, listener, peer, answered, received, sent, faults>>
mainVars   == <<running, main, conn, epoch, inbox, outgoing>>
workerVars == <<worker, chunk, asked, legible, freed>>
nodeVars   == <<script, saver, starter, retries, node, listener, peer, answered>>
queues     == <<chunks, results>>
history    == <<received, sent, faults>>

Epochs == 1 .. MaxConnections
Messages == Chunks \cup {"config", "rest"}  \* initial_config, or what is left of one
Places == 0 .. MaxConnections   \* a connection, or 0 for none; node[0] is no process
Up == main \notin {"done", "killed"}
Fault == faults < MaxFaults /\ faults' = faults + 1

Init ==
    /\ running = TRUE /\ main = "accept"
    /\ conn = "none" /\ epoch = 0 /\ inbox = <<>>
    /\ is_node_started = FALSE /\ unix_socket_connected = FALSE
    /\ chunks = <<>> /\ results = <<>> /\ outgoing = NoChunk
    /\ worker = "idle" /\ chunk = NoChunk /\ asked = 0 /\ legible = TRUE /\ freed = {}
    /\ script = "absent"
    /\ saver = [e \in Epochs |-> "none"] /\ starter = [e \in Epochs |-> "none"]
    /\ retries = [e \in Epochs |-> 0] /\ node = [e \in Places |-> "none"]
    /\ listener = 0 /\ peer = 0 /\ answered = FALSE
    /\ received = [c \in Chunks |-> 0] /\ sent = [c \in Chunks |-> 0]
    /\ faults = 0

RoomOffByOne == Len(chunks) <= ChunkCap      \* mutant
Room == Len(chunks) < ChunkCap               \* add_task_to_buffer takes a chunk
-----------------------------------------------------------------------------
\* The main thread.

\* run_employee_mode: accept, then serve or reject by memory usage.
Accept ==
    /\ main = "accept" /\ conn = "pending"
    /\ \/ /\ main' = "serve" /\ conn' = "open"
          /\ is_node_started' = FALSE
          /\ UNCHANGED <<inbox, faults>>
       \/ /\ Fault
          /\ conn' = "none" /\ inbox' = <<>>
          /\ main' = IF running THEN "accept" ELSE "done"
          /\ UNCHANGED is_node_started
    /\ UNCHANGED <<running, epoch, outgoing, unix_socket_connected, queues,
                   workerVars, nodeVars, received, sent>>

LeaveStays ==       \* mutant: the flag is not looked at
    /\ conn' = "none" /\ inbox' = <<>>
    /\ main' = "accept"
    /\ UNCHANGED <<running, epoch, outgoing, is_node_started, unix_socket_connected,
                   queues, workerVars, nodeVars, received, sent>>

\* handle_persistent_connection is left: back to accept, or out of the loop.
Leave ==
    /\ conn' = "none" /\ inbox' = <<>>
    /\ main' = IF running THEN "accept" ELSE "done"
    /\ UNCHANGED <<running, epoch, outgoing, is_node_started, unix_socket_connected,
                   queues, workerVars, nodeVars, received, sent>>

StopServing == main = "serve" /\ ~running /\ Leave /\ UNCHANGED faults

ClosedByEmployer ==
    /\ main = "serve" /\ running
    /\ conn = "closed" /\ inbox = <<>>
    /\ Leave /\ UNCHANGED faults

\* select fails, recv_json_peek finds part of a message and takes that for a closed
\* connection, or a chunk cannot be received to its end.
GiveUp ==
    /\ \/ main = "serve" /\ running
       \/ main = "reading" /\ Head(inbox) # "config"
    /\ Leave /\ Fault

\* What is left of a config that was not received makes no message.
RestOfConfig ==
    /\ main = "serve" /\ running
    /\ inbox # <<>> /\ Head(inbox) = "rest"
    /\ Leave /\ UNCHANGED faults

\* The head of the message is there: from here to its last byte main only reads.
BeginMessage ==
    /\ main = "serve" /\ running
    /\ inbox # <<>> /\ Head(inbox) # "rest"
    /\ main' = "reading"
    /\ UNCHANGED <<running, conn, epoch, inbox, outgoing, is_node_started,
                   unix_socket_connected, queues, workerVars, nodeVars, history>>

ReceiveConfig ==
    /\ main = "reading" /\ Head(inbox) = "config"
    /\ inbox' = Tail(inbox)
    /\ saver' = [saver EXCEPT ![epoch] = "open"]
    /\ starter' = [starter EXCEPT ![epoch] = "fork"]
    /\ main' = "reply"
    /\ UNCHANGED <<running, conn, epoch, outgoing, is_node_started, unix_socket_connected,
                   queues, workerVars, script, retries, node, listener, peer, answered, history>>

\* A config that is empty or for which there is no memory: the handler goes on, its
\* bytes, if any, unread.
ConfigFails ==
    /\ main = "reading" /\ Head(inbox) = "config" /\ Fault
    /\ inbox' \in {Tail(inbox), [inbox EXCEPT ![1] = "rest"]}
    /\ main' = "reply"
    /\ UNCHANGED <<running, conn, epoch, outgoing, is_node_started, unix_socket_connected,
                   queues, workerVars, nodeVars, received, sent>>

\* A chunk that finds the buffer full is freed; the employer is not told.
ReceiveChunk ==
    /\ main = "reading" /\ Head(inbox) # "config"
    /\ inbox' = Tail(inbox)
    /\ received' = [received EXCEPT ![Head(inbox)] = epoch]
    /\ \/ /\ Room
          /\ chunks' = Append(chunks, Head(inbox))
          /\ UNCHANGED freed
       \/ /\ ~Room
          /\ freed' = freed \cup {Head(inbox)}
          /\ UNCHANGED chunks
    /\ main' = "reply"
    /\ UNCHANGED <<running, conn, epoch, outgoing, is_node_started, unix_socket_connected,
                   results, worker, chunk, asked, legible, nodeVars, sent, faults>>

NothingReceived ==
    /\ main = "serve" /\ running
    /\ inbox = <<>> /\ conn = "open"
    /\ results # <<>>
    /\ main' = "reply"
    /\ UNCHANGED <<running, conn, epoch, inbox, outgoing, is_node_started,
                   unix_socket_connected, queues, workerVars, nodeVars, history>>

\* One result per iteration.
NoResult ==
    /\ main = "reply" /\ results = <<>>
    /\ main' = "serve"
    /\ UNCHANGED <<running, conn, epoch, inbox, outgoing, is_node_started,
                   unix_socket_connected, queues, workerVars, nodeVars, history>>

TakeResult ==
    /\ main = "reply" /\ results # <<>>
    /\ outgoing' = Head(results)
    /\ results' = Tail(results)
    /\ main' = "sending"
    /\ UNCHANGED <<running, conn, epoch, inbox, is_node_started, unix_socket_connected,
                   chunks, workerVars, nodeVars, history>>

SendResultKeeps ==  \* mutant: what was sent stays in the queue, behind the others
    /\ main = "sending"
    /\ sent' = IF conn = "open" THEN [sent EXCEPT ![outgoing] = epoch] ELSE sent
    /\ results' = IF Len(results) < ResultCap THEN Append(results, outgoing) ELSE results
    /\ outgoing' = NoChunk
    /\ main' = "serve"
    /\ UNCHANGED <<running, conn, epoch, inbox, is_node_started, unix_socket_connected,
                   chunks, workerVars, nodeVars, received, faults>>

\* send_result_to_employer.  On a connection the employer closed the bytes may
\* still be accepted, and go nowhere.
SendResult ==
    /\ main = "sending"
    /\ sent' = IF conn = "open" THEN [sent EXCEPT ![outgoing] = epoch] ELSE sent
    /\ outgoing' = NoChunk
    /\ main' = "serve"
    /\ UNCHANGED <<running, conn, epoch, inbox, is_node_started, unix_socket_connected,
                   queues, workerVars, nodeVars, received, faults>>

RetryResult ==      \* mutant: sends again at once, without looking at the socket
    /\ main = "sending" /\ conn = "closed"
    /\ results' = IF Len(results) < ResultCap THEN Append(results, outgoing) ELSE results
    /\ outgoing' = NoChunk
    /\ main' = "reply"
    /\ UNCHANGED <<running, conn, epoch, inbox, is_node_started, unix_socket_connected,
                   chunks, workerVars, nodeVars, history>>

\* Or the write fails, or the result file cannot be opened, and the result goes back
\* to the end of the queue, if the worker has not filled it meanwhile.
RequeueResult ==
    /\ main = "sending"
    /\ (conn = "closed" /\ UNCHANGED faults) \/ Fault
    /\ results' = IF Len(results) < ResultCap THEN Append(results, outgoing) ELSE results
    /\ outgoing' = NoChunk
    /\ main' = "serve"
    /\ UNCHANGED <<running, conn, epoch, inbox, is_node_started, unix_socket_connected,
                   chunks, workerVars, nodeVars, received, sent>>

\* Or it raises SIGPIPE, which nobody handles.
Killed ==
    /\ main' = "killed" /\ conn' = "none" /\ inbox' = <<>>
    /\ UNCHANGED <<running, epoch, outgoing, is_node_started, unix_socket_connected,
                   queues, workerVars, nodeVars, history>>

BrokenPipe == main = "sending" /\ conn = "closed" /\ Killed

Main ==
    \/ Accept \/ StopServing \/ ClosedByEmployer \/ RestOfConfig
    \/ BeginMessage \/ ReceiveConfig \/ ReceiveChunk \/ NothingReceived
    \/ NoResult \/ TakeResult \/ SendResult \/ RequeueResult

\* Inside a message or a result main is in recv or send, neither with a timeout.
Blocked == main \in {"reading", "sending"} /\ conn = "open"

-----------------------------------------------------------------------------
\* The worker thread.

Restless == UNCHANGED <<mainVars, is_node_started, unix_socket_connected, script, saver,
                        starter, retries, node, listener, received, sent>>

NodeStarted == is_node_started               \* mutant: not yet connected
NodeReady == is_node_started /\ unix_socket_connected

WorkerGet ==
    /\ Up /\ running /\ worker = "idle"
    /\ NodeReady
    /\ chunks # <<>>
    /\ chunk' = Head(chunks) /\ chunks' = Tail(chunks)
    /\ worker' = "send"
    /\ UNCHANGED <<results, asked, legible, freed, peer, answered, faults>> /\ Restless

\* The length sent is strlen of data that ends in no zero byte: what follows it
\* in memory may be sent too, and then the node waits for the rest of the JSON.
WorkerSend ==
    /\ Up /\ worker = "send"
    /\ node[peer] = "up"
    /\ asked' = peer
    /\ worker' = "receive"
    /\ \/ UNCHANGED <<legible, faults>>
       \/ Fault /\ legible' = FALSE
    /\ UNCHANGED <<queues, chunk, freed, peer, answered>> /\ Restless

\* The node died: SIGPIPE.
WorkerBrokenPipe == Up /\ worker = "send" /\ node[peer] = "dead" /\ Killed

\* The descriptor is not connected: the chunk goes back to the buffer, and then
\* its data is freed all the same.
WorkerRequeue ==
    /\ Up /\ worker = "send"
    /\ peer = 0
    /\ chunks' = IF Room THEN Append(chunks, chunk) ELSE chunks
    /\ freed' = freed \cup {chunk}
    /\ chunk' = NoChunk /\ worker' = "idle"
    /\ UNCHANGED <<results, asked, legible, peer, answered, faults>> /\ Restless

ReleaseKeeps ==     \* mutant: the worker's data_chunk stays
    /\ freed' = freed \cup {chunk}
    /\ asked' = 0 /\ legible' = TRUE /\ worker' = "idle" /\ UNCHANGED chunk

\* The chunk is done with, whatever came of it.
Release ==
    /\ freed' = freed \cup {chunk}
    /\ chunk' = NoChunk /\ asked' = 0 /\ legible' = TRUE /\ worker' = "idle"

OtherDescriptor == peer # asked              \* mutant: the end of stream unseen
NothingToRead == peer # asked \/ answered

\* recv on the descriptor of this moment: it fails, or reports the end of the
\* stream, or blocks.
WorkerReceive ==
    /\ Up /\ worker = "receive"
    /\ \/ /\ NothingToRead
          /\ Release
       \/ /\ ~NothingToRead
          /\ worker' = "wait"
          /\ UNCHANGED <<chunk, asked, legible, freed>>
    /\ UNCHANGED <<queues, peer, answered, faults>> /\ Restless

\* The node answers and ends the connection.  An answer that does not parse or
\* finds the queue full is dropped.
WorkerAnswer ==
    /\ Up /\ worker = "wait"
    /\ node[asked] = "up" /\ ~(answered /\ peer = asked) /\ legible
    /\ answered' = (answered \/ peer = asked)
    /\ \/ /\ results' = IF Len(results) < ResultCap THEN Append(results, chunk) ELSE results
          /\ UNCHANGED faults
       \/ Fault /\ UNCHANGED results
    /\ Release
    /\ UNCHANGED <<chunks, peer>> /\ Restless

\* The node died: both receives return 0.
WorkerNoAnswer ==
    /\ Up /\ worker = "wait"
    /\ node[asked] = "dead"
    /\ Release
    /\ UNCHANGED <<queues, peer, answered, faults>> /\ Restless

Worker == WorkerGet \/ WorkerSend \/ WorkerBrokenPipe \/ WorkerRequeue
          \/ WorkerReceive \/ WorkerAnswer \/ WorkerNoAnswer

-----------------------------------------------------------------------------
\* The threads of one initial_config, and the node process.

OfConfig == UNCHANGED <<mainVars, queues, workerVars, received, sent>>

\* save_file_thread: fopen truncates, fwrite and fclose complete the file.
SaveFile(e) ==
    /\ Up
    /\ \/ saver[e] = "open" /\ script' = "partial" /\ saver' = [saver EXCEPT ![e] = "write"]
       \/ saver[e] = "write" /\ script' = "complete" /\ saver' = [saver EXCEPT ![e] = "none"]
    /\ UNCHANGED <<is_node_started, unix_socket_connected, starter, retries, node, listener,
                   peer, answered, faults>> /\ OfConfig

\* run_node_in_cgroup reports success once the fork is done.
StartNode(e) ==
    /\ Up /\ starter[e] = "fork"
    /\ node' = [node EXCEPT ![e] = "exec"]
    /\ is_node_started' = TRUE
    /\ starter' = [starter EXCEPT ![e] = "init"]
    /\ UNCHANGED <<unix_socket_connected, script, saver, retries, listener, peer, answered,
                   faults>> /\ OfConfig

\* unix_socket_client_init: a new descriptor, in the same global.
InitClient(e) ==
    /\ Up /\ starter[e] = "init"
    /\ peer' = 0 /\ answered' = FALSE
    /\ starter' = [starter EXCEPT ![e] = "check"]
    /\ UNCHANGED <<is_node_started, unix_socket_connected, script, saver, retries, node,
                   listener, faults>> /\ OfConfig

Retry(e) ==
    /\ Up /\ starter[e] = "check"
    /\ starter' = [starter EXCEPT ![e] =
           IF retries[e] < MaxRetries /\ ~unix_socket_connected /\ running
           THEN "connect" ELSE "none"]
    /\ UNCHANGED <<is_node_started, unix_socket_connected, script, saver, retries, node,
                   listener, peer, answered, faults>> /\ OfConfig

\* A descriptor that is already connected refuses to connect again.
ConnectNode(e) ==
    /\ Up /\ starter[e] = "connect"
    /\ \/ /\ node[listener] = "up" /\ peer = 0
          /\ peer' = listener /\ answered' = FALSE
          /\ unix_socket_connected' = TRUE
          /\ starter' = [starter EXCEPT ![e] = "none"]
          /\ UNCHANGED retries
       \/ /\ node[listener] # "up" \/ peer # 0
          /\ retries' = [retries EXCEPT ![e] = @ + 1]
          /\ starter' = [starter EXCEPT ![e] = "check"]
          /\ UNCHANGED <<unix_socket_connected, peer, answered>>
    /\ UNCHANGED <<is_node_started, script, saver, node, listener, faults>> /\ OfConfig

\* node reads the script once; what it finds decides whether a server comes up
\* on the socket path.
LoadScript(e) ==
    /\ node[e] = "exec"
    /\ \/ /\ script = "complete"
          /\ node' = [node EXCEPT ![e] = "up"] /\ listener' = e
       \/ /\ script # "complete"
          /\ node' = [node EXCEPT ![e] = "dead"] /\ UNCHANGED listener
    /\ UNCHANGED <<is_node_started, unix_socket_connected, script, saver, starter, retries,
                   peer, answered, faults>> /\ OfConfig

NodeDies(e) ==
    /\ node[e] = "up" /\ Fault
    /\ node' = [node EXCEPT ![e] = "dead"]
    /\ UNCHANGED <<is_node_started, unix_socket_connected, script, saver, starter, retries,
                   listener, peer, answered>> /\ OfConfig

Starter(e) == StartNode(e) \/ InitClient(e) \/ Retry(e) \/ ConnectNode(e)

-----------------------------------------------------------------------------
\* The employer, and the user's SIGINT.

Outside == UNCHANGED <<main, outgoing, is_node_started, unix_socket_connected, queues,
                       workerVars, nodeVars, history>>

Connect ==
    /\ Up /\ conn = "none" /\ epoch < MaxConnections
    /\ conn' = "pending" /\ epoch' = epoch + 1
    /\ inbox' = <<"config">>
    /\ UNCHANGED running /\ Outside

SendChunk(c) ==
    /\ conn \in {"pending", "open"}
    /\ received[c] = 0 /\ \A i \in DOMAIN inbox : inbox[i] # c
    /\ inbox' = Append(inbox, c)
    /\ UNCHANGED <<running, conn, epoch>> /\ Outside

Close ==
    /\ conn = "open"
    /\ conn' = "closed"
    /\ UNCHANGED <<running, epoch, inbox>> /\ Outside

\* employee_signal_handler.  signal() installs it so that accept is restarted.
Signal ==
    /\ running /\ Up
    /\ running' = FALSE
    /\ UNCHANGED <<conn, epoch, inbox>> /\ Outside

Next ==
    \/ Main \/ GiveUp \/ ConfigFails \/ BrokenPipe \/ Worker
    \/ \E e \in Epochs : SaveFile(e) \/ Starter(e) \/ LoadScript(e) \/ NodeDies(e)
    \/ Connect \/ (\E c \in Chunks : SendChunk(c)) \/ Close \/ Signal

Spec == Init /\ [][Next]_vars

\* Every thread and process is scheduled, and a node that was asked answers.  Of an
\* employer that still has the connection nothing is assumed: it may leave main
\* blocked.
Fairness ==
    /\ WF_vars(Main /\ ~Blocked) /\ WF_vars(Worker)
    /\ \A e \in Epochs : WF_vars(SaveFile(e)) /\ WF_vars(Starter(e)) /\ WF_vars(LoadScript(e))

FairSpec == Spec /\ Fairness
-----------------------------------------------------------------------------
\* Every variable holds a value of its type, and the two ring buffers never hold
\* more than their capacity although three threads' paths add to them.
TypeOK ==
    /\ running \in BOOLEAN
    /\ main \in {"accept", "serve", "reading", "reply", "sending", "done", "killed"}
    /\ conn \in {"none", "pending", "open", "closed"} /\ epoch \in Places
    /\ inbox \in Seq(Messages)
    /\ is_node_started \in BOOLEAN /\ unix_socket_connected \in BOOLEAN
    /\ chunks \in Seq(Chunks) /\ Len(chunks) <= ChunkCap
    /\ results \in Seq(Chunks) /\ Len(results) <= ResultCap
    /\ outgoing \in Chunks \cup {NoChunk}
    /\ worker \in {"idle", "send", "receive", "wait"}
    /\ chunk \in Chunks \cup {NoChunk} /\ asked \in Places /\ legible \in BOOLEAN
    /\ freed \subseteq Chunks
    /\ script \in {"absent", "partial", "complete"}
    /\ saver \in [Epochs -> {"none", "open", "write"}]
    /\ starter \in [Epochs -> {"none", "fork", "init", "check", "connect"}]
    /\ retries \in [Epochs -> 0 .. MaxRetries]
    /\ node \in [Places -> {"none", "exec", "up", "dead"}]
    /\ listener \in Places /\ peer \in Places /\ answered \in BOOLEAN
    /\ received \in [Chunks -> Places] /\ sent \in [Chunks -> Places]
    /\ faults \in 0 .. MaxFaults

Occurrences(q, c) == Cardinality({i \in DOMAIN q : q[i] = c})
Here(x, c) == IF x = c THEN 1 ELSE 0

\* A chunk is in at most one place: the buffer, the worker's hands, the result
\* queue, main's hands, or sent.  So no chunk is answered twice, although both
\* the worker and main put back what they could not send.
OneCopy ==
    \A c \in Chunks :
        Occurrences(chunks, c) + Here(chunk, c) + Occurrences(results, c)
            + Here(outgoing, c) + Here(sent[c] # 0, TRUE) <= 1

Buffered == {chunks[i] : i \in DOMAIN chunks}

\* While no second employer has connected, no chunk is in the buffer with its
\* data freed: the starter connects the descriptor before it lets the worker go.
FirstEmployerSafe == epoch <= 1 => Buffered \cap freed = {}

\* The employee implements Volunteer: through the requeueing by the worker and
\* by main, full buffers, dead nodes and connections that break or change, a
\* chunk that was answered or dropped never turns up again.
Volunteers == INSTANCE Volunteer WITH
    seen     <- {c \in Chunks : received[c] # 0},
    held     <- IF ~Up THEN {} ELSE
                Buffered \cup {results[i] : i \in DOMAIN results}
                         \cup ({chunk, outgoing} \ {NoChunk}),
    answered <- {c \in Chunks : sent[c] # 0},
    up       <- Up
ImplementsVolunteer == Volunteers!Spec

\* A stop request that finds main anywhere but in accept ends the employee, whatever
\* the nodes and the worker do, unless the employer leaves it blocked inside one
\* message or one result for ever.
StopIsHonoured ==
    []<>(~Blocked) => ((~running /\ main # "accept") ~> main \in {"done", "killed"})

\* An employer that closes its connection lets the employee return to accept
\* (or ends it): no result, retry, pending or unfinished message keeps main in the
\* handler.
ReturnsToListening == conn = "closed" ~> main \in {"accept", "done", "killed"}

\* The worker does not wait for ever on a node that understood it: it sees the
\* end of a connection that the node has ended, and the node's death.
WorkerGetsFree ==
    (worker \in {"receive", "wait"} /\ legible) ~> (worker = "idle" \/ ~Up)

-----------------------------------------------------------------------------
\* What the documentation says and the code does not do.

\* volcom_employee.c:386 re-adds a chunk "to buffer for retry": then the buffer
\* never holds a chunk whose data was freed.
NoUseAfterFree == Buffered \cap freed = {}

=============================================================================
