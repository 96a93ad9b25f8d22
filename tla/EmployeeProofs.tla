--------------------------- MODULE EmployeeProofs ---------------------------
(***************************************************************************)
(* What holds of the employee for any chunks, any capacities of its two    *)
(* buffers, any number of connections, retries and faults.                 *)
(***************************************************************************)
EXTENDS Employee, FiniteSetTheorems, SequenceTheorems, TLAPS

\* The types of the variables by who writes them.  A thread has a chunk in
\* hand when, and only when, it is at work on one, and a starter that may still connect has a retry left.
MainOK ==
    /\ running \in BOOLEAN
    /\ main \in {"accept", "serve", "reading", "reply", "sending", "done", "killed"}
    /\ conn \in {"none", "pending", "open", "closed"} /\ epoch \in Places
    /\ inbox \in Seq(Messages)
    /\ main = "reading" => inbox # <<>> /\ Head(inbox) # "rest"
    /\ outgoing \in Chunks \cup {NoChunk}
    /\ main = "sending" => outgoing \in Chunks
    /\ main \notin {"sending", "killed"} => outgoing = NoChunk

BuffersOK ==
    /\ chunks \in Seq(Chunks) /\ Len(chunks) <= ChunkCap
    /\ results \in Seq(Chunks) /\ Len(results) <= ResultCap

WorkerOK ==
    /\ worker \in {"idle", "send", "receive", "wait"}
    /\ chunk \in Chunks \cup {NoChunk} /\ asked \in Places /\ legible \in BOOLEAN
    /\ freed \subseteq Chunks
    /\ worker # "idle" => chunk \in Chunks
    /\ worker = "idle" => chunk = NoChunk

StartersOK ==
    /\ script \in {"absent", "partial", "complete"}
    /\ saver \in [Epochs -> {"none", "open", "write"}]
    /\ starter \in [Epochs -> {"none", "fork", "init", "check", "connect"}]
    /\ retries \in [Epochs -> 0 .. MaxRetries]
    /\ \A e \in Epochs : starter[e] = "connect" => retries[e] < MaxRetries

NodesOK ==
    /\ is_node_started \in BOOLEAN /\ unix_socket_connected \in BOOLEAN
    /\ node \in [Places -> {"none", "exec", "up", "dead"}]
    /\ listener \in Places /\ peer \in Places /\ answered \in BOOLEAN

HistoryOK ==
    /\ received \in [Chunks -> Places] /\ sent \in [Chunks -> Places]
    /\ faults \in 0 .. MaxFaults

TypeInv == MainOK /\ BuffersOK /\ WorkerOK /\ StartersOK /\ NodesOK /\ HistoryOK

-----------------------------------------------------------------------------
\* Sequences that get longer or shorter.

LEMMA Taken ==
    ASSUME NEW S, NEW q \in Seq(S), q # <<>>
    PROVE  Head(q) \in S /\ Tail(q) \in Seq(S) /\ Len(Tail(q)) = Len(q) - 1 /\ Len(q) \in Nat
  BY HeadTailProperties, LenProperties

LEMMA Added ==
    ASSUME NEW S, NEW q \in Seq(S), NEW x \in S
    PROVE  Append(q, x) \in Seq(S) /\ Len(Append(q, x)) = Len(q) + 1 /\ Len(q) \in Nat
  BY AppendProperties, LenProperties

LEMMA HeadOfAppend ==
    ASSUME NEW S, NEW q \in Seq(S), NEW x \in S, q # <<>>
    PROVE  Append(q, x) # <<>> /\ Head(Append(q, x)) = Head(q)
  OBVIOUS

LEMMA Replaced ==
    ASSUME NEW S, NEW q \in Seq(S), NEW x \in S, q # <<>>
    PROVE  [q EXCEPT ![1] = x] \in Seq(S)
  OBVIOUS

\* What a thread puts in a buffer is dropped if there is no room.
LEMMA AddedIfRoom ==
    ASSUME NEW q \in Seq(Chunks), NEW cap \in Nat, Len(q) <= cap, NEW x \in Chunks,
           NEW r, r = IF Len(q) < cap THEN Append(q, x) ELSE q
    PROVE  r \in Seq(Chunks) /\ Len(r) <= cap
  BY Added

-----------------------------------------------------------------------------
\* Type correctness.

LEMMA ZeroPlace == 0 \in Places
  BY BoundsAssumption DEF Places

LEMMA InitType == Init => TypeInv
  <1> SUFFICES ASSUME Init PROVE TypeInv
    OBVIOUS
  <1>1. <<>> \in Seq(Chunks) /\ <<>> \in Seq(Messages) /\ Len(<<>>) = 0
    BY EmptySeq
  <1>2. MainOK /\ BuffersOK /\ WorkerOK
    BY <1>1, BoundsAssumption DEF Init, MainOK, BuffersOK, WorkerOK, Places
  <1>3. StartersOK
    BY BoundsAssumption DEF Init, StartersOK
  <1>4. NodesOK
    BY ZeroPlace DEF Init, NodesOK
  <1>5. HistoryOK
    BY BoundsAssumption DEF Init, HistoryOK, Places
  <1> QED
    BY <1>2, <1>3, <1>4, <1>5 DEF TypeInv

LEMMA FaultType ==
    ASSUME HistoryOK, UNCHANGED <<received, sent>>, Fault \/ UNCHANGED faults
    PROVE  HistoryOK'
  BY BoundsAssumption DEF HistoryOK, Fault

\* The three parts that most actions leave alone.
LEMMA SameWorker == WorkerOK /\ UNCHANGED workerVars => WorkerOK'
  BY DEF WorkerOK, workerVars

LEMMA SameStarters ==
    StartersOK /\ UNCHANGED <<script, saver, starter, retries>> => StartersOK'
  BY DEF StartersOK

LEMMA SameNodes ==
    NodesOK /\ UNCHANGED <<is_node_started, unix_socket_connected, node, listener, peer,
                           answered>> => NodesOK'
  BY DEF NodesOK

LEMMA SameMain == MainOK /\ UNCHANGED mainVars => MainOK'
  BY DEF MainOK, mainVars

LEMMA SameBuffers == BuffersOK /\ UNCHANGED queues => BuffersOK'
  BY DEF BuffersOK, queues

LEMMA KilledType ==
    ASSUME TypeInv, Killed
    PROVE  TypeInv'
  <1>1. MainOK'
    BY EmptySeq DEF TypeInv, Killed, MainOK
  <1>2. HistoryOK'
    BY FaultType DEF TypeInv, Killed, history
  <1> QED
    BY <1>1, <1>2, SameBuffers, SameWorker, SameStarters, SameNodes DEF TypeInv, Killed, nodeVars

LEMMA MainType ==
    ASSUME TypeInv, Main \/ GiveUp \/ ConfigFails \/ BrokenPipe
    PROVE  TypeInv'
  <1> USE DEF TypeInv
  <1>1. CASE Accept
    <2>1. MainOK'
      BY <1>1, EmptySeq DEF Accept, MainOK
    <2>2. NodesOK'
      BY <1>1 DEF Accept, NodesOK, nodeVars
    <2> QED
      BY <1>1, <2>1, <2>2, FaultType, SameBuffers, SameWorker, SameStarters
         DEF Accept, nodeVars
  <1>2. CASE StopServing \/ ClosedByEmployer \/ GiveUp \/ RestOfConfig
    <2>1. main \in {"serve", "reading"} /\ Leave /\ (Fault \/ UNCHANGED faults)
      BY <1>2 DEF StopServing, ClosedByEmployer, GiveUp, RestOfConfig
    <2>2. MainOK'
      BY <2>1, EmptySeq DEF Leave, MainOK
    <2> QED
      BY <2>1, <2>2, FaultType, SameBuffers, SameWorker, SameStarters, SameNodes
         DEF Leave, nodeVars
  <1>3. CASE ReceiveConfig
    <2>1. Tail(inbox) \in Seq(Messages)
      BY <1>3, Taken DEF ReceiveConfig, MainOK
    <2>2. MainOK'
      BY <1>3, <2>1 DEF ReceiveConfig, MainOK
    <2>3. StartersOK'
      BY <1>3 DEF ReceiveConfig, StartersOK
    <2> QED
      BY <1>3, <2>2, <2>3, FaultType, SameBuffers, SameWorker, SameNodes
         DEF ReceiveConfig, history
  <1>4. CASE ReceiveChunk
    <2>1. Tail(inbox) \in Seq(Messages) /\ Head(inbox) \in Chunks
      BY <1>4, Taken DEF ReceiveChunk, MainOK, Messages
    <2>2. MainOK'
      BY <1>4, <2>1 DEF ReceiveChunk, MainOK
    <2>3. BuffersOK'
      <3>1. CASE chunks' = chunks
        BY <1>4, <3>1 DEF ReceiveChunk, BuffersOK
      <3>2. CASE Len(chunks) < ChunkCap /\ chunks' = Append(chunks, Head(inbox))
        BY <1>4, <2>1, <3>2, Added, BoundsAssumption DEF ReceiveChunk, BuffersOK
      <3> QED
        BY <1>4, <3>1, <3>2 DEF ReceiveChunk, Room
    <2>4. WorkerOK'
      BY <1>4, <2>1 DEF ReceiveChunk, WorkerOK
    <2>5. HistoryOK'
      BY <1>4, <2>1 DEF ReceiveChunk, HistoryOK, MainOK
    <2> QED
      BY <1>4, <2>2, <2>3, <2>4, <2>5, SameStarters, SameNodes DEF ReceiveChunk, nodeVars
  <1>5. CASE NothingReceived \/ NoResult \/ BeginMessage
    <2>1. MainOK'
      BY <1>5 DEF NothingReceived, NoResult, BeginMessage, MainOK
    <2> QED
      BY <1>5, <2>1, FaultType, SameBuffers, SameWorker, SameStarters, SameNodes
         DEF NothingReceived, NoResult, BeginMessage, history, nodeVars
  <1>6. CASE TakeResult
    <2>1. /\ Head(results) \in Chunks /\ Tail(results) \in Seq(Chunks)
          /\ Len(Tail(results)) <= ResultCap
      BY <1>6, Taken, BoundsAssumption DEF TakeResult, BuffersOK
    <2>2. MainOK' /\ BuffersOK'
      BY <1>6, <2>1 DEF TakeResult, MainOK, BuffersOK
    <2> QED
      BY <1>6, <2>2, FaultType, SameWorker, SameStarters, SameNodes
         DEF TakeResult, history, nodeVars
  <1>7. CASE SendResult
    <2>1. MainOK'
      BY <1>7 DEF SendResult, MainOK
    <2>2. HistoryOK'
      BY <1>7 DEF SendResult, MainOK, HistoryOK
    <2> QED
      BY <1>7, <2>1, <2>2, SameBuffers, SameWorker, SameStarters, SameNodes
         DEF SendResult, nodeVars
  <1>8. CASE RequeueResult
    <2>1. results' \in Seq(Chunks) /\ Len(results') <= ResultCap
      BY <1>8, AddedIfRoom, BoundsAssumption DEF RequeueResult, MainOK, BuffersOK
    <2>2. MainOK' /\ BuffersOK'
      BY <1>8, <2>1 DEF RequeueResult, MainOK, BuffersOK
    <2> QED
      BY <1>8, <2>2, FaultType, SameWorker, SameStarters, SameNodes
         DEF RequeueResult, nodeVars
  <1>9. CASE BrokenPipe
    BY <1>9, KilledType DEF BrokenPipe
  <1>10. CASE ConfigFails
    <2>1. inbox' \in Seq(Messages)
      BY <1>10, Taken, Replaced DEF ConfigFails, MainOK, Messages
    <2>2. MainOK'
      BY <1>10, <2>1 DEF ConfigFails, MainOK
    <2> QED
      BY <1>10, <2>2, FaultType, SameBuffers, SameWorker, SameStarters, SameNodes
         DEF ConfigFails, nodeVars
  <1> QED
    BY <1>1, <1>2, <1>3, <1>4, <1>5, <1>6, <1>7, <1>8, <1>9, <1>10 DEF Main

LEMMA ReleaseType ==
    ASSUME WorkerOK, worker # "idle", Release
    PROVE  WorkerOK'
  BY BoundsAssumption DEF WorkerOK, Release, Places

LEMMA WorkerType ==
    ASSUME TypeInv, Worker
    PROVE  TypeInv'
  <1> USE DEF TypeInv
  <1>1. CASE WorkerGet
    <2>1. /\ Head(chunks) \in Chunks /\ Tail(chunks) \in Seq(Chunks)
          /\ Len(Tail(chunks)) <= ChunkCap
      BY <1>1, Taken, BoundsAssumption DEF WorkerGet, BuffersOK
    <2>2. BuffersOK' /\ WorkerOK'
      BY <1>1, <2>1 DEF WorkerGet, BuffersOK, WorkerOK
    <2> QED
      BY <1>1, <2>2, FaultType, SameMain, SameStarters, SameNodes DEF WorkerGet, Restless
  <1>2. CASE WorkerSend
    <2>1. WorkerOK'
      BY <1>2 DEF WorkerSend, WorkerOK, NodesOK
    <2> QED
      BY <1>2, <2>1, FaultType, SameMain, SameBuffers, SameStarters, SameNodes
         DEF WorkerSend, Restless
  <1>3. CASE WorkerBrokenPipe
    BY <1>3, KilledType DEF WorkerBrokenPipe
  <1>4. CASE WorkerRequeue
    <2>1. BuffersOK'
      BY <1>4, AddedIfRoom, BoundsAssumption DEF WorkerRequeue, Room, BuffersOK, WorkerOK
    <2>2. WorkerOK'
      BY <1>4 DEF WorkerRequeue, WorkerOK
    <2> QED
      BY <1>4, <2>1, <2>2, FaultType, SameMain, SameStarters, SameNodes
         DEF WorkerRequeue, Restless
  <1>5. CASE WorkerReceive
    <2>1. WorkerOK'
      BY <1>5, ReleaseType DEF WorkerReceive, WorkerOK
    <2> QED
      BY <1>5, <2>1, FaultType, SameMain, SameBuffers, SameStarters, SameNodes
         DEF WorkerReceive, Restless
  <1>6. CASE WorkerAnswer
    <2>1. BuffersOK'
      BY <1>6, AddedIfRoom, BoundsAssumption DEF WorkerAnswer, BuffersOK, WorkerOK
    <2>2. WorkerOK'
      BY <1>6, ReleaseType DEF WorkerAnswer
    <2>3. NodesOK'
      BY <1>6 DEF WorkerAnswer, Restless, NodesOK
    <2> QED
      BY <1>6, <2>1, <2>2, <2>3, FaultType, SameMain, SameStarters
         DEF WorkerAnswer, Restless
  <1>7. CASE WorkerNoAnswer
    <2>1. WorkerOK'
      BY <1>7, ReleaseType DEF WorkerNoAnswer
    <2> QED
      BY <1>7, <2>1, FaultType, SameMain, SameBuffers, SameStarters, SameNodes
         DEF WorkerNoAnswer, Restless
  <1> QED
    BY <1>1, <1>2, <1>3, <1>4, <1>5, <1>6, <1>7 DEF Worker

LEMMA ConfigType ==
    ASSUME TypeInv, NEW e \in Epochs, SaveFile(e) \/ Starter(e) \/ LoadScript(e) \/ NodeDies(e)
    PROVE  TypeInv'
  <1> USE DEF TypeInv
  <1>1. OfConfig /\ (Fault \/ UNCHANGED faults)
    BY DEF SaveFile, Starter, StartNode, InitClient, Retry, ConnectNode, LoadScript, NodeDies
  <1>2. MainOK' /\ BuffersOK' /\ WorkerOK' /\ HistoryOK'
    BY <1>1, FaultType, SameMain, SameBuffers, SameWorker DEF OfConfig
  <1>3. CASE SaveFile(e)
    <2>1. StartersOK'
      BY <1>3 DEF SaveFile, StartersOK
    <2> QED
      BY <1>2, <1>3, <2>1, SameNodes DEF SaveFile
  <1>4. CASE StartNode(e)
    <2>1. StartersOK'
      BY <1>4 DEF StartNode, StartersOK
    <2>2. NodesOK'
      BY <1>4 DEF StartNode, NodesOK
    <2> QED
      BY <1>2, <2>1, <2>2
  <1>5. CASE InitClient(e)
    <2>1. StartersOK'
      BY <1>5 DEF InitClient, StartersOK
    <2>2. NodesOK'
      BY <1>5, ZeroPlace DEF InitClient, NodesOK
    <2> QED
      BY <1>2, <2>1, <2>2
  <1>6. CASE Retry(e)
    <2>1. StartersOK'
      BY <1>6 DEF Retry, StartersOK
    <2> QED
      BY <1>2, <1>6, <2>1, SameNodes DEF Retry
  <1>7. CASE ConnectNode(e)
    <2>1. StartersOK'
      <3>1. retries[e] \in 0 .. MaxRetries /\ retries[e] < MaxRetries
        BY <1>7 DEF ConnectNode, StartersOK
      <3>2. retries' \in [Epochs -> 0 .. MaxRetries]
        BY <1>7, <3>1, BoundsAssumption DEF ConnectNode, StartersOK
      <3> QED
        BY <1>7, <3>2 DEF ConnectNode, StartersOK
    <2>2. NodesOK'
      BY <1>7 DEF ConnectNode, NodesOK
    <2> QED
      BY <1>2, <2>1, <2>2
  <1>8. CASE LoadScript(e)
    <2>1. NodesOK'
      BY <1>8, BoundsAssumption DEF LoadScript, NodesOK, Places, Epochs
    <2> QED
      BY <1>2, <1>8, <2>1, SameStarters DEF LoadScript
  <1>9. CASE NodeDies(e)
    <2>1. NodesOK'
      BY <1>9 DEF NodeDies, NodesOK
    <2> QED
      BY <1>2, <1>9, <2>1, SameStarters DEF NodeDies
  <1> QED
    BY <1>3, <1>4, <1>5, <1>6, <1>7, <1>8, <1>9 DEF Starter

LEMMA OutsideType ==
    ASSUME TypeInv, Connect \/ (\E c \in Chunks : SendChunk(c)) \/ Close \/ Signal
    PROVE  TypeInv'
  <1> USE DEF TypeInv
  <1>1. ASSUME Connect PROVE MainOK'
    <2>1. <<"config">> \in Seq(Messages)
      BY DEF Messages
    <2>2. epoch' \in Places
      BY <1>1, BoundsAssumption DEF Connect, MainOK, Places
    <2> QED
      BY <1>1, <2>1, <2>2 DEF Connect, Outside, MainOK
  <1>2. ASSUME \E c \in Chunks : SendChunk(c) PROVE MainOK'
    <2>1. PICK c \in Chunks : SendChunk(c)
      BY <1>2
    <2>2. Append(inbox, c) \in Seq(Messages)
      BY Added DEF MainOK, Messages
    <2>3. inbox # <<>> => Append(inbox, c) # <<>> /\ Head(Append(inbox, c)) = Head(inbox)
      BY HeadOfAppend DEF MainOK, Messages
    <2> QED
      BY <2>1, <2>2, <2>3 DEF SendChunk, Outside, MainOK
  <1>3. ASSUME Close \/ Signal PROVE MainOK'
    BY <1>3 DEF Close, Signal, Outside, MainOK
  <1>4. Outside
    BY DEF Connect, SendChunk, Close, Signal
  <1>5. MainOK'
    BY <1>1, <1>2, <1>3
  <1> QED
    BY <1>4, <1>5, FaultType, SameBuffers, SameWorker, SameStarters, SameNodes
       DEF Outside, history, nodeVars

LEMMA StepType == TypeInv /\ [Next]_vars => TypeInv'
  <1> SUFFICES ASSUME TypeInv, [Next]_vars PROVE TypeInv'
    OBVIOUS
  <1>1. CASE UNCHANGED vars
    BY <1>1 DEF TypeInv, MainOK, BuffersOK, WorkerOK, StartersOK, NodesOK, HistoryOK, vars
  <1> QED
    BY <1>1, MainType, WorkerType, ConfigType, OutsideType DEF Next

\* Main, the worker and the starters keep every variable in its type, and neither
\* buffer ever holds more than its capacity although a receive, a requeue and an
\* answer add to them (volcom_employee.c 323, 387, 641-679).
THEOREM TypeCorrect == Spec => []TypeOK
  <1>1. Spec => []TypeInv
    BY InitType, StepType, PTL DEF Spec
  <1>2. TypeInv => TypeOK
    BY DEF TypeInv, MainOK, BuffersOK, WorkerOK, StartersOK, NodesOK, HistoryOK, TypeOK
  <1> QED
    BY <1>1, <1>2, PTL

-----------------------------------------------------------------------------
\* A chunk is in one place.

In(q, x) == \E i \in DOMAIN q : q[i] = x
Injective(q) == \A i, j \in DOMAIN q : q[i] = q[j] => i = j

LEMMA EmptyIn == Injective(<<>>) /\ \A x : ~In(<<>>, x)
  BY DEF In, Injective

LEMMA AddedIn ==
    ASSUME NEW S, NEW q \in Seq(S), NEW x \in S
    PROVE  /\ \A y : In(Append(q, x), y) <=> In(q, y) \/ y = x
           /\ Injective(q) /\ ~In(q, x) => Injective(Append(q, x))
  <1> DEFINE r == Append(q, x)
  <1>1. /\ DOMAIN q = 1 .. Len(q) /\ DOMAIN r = 1 .. Len(q) + 1 /\ Len(q) \in Nat
        /\ r[Len(q) + 1] = x /\ \A i \in 1 .. Len(q) : r[i] = q[i]
    BY AppendProperties, LenProperties
  <1> HIDE DEF r
  <1>2. \A i \in DOMAIN r : i \in DOMAIN q \/ i = Len(q) + 1
    BY <1>1
  <1>3. \A i \in DOMAIN q : i \in DOMAIN r /\ Len(q) + 1 \in DOMAIN r
    BY <1>1
  <1>4. Len(q) + 1 \in DOMAIN r
    BY <1>1
  <1>5. \A y : In(r, y) <=> In(q, y) \/ y = x
    BY <1>1, <1>2, <1>3, <1>4 DEF In
  <1>6. Injective(q) /\ ~In(q, x) => Injective(r)
    BY <1>1, <1>2 DEF In, Injective
  <1> QED
    BY <1>5, <1>6 DEF r

LEMMA TakenIn ==
    ASSUME NEW S, NEW q \in Seq(S), q # <<>>, Injective(q)
    PROVE  /\ In(q, Head(q))
           /\ \A y : In(Tail(q), y) <=> In(q, y) /\ y # Head(q)
           /\ Injective(Tail(q))
  <1> DEFINE r == Tail(q)
  <1>1. /\ Len(q) \in Nat \ {0} /\ DOMAIN q = 1 .. Len(q)
        /\ DOMAIN r = 1 .. Len(q) - 1 /\ \A i \in 1 .. Len(q) - 1 : r[i] = q[i + 1]
    BY HeadTailProperties, LenProperties, EmptySeq
  <1>2. Head(q) = q[1] /\ 1 \in DOMAIN q
    BY <1>1
  <1> HIDE DEF r
  <1>3. \A i \in DOMAIN r : i + 1 \in DOMAIN q /\ i + 1 # 1 /\ r[i] = q[i + 1]
    BY <1>1
  <1>4. \A i \in DOMAIN q : i # 1 => i - 1 \in DOMAIN r /\ r[i - 1] = q[i]
    BY <1>1
  <1>5. ASSUME NEW y PROVE In(r, y) <=> In(q, y) /\ y # Head(q)
    <2>1. ASSUME In(r, y) PROVE In(q, y) /\ y # Head(q)
      <3>1. PICK i \in DOMAIN r : r[i] = y
        BY <2>1 DEF In
      <3> QED
        BY <1>2, <1>3, <3>1 DEF In, Injective
    <2>2. ASSUME In(q, y), y # Head(q) PROVE In(r, y)
      <3>1. PICK i \in DOMAIN q : q[i] = y
        BY <2>2 DEF In
      <3> QED
        BY <1>2, <1>4, <2>2, <3>1 DEF In
    <2> QED
      BY <2>1, <2>2
  <1>6. Injective(r)
    <2> SUFFICES ASSUME NEW i \in DOMAIN r, NEW j \in DOMAIN r, r[i] = r[j] PROVE i = j
      BY DEF Injective
    <2>1. i + 1 = j + 1
      BY <1>3 DEF Injective
    <2> QED
      BY <1>1, <2>1
  <1> QED
    BY <1>2, <1>5, <1>6 DEF In, r

LEMMA ReplacedIn ==
    ASSUME NEW S, NEW q \in Seq(S), q # <<>>, Injective(q), NEW x, ~In(q, x),
           NEW r, r = [q EXCEPT ![1] = x]
    PROVE  /\ \A y : In(r, y) => y = x \/ (In(q, y) /\ y # Head(q))
           /\ Injective(r)
  <1>1. /\ 1 \in DOMAIN q /\ Head(q) = q[1] /\ DOMAIN r = DOMAIN q
        /\ \A i \in DOMAIN q : r[i] = IF i = 1 THEN x ELSE q[i]
    OBVIOUS
  <1>2. \A i \in DOMAIN r : r[i] = x \/ (q[i] = r[i] /\ r[i] # Head(q))
    BY <1>1 DEF Injective
  <1>3. \A y : In(r, y) => y = x \/ (In(q, y) /\ y # Head(q))
    BY <1>1, <1>2 DEF In
  <1>4. \A i, j \in DOMAIN r : r[i] = r[j] => i = j
    BY <1>1 DEF In, Injective
  <1> QED
    BY <1>3, <1>4 DEF Injective

LEMMA AddedIfRoomIn ==
    ASSUME NEW q \in Seq(Chunks), NEW cap, NEW x \in Chunks, Injective(q), ~In(q, x),
           NEW r, r = IF Len(q) < cap THEN Append(q, x) ELSE q
    PROVE  Injective(r) /\ \A y : In(r, y) => In(q, y) \/ y = x
  BY AddedIn

\* OneCopy as it is inductive.  An employer sends a chunk it has not sent on any
\* connection, so that a chunk on its way was not received, and what is anywhere
\* in the employee, sent or freed was.
Exclusive(c) ==
    /\ In(chunks, c) => chunk # c /\ ~In(results, c) /\ outgoing # c /\ sent[c] = 0
    /\ chunk = c => ~In(results, c) /\ outgoing # c /\ sent[c] = 0
    /\ In(results, c) => outgoing # c /\ sent[c] = 0
    /\ outgoing = c => sent[c] = 0

Known(c) == In(chunks, c) \/ chunk = c \/ In(results, c) \/ outgoing = c \/ sent[c] # 0
            \/ c \in freed

ChunkInv ==
    \A c \in Chunks : /\ Exclusive(c)
                      /\ Known(c) => received[c] # 0
                      /\ In(inbox, c) => received[c] = 0

QueueInv ==
    /\ Injective(inbox) /\ Injective(chunks) /\ Injective(results)
    /\ ~(In(inbox, "config") /\ In(inbox, "rest"))
    /\ inbox # <<>> \/ conn # "none" => epoch # 0

OneInv == QueueInv /\ ChunkInv

LEMMA InitOne == Init => OneInv
  BY EmptyIn, NoChunkAssumption DEF Init, OneInv, QueueInv, ChunkInv, Exclusive, Known

\* A step that leaves the chunks where they are, but may lose messages.
LEMMA SameOne ==
    ASSUME OneInv,
           UNCHANGED <<epoch, chunks, results, outgoing, chunk, freed, received, sent>>,
           inbox' = inbox \/ inbox' = <<>>, conn' # "none" => conn # "none"
    PROVE  OneInv'
  <1>1. QueueInv'
    BY EmptyIn DEF OneInv, QueueInv
  <1>2. \A c \in Chunks : In(inbox', c) => In(inbox, c)
    BY EmptyIn
  <1>3. ChunkInv'
    BY <1>2 DEF OneInv, ChunkInv, Exclusive, Known
  <1> QED
    BY <1>1, <1>3 DEF OneInv

LEMMA MainOne ==
    ASSUME TypeInv, OneInv, Main \/ GiveUp \/ ConfigFails \/ BrokenPipe
    PROVE  OneInv'
  <1>1. CASE Accept \/ StopServing \/ ClosedByEmployer \/ GiveUp \/ RestOfConfig
             \/ BeginMessage \/ NothingReceived \/ NoResult \/ BrokenPipe
    BY <1>1, SameOne DEF Accept, StopServing, ClosedByEmployer, GiveUp, RestOfConfig, Leave,
       BeginMessage, BrokenPipe, Killed, NothingReceived, NoResult, queues, history, workerVars
  <1>6. CASE ConfigFails
    <2>1. /\ inbox # <<>> /\ inbox \in Seq(Messages) /\ Head(inbox) = "config"
          /\ inbox' = Tail(inbox) \/ inbox' = [inbox EXCEPT ![1] = "rest"]
          /\ UNCHANGED <<conn, epoch, chunks, results, outgoing, chunk, freed, received, sent>>
      BY <1>6 DEF ConfigFails, TypeInv, MainOK, workerVars, queues
    <2>2. In(inbox, "config") /\ ~In(inbox, "rest")
      BY <2>1, TakenIn DEF OneInv, QueueInv
    <2>3. /\ Injective(inbox') /\ ~In(inbox', "config")
          /\ \A y : In(inbox', y) => In(inbox, y) \/ y = "rest"
      <3>1. CASE inbox' = Tail(inbox)
        BY <2>1, <2>2, <3>1, TakenIn DEF OneInv, QueueInv
      <3>2. CASE inbox' = [inbox EXCEPT ![1] = "rest"]
        <4>1. /\ Injective(inbox')
              /\ \A y : In(inbox', y) => y = "rest" \/ (In(inbox, y) /\ y # Head(inbox))
          BY <2>1, <2>2, <3>2, ReplacedIn DEF OneInv, QueueInv
        <4> QED
          BY <2>1, <4>1
      <3> QED
        BY <2>1, <3>1, <3>2
    <2>4. QueueInv'
      BY <2>1, <2>3 DEF OneInv, QueueInv
    <2>5. ChunkInv'
      BY <2>1, <2>3, MessagesAssumption DEF OneInv, ChunkInv, Exclusive, Known
    <2> QED
      BY <2>4, <2>5 DEF OneInv
  <1>2. CASE ReceiveConfig \/ ReceiveChunk
    <2>1. inbox # <<>> /\ inbox \in Seq(Messages) /\ inbox' = Tail(inbox)
          /\ UNCHANGED <<conn, epoch, results, outgoing, chunk, sent>>
      BY <1>2 DEF ReceiveConfig, ReceiveChunk, TypeInv, MainOK, workerVars, queues, history
    <2>2. /\ In(inbox, Head(inbox)) /\ Injective(inbox')
          /\ \A y : In(inbox', y) => In(inbox, y) /\ y # Head(inbox)
      BY <2>1, TakenIn DEF OneInv, QueueInv
    <2>3. CASE ReceiveConfig
      <3>1. UNCHANGED <<chunks, freed, received>>
        BY <2>3 DEF ReceiveConfig, queues, history, workerVars
      <3> QED
        BY <2>1, <2>2, <3>1 DEF OneInv, QueueInv, ChunkInv, Exclusive, Known
    <2>4. CASE ReceiveChunk
      <3>1. Head(inbox) \in Chunks /\ received[Head(inbox)] = 0 /\ epoch # 0
        BY <2>1, <2>2, <2>4, Taken
           DEF ReceiveChunk, OneInv, QueueInv, ChunkInv, TypeInv, MainOK, Messages
      <3>2. ~Known(Head(inbox))
        BY <3>1 DEF OneInv, ChunkInv
      <3>3. \A c \in Chunks : received'[c] = IF c = Head(inbox) THEN epoch ELSE received[c]
        BY <2>4 DEF ReceiveChunk, TypeInv, HistoryOK
      <3>4. /\ Injective(chunks')
            /\ \A y : In(chunks', y) => In(chunks, y) \/ y = Head(inbox)
        <4>1. Injective(chunks) /\ ~In(chunks, Head(inbox)) /\ chunks \in Seq(Chunks)
          BY <3>2 DEF Known, OneInv, QueueInv, TypeInv, BuffersOK
        <4>2. chunks' = chunks \/ chunks' = Append(chunks, Head(inbox))
          BY <2>4 DEF ReceiveChunk
        <4>3. /\ Injective(Append(chunks, Head(inbox)))
              /\ \A y : In(Append(chunks, Head(inbox)), y) => In(chunks, y) \/ y = Head(inbox)
          BY <3>1, <4>1, AddedIn
        <4> QED
          BY <4>1, <4>2, <4>3
      <3>5. \A y : y \in freed' => y \in freed \/ y = Head(inbox)
        BY <2>4 DEF ReceiveChunk
      <3>6. QueueInv'
        BY <2>1, <2>2, <3>1, <3>4 DEF OneInv, QueueInv
      <3>7. ChunkInv'
        BY <2>1, <2>2, <3>1, <3>2, <3>3, <3>4, <3>5 DEF OneInv, ChunkInv, Exclusive, Known
      <3> QED
        BY <3>6, <3>7 DEF OneInv
    <2> QED
      BY <1>2, <2>3, <2>4
  <1>3. CASE TakeResult
    <2>1. /\ results # <<>> /\ results \in Seq(Chunks) /\ results' = Tail(results)
          /\ outgoing' = Head(results)
          /\ UNCHANGED <<conn, epoch, inbox, chunks, chunk, freed, received, sent>>
      BY <1>3 DEF TakeResult, TypeInv, BuffersOK, workerVars, history
    <2>2. /\ In(results, Head(results)) /\ Injective(results')
          /\ \A y : In(results', y) => In(results, y) /\ y # Head(results)
      BY <2>1, TakenIn DEF OneInv, QueueInv
    <2>3. ChunkInv'
      BY <2>1, <2>2 DEF OneInv, ChunkInv, Exclusive, Known
    <2> QED
      BY <2>1, <2>2, <2>3 DEF OneInv, QueueInv
  <1>4. CASE SendResult
    <2>1. /\ outgoing \in Chunks /\ outgoing' = NoChunk
          /\ UNCHANGED <<conn, epoch, inbox, chunks, results, chunk, freed, received>>
      BY <1>4 DEF SendResult, TypeInv, MainOK, workerVars, queues
    <2>2. \A c \in Chunks : sent'[c] = sent[c] \/ c = outgoing
      BY <1>4 DEF SendResult, TypeInv, HistoryOK
    <2>3. ChunkInv'
      BY <2>1, <2>2, NoChunkAssumption DEF OneInv, ChunkInv, Exclusive, Known
    <2> QED
      BY <2>1, <2>3 DEF OneInv, QueueInv
  <1>5. CASE RequeueResult
    <2>1. /\ outgoing \in Chunks /\ outgoing' = NoChunk
          /\ UNCHANGED <<conn, epoch, inbox, chunks, chunk, freed, received, sent>>
      BY <1>5 DEF RequeueResult, TypeInv, MainOK, workerVars
    <2>2. ~In(results, outgoing)
      BY <2>1 DEF OneInv, ChunkInv, Exclusive
    <2>3. Injective(results') /\ \A y : In(results', y) => In(results, y) \/ y = outgoing
      BY <1>5, <2>1, <2>2, AddedIfRoomIn
         DEF RequeueResult, OneInv, QueueInv, TypeInv, BuffersOK
    <2>4. ChunkInv'
      BY <2>1, <2>3, NoChunkAssumption DEF OneInv, ChunkInv, Exclusive, Known
    <2> QED
      BY <2>1, <2>3, <2>4 DEF OneInv, QueueInv
  <1> QED
    BY <1>1, <1>2, <1>3, <1>4, <1>5, <1>6 DEF Main

LEMMA WorkerOne ==
    ASSUME TypeInv, OneInv, Worker
    PROVE  OneInv'
  <1>1. CASE WorkerGet
    <2>1. /\ chunks # <<>> /\ chunks \in Seq(Chunks) /\ chunks' = Tail(chunks)
          /\ chunk' = Head(chunks)
          /\ UNCHANGED <<conn, epoch, inbox, results, outgoing, freed, received, sent>>
      BY <1>1 DEF WorkerGet, TypeInv, BuffersOK, Restless, mainVars
    <2>2. /\ In(chunks, Head(chunks)) /\ Injective(chunks')
          /\ \A y : In(chunks', y) => In(chunks, y) /\ y # Head(chunks)
      BY <2>1, TakenIn DEF OneInv, QueueInv
    <2>3. ChunkInv'
      BY <2>1, <2>2 DEF OneInv, ChunkInv, Exclusive, Known
    <2> QED
      BY <2>1, <2>2, <2>3 DEF OneInv, QueueInv
  <1>2. CASE WorkerSend
    BY <1>2, SameOne DEF WorkerSend, Restless, mainVars, queues
  <1>3. CASE WorkerBrokenPipe
    BY <1>3, SameOne DEF WorkerBrokenPipe, Killed, queues, workerVars, history
  <1>4. CASE WorkerRequeue
    <2>1. /\ chunk \in Chunks /\ chunk' = NoChunk /\ freed' = freed \cup {chunk}
          /\ UNCHANGED <<conn, epoch, inbox, results, outgoing, received, sent>>
      BY <1>4 DEF WorkerRequeue, TypeInv, WorkerOK, Restless, mainVars
    <2>2. ~In(chunks, chunk)
      BY <2>1 DEF OneInv, ChunkInv, Exclusive
    <2>3. Injective(chunks') /\ \A y : In(chunks', y) => In(chunks, y) \/ y = chunk
      BY <1>4, <2>1, <2>2, AddedIfRoomIn
         DEF WorkerRequeue, Room, OneInv, QueueInv, TypeInv, BuffersOK
    <2>4. ChunkInv'
      BY <2>1, <2>3, NoChunkAssumption DEF OneInv, ChunkInv, Exclusive, Known
    <2> QED
      BY <2>1, <2>3, <2>4 DEF OneInv, QueueInv
  <1>5. ASSUME chunk \in Chunks, Release,
               UNCHANGED <<conn, epoch, inbox, chunks, results, outgoing, received, sent>>
        PROVE  OneInv'
    <2>1. ChunkInv'
      BY <1>5, NoChunkAssumption DEF Release, OneInv, ChunkInv, Exclusive, Known
    <2> QED
      BY <1>5, <2>1 DEF OneInv, QueueInv
  <1>6. CASE WorkerReceive
    <2>1. /\ chunk \in Chunks
          /\ UNCHANGED <<conn, epoch, inbox, chunks, results, outgoing, received, sent>>
      BY <1>6 DEF WorkerReceive, TypeInv, WorkerOK, Restless, mainVars, queues
    <2>2. CASE Release
      BY <1>5, <2>1, <2>2
    <2>3. CASE UNCHANGED <<chunk, freed>>
      BY <2>1, <2>3, SameOne
    <2> QED
      BY <1>6, <2>2, <2>3 DEF WorkerReceive
  <1>7. CASE WorkerAnswer
    <2>1. /\ chunk \in Chunks /\ chunk' = NoChunk /\ freed' = freed \cup {chunk}
          /\ UNCHANGED <<conn, epoch, inbox, chunks, outgoing, received, sent>>
      BY <1>7 DEF WorkerAnswer, Release, TypeInv, WorkerOK, Restless, mainVars
    <2>2. ~In(results, chunk)
      BY <2>1 DEF OneInv, ChunkInv, Exclusive
    <2>3. Injective(results') /\ \A y : In(results', y) => In(results, y) \/ y = chunk
      <3>1. CASE results' = results
        BY <3>1 DEF OneInv, QueueInv
      <3>2. CASE results' = IF Len(results) < ResultCap THEN Append(results, chunk) ELSE results
        BY <2>1, <2>2, <3>2, AddedIfRoomIn DEF OneInv, QueueInv, TypeInv, BuffersOK
      <3> QED
        BY <1>7, <3>1, <3>2 DEF WorkerAnswer
    <2>4. ChunkInv'
      BY <2>1, <2>3, NoChunkAssumption DEF OneInv, ChunkInv, Exclusive, Known
    <2> QED
      BY <2>1, <2>3, <2>4 DEF OneInv, QueueInv
  <1>8. CASE WorkerNoAnswer
    BY <1>5, <1>8 DEF WorkerNoAnswer, TypeInv, WorkerOK, Restless, mainVars, queues
  <1> QED
    BY <1>1, <1>2, <1>3, <1>4, <1>6, <1>7, <1>8 DEF Worker

LEMMA OutsideOne ==
    ASSUME TypeInv, OneInv, Connect \/ (\E c \in Chunks : SendChunk(c)) \/ Close \/ Signal
    PROVE  OneInv'
  <1>1. UNCHANGED <<chunks, results, outgoing, chunk, freed, received, sent>>
    BY DEF Connect, SendChunk, Close, Signal, Outside, queues, workerVars, history
  <1>2. CASE Connect
    <2>1. epoch' # 0
      BY <1>2, BoundsAssumption DEF Connect, TypeInv, MainOK, Places
    <2>2. Injective(inbox') /\ \A c \in Chunks \cup {"rest"} : ~In(inbox', c)
      BY <1>2, MessagesAssumption DEF Connect, In, Injective
    <2>3. ChunkInv'
      BY <1>1, <2>2 DEF OneInv, ChunkInv, Exclusive, Known
    <2> QED
      BY <1>1, <2>1, <2>2, <2>3 DEF OneInv, QueueInv
  <1>3. CASE \E c \in Chunks : SendChunk(c)
    <2>1. PICK c \in Chunks : SendChunk(c)
      BY <1>3
    <2>2. received[c] = 0 /\ ~In(inbox, c) /\ UNCHANGED <<conn, epoch>> /\ conn # "none"
      BY <2>1 DEF SendChunk, In
    <2>3. inbox \in Seq(Messages) /\ c \in Messages
          /\ inbox' = Append(inbox, c) /\ c # "config" /\ c # "rest"
      BY <2>1, MessagesAssumption DEF SendChunk, TypeInv, MainOK, Messages
    <2>4. Injective(inbox') /\ \A y : In(inbox', y) => In(inbox, y) \/ y = c
      BY <2>2, <2>3, AddedIn DEF OneInv, QueueInv
    <2>5. ChunkInv'
      BY <1>1, <2>2, <2>4 DEF OneInv, ChunkInv, Exclusive, Known
    <2> QED
      BY <1>1, <2>2, <2>3, <2>4, <2>5 DEF OneInv, QueueInv
  <1>4. CASE Close \/ Signal
    BY <1>1, <1>4, SameOne DEF Close, Signal
  <1> QED
    BY <1>2, <1>3, <1>4

LEMMA StepOne == TypeInv /\ OneInv /\ [Next]_vars => OneInv'
  <1> SUFFICES ASSUME TypeInv, OneInv, [Next]_vars PROVE OneInv'
    OBVIOUS
  <1>1. CASE UNCHANGED vars
    BY <1>1, SameOne DEF vars
  <1>2. ASSUME NEW e \in Epochs, SaveFile(e) \/ Starter(e) \/ LoadScript(e) \/ NodeDies(e)
        PROVE  OneInv'
    <2>1. OfConfig
      BY <1>2 DEF SaveFile, Starter, StartNode, InitClient, Retry, ConnectNode, LoadScript,
         NodeDies
    <2> QED
      BY <2>1, SameOne DEF OfConfig, mainVars, workerVars, queues
  <1> QED
    BY <1>1, <1>2, MainOne, WorkerOne, OutsideOne DEF Next

LEMMA Counted ==
    ASSUME NEW q, Injective(q), NEW c
    PROVE  Occurrences(q, c) = IF In(q, c) THEN 1 ELSE 0
  <1> DEFINE P == {i \in DOMAIN q : q[i] = c}
  <1>1. CASE In(q, c)
    <2>1. PICK i \in DOMAIN q : q[i] = c
      BY <1>1 DEF In
    <2>2. P = {i}
      BY <2>1 DEF Injective
    <2> QED
      BY <1>1, <2>2, FS_Singleton DEF Occurrences
  <1>2. CASE ~In(q, c)
    <2>1. P = {}
      BY <1>2 DEF In
    <2> QED
      BY <1>2, <2>1, FS_EmptySet DEF Occurrences
  <1> QED
    BY <1>1, <1>2

\* A chunk is in one place at most: no chunk is answered twice although the worker
\* and main put back what they could not hand on (volcom_employee.c 323, 387, 679).
THEOREM ChunksInOnePlace == Spec => []OneCopy
  <1>1. Spec => [](TypeInv /\ OneInv)
    BY InitType, StepType, InitOne, StepOne, PTL DEF Spec
  <1>2. OneInv => OneCopy
    <2> SUFFICES ASSUME OneInv, NEW c \in Chunks
                 PROVE  Occurrences(chunks, c) + Here(chunk, c) + Occurrences(results, c)
                          + Here(outgoing, c) + Here(sent[c] # 0, TRUE) <= 1
      BY DEF OneCopy
    <2>1. /\ Occurrences(chunks, c) = IF In(chunks, c) THEN 1 ELSE 0
          /\ Occurrences(results, c) = IF In(results, c) THEN 1 ELSE 0
      BY Counted DEF OneInv, QueueInv
    <2>2. Here(sent[c] # 0, TRUE) = IF sent[c] # 0 THEN 1 ELSE 0
      BY DEF Here
    <2>3. Exclusive(c)
      BY DEF OneInv, ChunkInv
    <2> QED
      BY <2>1, <2>2, <2>3 DEF Exclusive, Here
  <1> QED
    BY <1>1, <1>2, PTL

-----------------------------------------------------------------------------
\* The first employer's chunks.

\* Until a second employer connects there is one config at most, so that one
\* starter at most is at work, and none once the descriptor is connected; the
\* worker takes a chunk only then, and never finds the descriptor unconnected.
Working == \E e \in Epochs : starter[e] # "none"

StarterInv ==
    /\ unix_socket_connected \/ Working => epoch = 1 /\ ~In(inbox, "config")
    /\ \A e \in Epochs : starter[e] # "none" => ~unix_socket_connected
    /\ \A d, e \in Epochs : starter[d] # "none" /\ starter[e] # "none" => d = e
    /\ unix_socket_connected => peer # 0

HandsInv ==
    /\ worker # "idle" => unix_socket_connected
    /\ \A c \in Chunks : In(chunks, c) => c \notin freed

FirstInv ==
    /\ node[0] = "none"
    /\ epoch <= 1 => StarterInv /\ HandsInv

LEMMA InitFirst == Init => FirstInv
  <1> SUFFICES ASSUME Init PROVE FirstInv
    OBVIOUS
  <1>1. node[0] = "none"
    BY ZeroPlace DEF Init
  <1>2. StarterInv
    BY DEF Init, StarterInv, Working
  <1>3. HandsInv
    BY DEF Init, HandsInv
  <1> QED
    BY <1>1, <1>2, <1>3 DEF FirstInv

LEMMA SameStarter ==
    ASSUME StarterInv, UNCHANGED <<epoch, unix_socket_connected, starter, peer>>,
           In(inbox, "config")' => In(inbox, "config")
    PROVE  StarterInv'
  BY DEF StarterInv, Working

LEMMA SameHands ==
    ASSUME HandsInv, UNCHANGED <<worker, unix_socket_connected, chunks, freed>>
    PROVE  HandsInv'
  BY DEF HandsInv

LEMMA MainFirst ==
    ASSUME TypeInv, OneInv, FirstInv, Main \/ GiveUp \/ ConfigFails \/ BrokenPipe
    PROVE  FirstInv'
  <1>1. UNCHANGED <<node, epoch, unix_socket_connected, peer, worker>>
    BY DEF Main, GiveUp, BrokenPipe, Killed, Leave, Accept, StopServing, ClosedByEmployer,
       RestOfConfig, BeginMessage, ConfigFails, ReceiveConfig, ReceiveChunk, NothingReceived, NoResult, TakeResult, SendResult,
       RequeueResult, nodeVars, workerVars
  <1> SUFFICES ASSUME epoch <= 1 PROVE StarterInv' /\ HandsInv'
    BY <1>1 DEF FirstInv
  <1>2. StarterInv /\ HandsInv
    BY DEF FirstInv
  <1>3. CASE ReceiveConfig
    <2>1. /\ inbox # <<>> /\ inbox \in Seq(Messages) /\ inbox' = Tail(inbox)
          /\ Head(inbox) = "config" /\ starter' = [starter EXCEPT ![epoch] = "fork"]
          /\ UNCHANGED <<chunks, freed>>
      BY <1>3 DEF ReceiveConfig, TypeInv, MainOK, queues, workerVars
    <2>2. In(inbox, "config") /\ ~In(inbox, "config")' /\ epoch = 1
      BY <1>1, <2>1, TakenIn DEF OneInv, QueueInv, TypeInv, MainOK, Places
    <2>3. ~unix_socket_connected /\ ~Working
      BY <1>2, <2>2 DEF StarterInv
    <2>4. StarterInv'
      BY <1>1, <2>1, <2>2, <2>3 DEF StarterInv, Working, TypeInv, StartersOK
    <2> QED
      BY <1>1, <1>2, <2>1, <2>4, SameHands
  <1>4. CASE ReceiveChunk
    <2>1. /\ inbox # <<>> /\ inbox \in Seq(Messages) /\ inbox' = Tail(inbox)
          /\ Head(inbox) \in Chunks /\ UNCHANGED starter
      BY <1>4, Taken DEF ReceiveChunk, TypeInv, MainOK, Messages, nodeVars
    <2>2. In(inbox, Head(inbox)) /\ \A y : In(inbox', y) => In(inbox, y)
      BY <2>1, TakenIn DEF OneInv, QueueInv
    <2>3. ~In(chunks, Head(inbox)) /\ Head(inbox) \notin freed
      BY <2>1, <2>2 DEF OneInv, ChunkInv, Known
    <2>4. HandsInv'
      <3>1. CASE chunks' = Append(chunks, Head(inbox)) /\ UNCHANGED freed
        <4>1. chunks \in Seq(Chunks)
          BY DEF TypeInv, BuffersOK
        <4>2. \A y : In(Append(chunks, Head(inbox)), y) <=> In(chunks, y) \/ y = Head(inbox)
          BY <2>1, <4>1, AddedIn
        <4> QED
          BY <1>1, <1>2, <2>3, <3>1, <4>2 DEF HandsInv
      <3>2. CASE freed' = freed \cup {Head(inbox)} /\ UNCHANGED chunks
        BY <1>1, <1>2, <2>3, <3>2 DEF HandsInv
      <3> QED
        BY <1>4, <3>1, <3>2 DEF ReceiveChunk
    <2> QED
      BY <1>1, <1>2, <2>1, <2>2, <2>4, SameStarter
  <1>5. CASE ~ReceiveConfig /\ ~ReceiveChunk
    <2>1. /\ UNCHANGED <<starter, chunks, freed>>
          /\ inbox' = inbox \/ inbox' = <<>> \/ ConfigFails
      BY <1>5 DEF Main, GiveUp, BrokenPipe, Killed, Leave, Accept, StopServing, RestOfConfig,
         BeginMessage, ConfigFails, ClosedByEmployer, NothingReceived, NoResult, TakeResult,
         SendResult, RequeueResult, nodeVars, workerVars, queues
    <2>2. In(inbox, "config")' => In(inbox, "config")
      <3>1. ConfigFails => In(inbox, "config")
        <4>1. ConfigFails => inbox # <<>> /\ inbox \in Seq(Messages) /\ Head(inbox) = "config"
          BY DEF ConfigFails, TypeInv, MainOK
        <4> QED
          BY <4>1, TakenIn DEF OneInv, QueueInv
      <3> QED
        BY <2>1, <3>1, EmptyIn
    <2> QED
      BY <1>1, <1>2, <2>1, <2>2, SameStarter, SameHands
  <1> QED
    BY <1>3, <1>4, <1>5

LEMMA WorkerFirst ==
    ASSUME TypeInv, OneInv, FirstInv, Worker
    PROVE  FirstInv'
  <1>1. /\ UNCHANGED <<node, epoch, unix_socket_connected, starter, peer>>
        /\ inbox' = inbox \/ inbox' = <<>>
    BY DEF Worker, WorkerGet, WorkerSend, WorkerBrokenPipe, WorkerRequeue, WorkerReceive,
       WorkerAnswer, WorkerNoAnswer, Killed, Restless, mainVars, nodeVars
  <1> SUFFICES ASSUME epoch <= 1 PROVE StarterInv' /\ HandsInv'
    BY <1>1 DEF FirstInv
  <1>2. StarterInv /\ HandsInv
    BY DEF FirstInv
  <1>3. StarterInv'
    BY <1>1, <1>2, EmptyIn, SameStarter
  <1>4. CASE WorkerGet
    <2>1. /\ chunks # <<>> /\ chunks \in Seq(Chunks) /\ chunks' = Tail(chunks)
          /\ unix_socket_connected /\ UNCHANGED freed
      BY <1>4 DEF WorkerGet, NodeReady, TypeInv, BuffersOK
    <2>2. \A y : In(chunks', y) => In(chunks, y)
      BY <2>1, TakenIn DEF OneInv, QueueInv
    <2> QED
      BY <1>1, <1>2, <1>3, <2>1, <2>2 DEF HandsInv
  <1>5. CASE WorkerSend \/ WorkerBrokenPipe
    <2>1. UNCHANGED <<chunks, freed>> /\ worker # "idle"
      BY <1>5 DEF WorkerSend, WorkerBrokenPipe, Killed, queues, workerVars
    <2> QED
      BY <1>1, <1>2, <1>3, <2>1 DEF HandsInv
  <1>6. CASE WorkerRequeue
    <2>1. worker # "idle" /\ peer = 0
      BY <1>6 DEF WorkerRequeue
    <2> QED
      BY <1>2, <2>1 DEF StarterInv, HandsInv
  <1>7. CASE WorkerReceive \/ WorkerAnswer \/ WorkerNoAnswer
    <2>1. /\ worker # "idle" /\ UNCHANGED chunks
          /\ freed' = freed \/ freed' = freed \cup {chunk}
      BY <1>7 DEF WorkerReceive, WorkerAnswer, WorkerNoAnswer, Release, queues
    <2>2. \A c \in Chunks : In(chunks, c) => c # chunk
      BY DEF OneInv, ChunkInv, Exclusive
    <2> QED
      BY <1>1, <1>2, <1>3, <2>1, <2>2 DEF HandsInv
  <1> QED
    BY <1>4, <1>5, <1>6, <1>7 DEF Worker

LEMMA ConfigFirst ==
    ASSUME TypeInv, FirstInv, NEW e \in Epochs,
           SaveFile(e) \/ Starter(e) \/ LoadScript(e) \/ NodeDies(e)
    PROVE  FirstInv'
  <1>1. OfConfig
    BY DEF SaveFile, Starter, StartNode, InitClient, Retry, ConnectNode, LoadScript, NodeDies
  <1>2. UNCHANGED <<epoch, inbox, worker, chunks, freed>>
    BY <1>1 DEF OfConfig, mainVars, queues, workerVars
  <1>3. node'[0] = "none"
    <2>1. e # 0
      BY DEF Epochs
    <2>2. node' = node \/ \E s \in {"exec", "up", "dead"} : node' = [node EXCEPT ![e] = s]
      BY DEF SaveFile, Starter, StartNode, InitClient, Retry, ConnectNode, LoadScript, NodeDies
    <2> QED
      BY <2>1, <2>2, ZeroPlace DEF FirstInv, TypeInv, NodesOK
  <1> SUFFICES ASSUME epoch <= 1 PROVE StarterInv' /\ HandsInv'
    BY <1>2, <1>3 DEF FirstInv
  <1>4. StarterInv /\ HandsInv
    BY DEF FirstInv
  <1>5. CASE UNCHANGED <<unix_socket_connected, starter, peer>>
    BY <1>2, <1>4, <1>5, SameStarter, SameHands
  <1>6. ASSUME starter[e] # "none",
               \E s \in {"none", "init", "check", "connect"} :
                   starter' = [starter EXCEPT ![e] = s],
               UNCHANGED unix_socket_connected
        PROVE  StarterInv' /\ HandsInv'
    <2>1. ~unix_socket_connected /\ Working /\ epoch = 1 /\ ~In(inbox, "config")
      BY <1>4, <1>6 DEF StarterInv, Working
    <2>2. \A d \in Epochs : starter'[d] # "none" => d = e
      BY <1>4, <1>6 DEF StarterInv, TypeInv, StartersOK
    <2>3. StarterInv'
      BY <1>2, <1>6, <2>1, <2>2 DEF StarterInv
    <2> QED
      BY <1>2, <1>4, <1>6, <2>3, SameHands
  <1>7. CASE StartNode(e) \/ InitClient(e) \/ Retry(e)
    <2>1. /\ starter[e] # "none" /\ UNCHANGED unix_socket_connected
          /\ \E s \in {"none", "init", "check", "connect"} : starter' = [starter EXCEPT ![e] = s]
      BY <1>7 DEF StartNode, InitClient, Retry
    <2> QED
      BY <1>6, <2>1
  <1>8. CASE ConnectNode(e)
    <2>1. CASE UNCHANGED unix_socket_connected
      <3>1. starter[e] # "none"
            /\ \E s \in {"none", "init", "check", "connect"} : starter' = [starter EXCEPT ![e] = s]
        BY <1>8 DEF ConnectNode
      <3> QED
        BY <1>6, <2>1, <3>1
    <2>2. CASE node[listener] = "up" /\ peer' = listener /\ unix_socket_connected'
               /\ starter' = [starter EXCEPT ![e] = "none"]
      <3>1. peer' # 0
        BY <2>2 DEF FirstInv
      <3>2. starter[e] # "none" /\ epoch = 1 /\ ~In(inbox, "config")
        BY <1>4, <1>8 DEF ConnectNode, StarterInv, Working
      <3>3. \A d \in Epochs : starter'[d] = "none"
        BY <1>4, <2>2, <3>2 DEF StarterInv, TypeInv, StartersOK
      <3>4. StarterInv'
        BY <1>2, <3>1, <3>2, <3>3 DEF StarterInv, Working
      <3>5. HandsInv'
        BY <1>2, <1>4, <2>2 DEF HandsInv
      <3> QED
        BY <3>4, <3>5
    <2> QED
      BY <1>8, <2>1, <2>2 DEF ConnectNode
  <1>9. CASE SaveFile(e) \/ LoadScript(e) \/ NodeDies(e)
    BY <1>5, <1>9 DEF SaveFile, LoadScript, NodeDies
  <1> QED
    BY <1>7, <1>8, <1>9 DEF Starter

LEMMA OutsideFirst ==
    ASSUME TypeInv, FirstInv, Connect \/ (\E c \in Chunks : SendChunk(c)) \/ Close \/ Signal
    PROVE  FirstInv'
  <1>1. UNCHANGED <<node, unix_socket_connected, starter, peer, worker, chunks, freed>>
    BY DEF Connect, SendChunk, Close, Signal, Outside, queues, workerVars, nodeVars
  <1>2. CASE Connect
    <2>1. epoch \in Nat /\ epoch' = epoch + 1
      BY <1>2, BoundsAssumption DEF Connect, TypeInv, MainOK, Places
    <2>2. CASE epoch = 0
      <3>1. ~unix_socket_connected /\ ~Working /\ HandsInv
        BY <2>2 DEF FirstInv, StarterInv
      <3> QED
        BY <1>1, <2>1, <2>2, <3>1, SameHands DEF FirstInv, StarterInv, Working
    <2>3. CASE epoch # 0
      BY <1>1, <2>1, <2>3 DEF FirstInv
    <2> QED
      BY <2>2, <2>3
  <1>3. CASE (\E c \in Chunks : SendChunk(c)) \/ Close \/ Signal
    <2>1. In(inbox, "config")' => In(inbox, "config")
      <3>1. ASSUME NEW c \in Chunks, SendChunk(c)
            PROVE  In(inbox', "config") => In(inbox, "config")
        <4>1. inbox' = Append(inbox, c) /\ inbox \in Seq(Messages)
              /\ c \in Messages /\ c # "config"
          BY <3>1, MessagesAssumption DEF SendChunk, TypeInv, MainOK, Messages
        <4> QED
          BY <4>1, AddedIn
      <3> QED
        BY <1>3, <3>1 DEF Close, Signal
    <2>2. UNCHANGED epoch
      BY <1>3 DEF SendChunk, Close, Signal
    <2> QED
      BY <1>1, <2>1, <2>2, SameStarter, SameHands DEF FirstInv
  <1> QED
    BY <1>2, <1>3

\* With one employer the worker never puts back a chunk whose data it frees: the
\* descriptor is connected before the worker is let go, and only another config
\* replaces it (volcom_employee.c 229-233, 387, 530-551).
THEOREM FirstEmployerIsSafe == Spec => []FirstEmployerSafe
  <1>1. TypeInv /\ OneInv /\ FirstInv /\ [Next]_vars => FirstInv'
    <2> SUFFICES ASSUME TypeInv, OneInv, FirstInv, [Next]_vars PROVE FirstInv'
      OBVIOUS
    <2>1. CASE UNCHANGED vars
      <3>1. UNCHANGED <<node, epoch, inbox, unix_socket_connected, starter, peer, worker,
                        chunks, freed>>
        BY <2>1 DEF vars
      <3> QED
        BY <3>1, SameStarter, SameHands DEF FirstInv
    <2> QED
      BY <2>1, MainFirst, WorkerFirst, ConfigFirst, OutsideFirst DEF Next
  <1>2. Spec => [](TypeInv /\ OneInv /\ FirstInv)
    BY <1>1, InitType, StepType, InitOne, StepOne, InitFirst, PTL DEF Spec
  <1>3. TypeInv /\ FirstInv => FirstEmployerSafe
    BY DEF TypeInv, BuffersOK, FirstInv, HandsInv, FirstEmployerSafe, Buffered, In
  <1> QED
    BY <1>2, <1>3, PTL

-----------------------------------------------------------------------------
\* The employee implements Volunteer.

Seen == {c \in Chunks : received[c] # 0}
Answered == {c \in Chunks : sent[c] # 0}
Inside(c) == In(chunks, c) \/ In(results, c) \/ c = chunk \/ c = outgoing
Held == {c \in Chunks : Up /\ Inside(c)}

AbstractHeld == IF ~Up THEN {}
                ELSE Buffered \cup {results[i] : i \in DOMAIN results}
                              \cup ({chunk, outgoing} \ {NoChunk})

HeldAgrees == AbstractHeld = Held

LEMMA HeldIs == TypeInv => HeldAgrees
  <1> SUFFICES ASSUME TypeInv PROVE AbstractHeld = Held
    BY DEF HeldAgrees
  <1>1. \A c \in Buffered : c \in Chunks
    BY LenProperties, ElementOfSeq DEF TypeInv, BuffersOK, Buffered
  <1>2. \A i \in DOMAIN results : results[i] \in Chunks
    BY LenProperties, ElementOfSeq DEF TypeInv, BuffersOK
  <1>3. \A c \in {chunk, outgoing} \ {NoChunk} : c \in Chunks
    BY DEF TypeInv, MainOK, WorkerOK
  <1> QED
    BY <1>1, <1>2, <1>3, NoChunkAssumption DEF AbstractHeld, Held, Inside, In, Buffered

\* The steps of Volunteer.
Same == UNCHANGED <<Seen, Held, Answered, Up>>
Dropped(c) == Up /\ Up' /\ c \in Held /\ Held' = Held \ {c} /\ UNCHANGED <<Seen, Answered>>
Taking(c) == /\ Up /\ Up' /\ c \in Chunks \ Seen /\ Seen' = Seen \cup {c}
             /\ Held' \in {Held, Held \cup {c}} /\ UNCHANGED Answered
Answering(c) == /\ Up /\ Up' /\ c \in Held /\ Held' = Held \ {c}
                /\ Answered' = Answered \cup {c} /\ UNCHANGED Seen
Stopped == Up /\ ~Up' /\ Held' = {} /\ UNCHANGED <<Seen, Answered>>
Volunteering == Same \/ Stopped \/ \E c \in Chunks : Dropped(c) \/ Taking(c) \/ Answering(c)

\* What moves no chunk changes nothing, unless it ends the process.
LEMMA SameHeld ==
    ASSUME UNCHANGED <<chunks, results, chunk, outgoing, received, sent>>, Up' => Up
    PROVE  Volunteering
  <1>1. Seen' = Seen /\ Answered' = Answered /\ \A c : Inside(c)' <=> Inside(c)
    BY DEF Seen, Answered, Inside
  <1>2. CASE Up' <=> Up
    <2>1. Held' = Held /\ Up' = Up
      BY <1>1, <1>2 DEF Held, Up
    <2> QED
      BY <1>1, <2>1 DEF Volunteering, Same
  <1>3. CASE Up /\ ~Up'
    <2>1. Held' = {}
      BY <1>3 DEF Held
    <2> QED
      BY <1>1, <1>3, <2>1 DEF Volunteering, Stopped
  <1> QED
    BY <1>2, <1>3

\* A buffer loses its first chunk, or is given one if there is room.
LEMMA TakenOut ==
    ASSUME NEW q \in Seq(Chunks), q # <<>>, Injective(q)
    PROVE  Head(q) \in Chunks /\ \A c \in Chunks : In(q, c) <=> In(Tail(q), c) \/ c = Head(q)
  BY Taken, TakenIn

LEMMA PutIn ==
    ASSUME NEW q \in Seq(Chunks), NEW x \in Chunks, NEW r, r = q \/ r = Append(q, x)
    PROVE  \/ r = q
           \/ \A c \in Chunks : In(r, c) <=> In(q, c) \/ c = x
  <1>1. \A y : In(Append(q, x), y) <=> In(q, y) \/ y = x
    BY AddedIn
  <1> QED
    BY <1>1

LEMMA MainVolunteers ==
    ASSUME TypeInv, OneInv, Main \/ GiveUp \/ ConfigFails \/ BrokenPipe
    PROVE  Volunteering
  <1>1. Up
    BY DEF Main, GiveUp, BrokenPipe, Accept, StopServing, ClosedByEmployer,
       RestOfConfig, BeginMessage, ConfigFails, ReceiveConfig, ReceiveChunk, NothingReceived, NoResult, TakeResult, SendResult,
       RequeueResult, Up
  <1>2. CASE Accept \/ StopServing \/ ClosedByEmployer \/ GiveUp \/ RestOfConfig
             \/ BeginMessage \/ ReceiveConfig \/ ConfigFails
             \/ NothingReceived \/ NoResult \/ BrokenPipe
    BY <1>1, <1>2, SameHeld DEF Accept, StopServing, ClosedByEmployer, GiveUp, RestOfConfig,
       Leave, BeginMessage, ReceiveConfig, ConfigFails, BrokenPipe, Killed, NothingReceived, NoResult, queues, history, workerVars
  <1>3. CASE ReceiveChunk
    <2> DEFINE c == Head(inbox)
    <2>1. /\ inbox # <<>> /\ inbox \in Seq(Messages) /\ c # "config"
          /\ UNCHANGED <<results, outgoing, chunk, sent>> /\ Up'
      BY <1>3 DEF ReceiveChunk, TypeInv, MainOK, Up
    <2>2. c \in Chunks /\ received[c] = 0 /\ epoch # 0
      <3>1. c \in Chunks
        BY <1>3, <2>1, Taken DEF ReceiveChunk, TypeInv, MainOK, Messages
      <3> QED
        BY <2>1, <3>1, TakenIn DEF OneInv, QueueInv, ChunkInv
    <2>3. \A d \in Chunks : received'[d] = IF d = c THEN epoch ELSE received[d]
      BY <1>3 DEF ReceiveChunk, TypeInv, HistoryOK
    <2> HIDE DEF c
    <2>4. c \in Chunks \ Seen /\ Seen' = Seen \cup {c} /\ Answered' = Answered
      BY <2>1, <2>2, <2>3 DEF Seen, Answered
    <2>5. chunks' = chunks \/ \A d \in Chunks : In(chunks', d) <=> In(chunks, d) \/ d = c
      <3>1. chunks' = chunks \/ chunks' = Append(chunks, c)
        BY <1>3 DEF ReceiveChunk, c
      <3>2. chunks \in Seq(Chunks)
        BY DEF TypeInv, BuffersOK
      <3> QED
        BY <2>2, <3>1, <3>2, PutIn
    <2>6. Held' \in {Held, Held \cup {c}}
      BY <1>1, <2>1, <2>2, <2>5 DEF Held, Inside
    <2> QED
      BY <1>1, <2>1, <2>2, <2>4, <2>6 DEF Volunteering, Taking
  <1>4. CASE TakeResult
    <2>1. /\ results # <<>> /\ results \in Seq(Chunks) /\ results' = Tail(results)
          /\ outgoing' = Head(results) /\ Up'
          /\ UNCHANGED <<chunks, chunk, received, sent>>
      BY <1>4 DEF TakeResult, TypeInv, BuffersOK, workerVars, history, Up
    <2>2. outgoing = NoChunk
      BY <1>4 DEF TakeResult, TypeInv, MainOK
    <2>3. Head(results) \in Chunks
          /\ \A c \in Chunks : In(results, c) <=> In(results', c) \/ c = Head(results)
      BY <2>1, TakenOut DEF OneInv, QueueInv
    <2>4. Same
      BY <1>1, <2>1, <2>2, <2>3, NoChunkAssumption DEF Same, Seen, Answered, Held, Inside
    <2> QED
      BY <2>4 DEF Volunteering
  <1>5. CASE SendResult
    <2>1. /\ outgoing \in Chunks /\ outgoing' = NoChunk /\ Up'
          /\ UNCHANGED <<chunks, results, chunk, received>>
      BY <1>5 DEF SendResult, TypeInv, MainOK, workerVars, queues, Up
    <2>2. outgoing \in Held /\ Held' = Held \ {outgoing} /\ Seen' = Seen
      BY <1>1, <2>1, NoChunkAssumption DEF OneInv, ChunkInv, Exclusive, Held, Inside, Seen
    <2>3. CASE conn = "open"
      <3>1. \A c \in Chunks : sent'[c] = IF c = outgoing THEN epoch ELSE sent[c]
        BY <1>5, <2>3 DEF SendResult, TypeInv, HistoryOK
      <3>2. epoch # 0
        BY <2>3 DEF OneInv, QueueInv
      <3>3. Answered' = Answered \cup {outgoing}
        BY <2>1, <3>1, <3>2 DEF Answered
      <3> QED
        BY <1>1, <2>1, <2>2, <3>3 DEF Volunteering, Answering
    <2>4. CASE conn # "open"
      <3>1. Answered' = Answered
        BY <1>5, <2>4 DEF SendResult, Answered
      <3> QED
        BY <1>1, <2>1, <2>2, <3>1 DEF Volunteering, Dropped
    <2> QED
      BY <2>3, <2>4
  <1>6. CASE RequeueResult
    <2>1. /\ outgoing \in Chunks /\ outgoing' = NoChunk /\ Up'
          /\ UNCHANGED <<chunks, chunk, received, sent>>
      BY <1>6 DEF RequeueResult, TypeInv, MainOK, workerVars, Up
    <2>2. \/ results' = results
          \/ \A c \in Chunks : In(results', c) <=> In(results, c) \/ c = outgoing
      <3>1. results' = results \/ results' = Append(results, outgoing)
        BY <1>6 DEF RequeueResult
      <3>2. results \in Seq(Chunks)
        BY DEF TypeInv, BuffersOK
      <3> QED
        BY <2>1, <3>1, <3>2, PutIn
    <2>3. outgoing \in Held /\ Held' \in {Held, Held \ {outgoing}}
      BY <1>1, <2>1, <2>2, NoChunkAssumption DEF OneInv, ChunkInv, Exclusive, Held, Inside
    <2>4. Seen' = Seen /\ Answered' = Answered
      BY <2>1 DEF Seen, Answered
    <2> QED
      BY <1>1, <2>1, <2>3, <2>4 DEF Volunteering, Dropped, Same
  <1> QED
    BY <1>2, <1>3, <1>4, <1>5, <1>6 DEF Main

LEMMA WorkerVolunteers ==
    ASSUME TypeInv, OneInv, Worker
    PROVE  Volunteering
  <1>1. Up
    BY DEF Worker, WorkerGet, WorkerSend, WorkerBrokenPipe, WorkerRequeue, WorkerReceive,
       WorkerAnswer, WorkerNoAnswer
  <1>2. CASE WorkerGet
    <2>1. /\ chunks # <<>> /\ chunks \in Seq(Chunks) /\ chunks' = Tail(chunks)
          /\ chunk = NoChunk /\ chunk' = Head(chunks) /\ Up'
          /\ UNCHANGED <<results, outgoing, received, sent>>
      BY <1>2 DEF WorkerGet, TypeInv, BuffersOK, WorkerOK, Restless, mainVars, Up
    <2>2. Head(chunks) \in Chunks
          /\ \A c \in Chunks : In(chunks, c) <=> In(chunks', c) \/ c = Head(chunks)
      BY <2>1, TakenOut DEF OneInv, QueueInv
    <2>3. Same
      BY <1>1, <2>1, <2>2, NoChunkAssumption DEF Same, Seen, Answered, Held, Inside
    <2> QED
      BY <2>3 DEF Volunteering
  <1>3. CASE WorkerSend \/ WorkerBrokenPipe
    BY <1>1, <1>3, SameHeld DEF WorkerSend, WorkerBrokenPipe, Killed, Restless, mainVars,
       queues, workerVars, history
  <1>4. CASE WorkerRequeue
    <2>1. /\ chunk \in Chunks /\ chunk' = NoChunk /\ Up'
          /\ UNCHANGED <<results, outgoing, received, sent>>
      BY <1>4 DEF WorkerRequeue, TypeInv, WorkerOK, Restless, mainVars, Up
    <2>2. \/ chunks' = chunks
          \/ \A c \in Chunks : In(chunks', c) <=> In(chunks, c) \/ c = chunk
      <3>1. chunks' = chunks \/ chunks' = Append(chunks, chunk)
        BY <1>4 DEF WorkerRequeue
      <3>2. chunks \in Seq(Chunks)
        BY DEF TypeInv, BuffersOK
      <3> QED
        BY <2>1, <3>1, <3>2, PutIn
    <2>3. chunk \in Held /\ Held' \in {Held, Held \ {chunk}}
      BY <1>1, <2>1, <2>2, NoChunkAssumption DEF OneInv, ChunkInv, Exclusive, Held, Inside
    <2>4. Seen' = Seen /\ Answered' = Answered
      BY <2>1 DEF Seen, Answered
    <2> QED
      BY <1>1, <2>1, <2>3, <2>4 DEF Volunteering, Dropped, Same
  <1>5. ASSUME worker # "idle", Release, results' = results \/ results' = Append(results, chunk),
               UNCHANGED <<chunks, outgoing, received, sent, main>>
        PROVE  Volunteering
    <2>1. chunk \in Chunks /\ chunk' = NoChunk /\ Up' /\ results \in Seq(Chunks)
      BY <1>1, <1>5 DEF Release, TypeInv, WorkerOK, BuffersOK, Up
    <2>2. \/ results' = results
          \/ \A c \in Chunks : In(results', c) <=> In(results, c) \/ c = chunk
      BY <1>5, <2>1, PutIn
    <2>3. chunk \in Held /\ Held' \in {Held, Held \ {chunk}}
      BY <1>1, <1>5, <2>1, <2>2, NoChunkAssumption
         DEF OneInv, ChunkInv, Exclusive, Held, Inside
    <2>4. Seen' = Seen /\ Answered' = Answered
      BY <1>5 DEF Seen, Answered
    <2> QED
      BY <1>1, <2>1, <2>3, <2>4 DEF Volunteering, Dropped, Same
  <1>6. CASE WorkerReceive
    <2>1. /\ worker # "idle" /\ UNCHANGED <<chunks, results, outgoing, received, sent, main>>
          /\ Release \/ UNCHANGED chunk
      BY <1>6 DEF WorkerReceive, Restless, mainVars, queues
    <2>2. CASE Release
      BY <1>5, <2>1, <2>2
    <2>3. CASE UNCHANGED chunk
      BY <1>1, <2>1, <2>3, SameHeld
    <2> QED
      BY <2>1, <2>2, <2>3
  <1>7. CASE WorkerAnswer \/ WorkerNoAnswer
    <2>1. /\ worker # "idle" /\ UNCHANGED <<chunks, outgoing, received, sent, main>>
          /\ Release /\ (results' = results \/ results' = Append(results, chunk))
      BY <1>7 DEF WorkerAnswer, WorkerNoAnswer, Restless, mainVars, queues
    <2> QED
      BY <1>5, <2>1
  <1> QED
    BY <1>2, <1>3, <1>4, <1>6, <1>7 DEF Worker

LEMMA StepVolunteers == TypeInv /\ OneInv /\ [Next]_vars => Volunteering
  <1> SUFFICES ASSUME TypeInv, OneInv, [Next]_vars PROVE Volunteering
    OBVIOUS
  <1>1. ASSUME UNCHANGED <<main, chunks, results, chunk, outgoing, received, sent>>
        PROVE  Volunteering
    BY <1>1, SameHeld DEF Up
  <1>2. CASE UNCHANGED vars
    BY <1>1, <1>2 DEF vars
  <1>3. ASSUME NEW e \in Epochs, SaveFile(e) \/ Starter(e) \/ LoadScript(e) \/ NodeDies(e)
        PROVE  Volunteering
    <2>1. OfConfig
      BY <1>3 DEF SaveFile, Starter, StartNode, InitClient, Retry, ConnectNode, LoadScript,
         NodeDies
    <2> QED
      BY <1>1, <2>1 DEF OfConfig, mainVars, workerVars, queues
  <1>4. CASE Connect \/ (\E c \in Chunks : SendChunk(c)) \/ Close \/ Signal
    BY <1>1, <1>4 DEF Connect, SendChunk, Close, Signal, Outside, queues, workerVars, history
  <1> QED
    BY <1>2, <1>3, <1>4, MainVolunteers, WorkerVolunteers DEF Next

\* Every behaviour of the employee, with any number of chunks, connections, nodes
\* and faults, is one of Volunteer: a chunk is held from its arrival until it is
\* answered or dropped, and never turns up again (volcom_employee.c 225-400, 622-690).
THEOREM EmployeeVolunteers == Spec => ImplementsVolunteer
  <1>1. Init => Volunteers!Init
    <2> SUFFICES ASSUME Init PROVE Volunteers!Init
      OBVIOUS
    <2>1. Up /\ Buffered = {} /\ results = <<>> /\ chunk = NoChunk /\ outgoing = NoChunk
      BY DEF Init, Up, Buffered
    <2>2. \A c \in Chunks : received[c] = 0 /\ sent[c] = 0
      BY DEF Init
    <2> QED
      BY <2>1, <2>2 DEF Volunteers!Init
  <1>2. TypeInv' => HeldAgrees'
    BY HeldIs, PTL
  <1>3. TypeInv /\ TypeInv' /\ OneInv /\ [Next]_vars => [Volunteers!Next]_(Volunteers!vars)
    <2> SUFFICES ASSUME TypeInv, TypeInv', OneInv, [Next]_vars
                 PROVE  [Volunteers!Next]_(Volunteers!vars)
      OBVIOUS
    <2>1. AbstractHeld = Held /\ AbstractHeld' = Held'
      BY <1>2, HeldIs DEF HeldAgrees
    <2>2. CASE Same
      BY <2>1, <2>2 DEF Same, Seen, Answered, AbstractHeld, Volunteers!vars
    <2>3. CASE Stopped
      <3>1. Volunteers!Stop
        BY <2>1, <2>3 DEF Stopped, Seen, Answered, AbstractHeld, Volunteers!Stop
      <3> QED
        BY <3>1 DEF Volunteers!Next
    <2>4. ASSUME NEW c \in Chunks, Dropped(c) PROVE Volunteers!Next
      <3>1. Volunteers!Drop(c)
        BY <2>1, <2>4 DEF Dropped, Seen, Answered, AbstractHeld, Volunteers!Drop
      <3> QED
        BY <3>1 DEF Volunteers!Next
    <2>5. ASSUME NEW c \in Chunks, Taking(c) PROVE Volunteers!Next
      <3>1. Volunteers!Receive(c)
        BY <2>1, <2>5 DEF Taking, Seen, Answered, AbstractHeld, Volunteers!Receive
      <3> QED
        BY <3>1 DEF Volunteers!Next
    <2>6. ASSUME NEW c \in Chunks, Answering(c) PROVE Volunteers!Next
      <3>1. Volunteers!Answer(c)
        BY <2>1, <2>6 DEF Answering, Seen, Answered, AbstractHeld, Volunteers!Answer
      <3> QED
        BY <3>1 DEF Volunteers!Next
    <2> QED
      BY <2>2, <2>3, <2>4, <2>5, <2>6, StepVolunteers DEF Volunteering
  <1>4. Spec => [](TypeInv /\ OneInv)
    BY InitType, StepType, InitOne, StepOne, PTL DEF Spec
  <1> QED
    BY <1>1, <1>3, <1>4, PTL DEF Spec, ImplementsVolunteer, Volunteers!Spec

-----------------------------------------------------------------------------
\* When chunks come and results go.

MarkReceived(c) ==
    /\ received[c] = 0 /\ epoch # 0
    /\ received' = [received EXCEPT ![c] = epoch] /\ UNCHANGED <<epoch, sent>>
MarkSent(c) ==
    /\ sent[c] = 0 /\ received[c] # 0
    /\ sent' = [sent EXCEPT ![c] = epoch] /\ UNCHANGED <<epoch, received>>
MarkNothing == epoch' \in {epoch, epoch + 1} /\ UNCHANGED <<received, sent>>
Marking == MarkNothing \/ \E c \in Chunks : MarkReceived(c) \/ MarkSent(c)

LEMMA StepMarks == TypeInv /\ OneInv /\ [Next]_vars => Marking
  <1> SUFFICES ASSUME TypeInv, OneInv, [Next]_vars PROVE Marking
    OBVIOUS
  <1>1. ASSUME UNCHANGED <<epoch, received, sent>> PROVE Marking
    BY <1>1 DEF Marking, MarkNothing
  <1>2. CASE ReceiveChunk
    <2>1. /\ inbox # <<>> /\ inbox \in Seq(Messages) /\ Head(inbox) # "config"
          /\ received' = [received EXCEPT ![Head(inbox)] = epoch] /\ UNCHANGED <<epoch, sent>>
      BY <1>2 DEF ReceiveChunk, TypeInv, MainOK
    <2>2. Head(inbox) \in Chunks /\ In(inbox, Head(inbox))
      BY <1>2, <2>1, Taken, TakenIn
         DEF ReceiveChunk, OneInv, QueueInv, TypeInv, MainOK, Messages
    <2>3. received[Head(inbox)] = 0 /\ epoch # 0
      BY <2>1, <2>2 DEF OneInv, QueueInv, ChunkInv
    <2>4. MarkReceived(Head(inbox))
      BY <2>1, <2>3 DEF MarkReceived
    <2> QED
      BY <2>2, <2>4 DEF Marking
  <1>3. CASE SendResult
    <2>1. outgoing \in Chunks /\ UNCHANGED <<epoch, received>>
      BY <1>3 DEF SendResult, TypeInv, MainOK
    <2>2. sent[outgoing] = 0 /\ received[outgoing] # 0
      BY <2>1 DEF OneInv, ChunkInv, Exclusive, Known
    <2>3. sent' = sent \/ sent' = [sent EXCEPT ![outgoing] = epoch]
      BY <1>3 DEF SendResult
    <2>4. CASE sent' = sent
      BY <1>1, <2>1, <2>4
    <2>5. CASE sent' = [sent EXCEPT ![outgoing] = epoch]
      BY <2>1, <2>2, <2>5 DEF Marking, MarkSent
    <2> QED
      BY <2>3, <2>4, <2>5
  <1>4. CASE Accept \/ StopServing \/ ClosedByEmployer \/ GiveUp \/ RestOfConfig
             \/ BeginMessage \/ ReceiveConfig \/ ConfigFails \/ NothingReceived \/ NoResult \/ TakeResult \/ RequeueResult \/ BrokenPipe
    BY <1>1, <1>4 DEF Accept, StopServing, ClosedByEmployer, GiveUp, RestOfConfig, Leave,
       BeginMessage, ReceiveConfig, ConfigFails,
       NothingReceived, NoResult, TakeResult, RequeueResult, BrokenPipe, Killed, history
  <1>5. CASE Worker
    BY <1>1, <1>5 DEF Worker, WorkerGet, WorkerSend, WorkerBrokenPipe, WorkerRequeue,
       WorkerReceive, WorkerAnswer, WorkerNoAnswer, Killed, Restless, mainVars, history
  <1>6. ASSUME NEW e \in Epochs, SaveFile(e) \/ Starter(e) \/ LoadScript(e) \/ NodeDies(e)
        PROVE  Marking
    <2>1. OfConfig
      BY <1>6 DEF SaveFile, Starter, StartNode, InitClient, Retry, ConnectNode, LoadScript,
         NodeDies
    <2> QED
      BY <1>1, <2>1 DEF OfConfig, mainVars
  <1>7. CASE Connect \/ (\E c \in Chunks : SendChunk(c)) \/ Close \/ Signal
    BY <1>7 DEF Connect, SendChunk, Close, Signal, Outside, history, Marking, MarkNothing
  <1>8. CASE UNCHANGED vars
    BY <1>1, <1>8 DEF vars
  <1> QED
    BY <1>2, <1>3, <1>4, <1>5, <1>6, <1>7, <1>8 DEF Next, Main

\* No chunk is answered a second time, or taken in a second time, whatever is put back
\* in between.
AnsweredOnce ==
    \A c \in Chunks : /\ sent[c] # 0 => sent'[c] = sent[c]
                      /\ received[c] # 0 => received'[c] = received[c]
THEOREM AnswersAreFinal == Spec => [][AnsweredOnce]_vars
  <1>1. TypeInv /\ OneInv /\ [Next]_vars => AnsweredOnce
    BY StepMarks DEF Marking, MarkNothing, MarkReceived, MarkSent, AnsweredOnce, TypeInv,
       HistoryOK
  <1> QED
    BY <1>1, InitType, StepType, InitOne, StepOne, PTL DEF Spec

\* A result goes to the employer its chunk came from or to a later one, never to an
\* earlier one; while only one employer has connected, to that one, which is as much as
\* "over the same TCP connection" (volcom_agents/README.md 42) comes to.
ResultsFollow ==
    \A c \in Chunks : /\ received[c] <= epoch
                      /\ sent[c] # 0 => received[c] \in 1 .. sent[c] /\ sent[c] <= epoch
THEOREM AnswersFollowChunks == Spec => []ResultsFollow
  <1>1. Init => ResultsFollow
    BY DEF Init, ResultsFollow
  <1>2. TypeInv /\ OneInv /\ ResultsFollow /\ [Next]_vars => ResultsFollow'
    <2> SUFFICES ASSUME TypeInv, OneInv, ResultsFollow, [Next]_vars, NEW c \in Chunks
                 PROVE  /\ received'[c] <= epoch'
                        /\ sent'[c] # 0 => received'[c] \in 1 .. sent'[c] /\ sent'[c] <= epoch'
      BY DEF ResultsFollow
    <2>1. /\ epoch \in Nat /\ received[c] \in Nat /\ sent[c] \in Nat
          /\ received \in [Chunks -> Places] /\ sent \in [Chunks -> Places]
      BY BoundsAssumption DEF TypeInv, MainOK, HistoryOK, Places
    <2>2. received[c] <= epoch /\ (sent[c] # 0 => received[c] \in 1 .. sent[c] /\ sent[c] <= epoch)
      BY DEF ResultsFollow
    <2>3. CASE MarkNothing
      BY <2>1, <2>2, <2>3 DEF MarkNothing
    <2>4. ASSUME NEW d \in Chunks, MarkReceived(d)
          PROVE  /\ received'[c] <= epoch'
                 /\ sent'[c] # 0 => received'[c] \in 1 .. sent'[c] /\ sent'[c] <= epoch'
      <3>1. sent'[c] = sent[c] /\ epoch' = epoch
        BY <2>4 DEF MarkReceived
      <3>2. received'[c] = IF c = d THEN epoch ELSE received[c]
        BY <2>1, <2>4 DEF MarkReceived
      <3>3. c = d => received[c] = 0
        BY <2>4 DEF MarkReceived
      <3> QED
        BY <2>1, <2>2, <3>1, <3>2, <3>3
    <2>5. ASSUME NEW d \in Chunks, MarkSent(d)
          PROVE  /\ received'[c] <= epoch'
                 /\ sent'[c] # 0 => received'[c] \in 1 .. sent'[c] /\ sent'[c] <= epoch'
      <3>1. received'[c] = received[c] /\ epoch' = epoch
        BY <2>5 DEF MarkSent
      <3>2. sent'[c] = IF c = d THEN epoch ELSE sent[c]
        BY <2>1, <2>5 DEF MarkSent
      <3>3. c = d => received[c] # 0
        BY <2>5 DEF MarkSent
      <3> QED
        BY <2>1, <2>2, <3>1, <3>2, <3>3
    <2> QED
      BY <2>3, <2>4, <2>5, StepMarks DEF Marking
  <1> QED
    BY <1>1, <1>2, InitType, StepType, InitOne, StepOne, PTL DEF Spec
=============================================================================
