------------------------------- MODULE TaskFarm -------------------------------
(***************************************************************************)
(* What an employer promises, without tables, sockets, loops or clocks: it *)
(* accepts tasks, hands copies of them out, may take a task back and hand  *)
(* it out again, and is finished when each accepted task has been done by  *)
(* a worker that held a copy of it.  Copies may be lost.                   *)
(***************************************************************************)
CONSTANTS Tasks, Workers

VARIABLES
    accepted,   \* the tasks to do
    out,        \* tasks that were handed out and are neither done nor taken back
    done,       \* tasks with a result
    copies,     \* copies[w]: the tasks worker w has, or whose results are under way
    state       \* "open", "working", "finished" or "aborted"

vars == <<accepted, out, done, copies, state>>

Init ==
    /\ state = "open"
    /\ accepted = {} /\ out = {} /\ done = {}
    /\ copies = [w \in Workers |-> {}]

\* The tasks are known from the beginning on.
Accept(S) ==
    /\ state = "open" /\ state' = "working"
    /\ accepted' = S
    /\ UNCHANGED <<out, done, copies>>

\* Only a task that waits is handed out; the copy may not arrive.
Give(t, w) ==
    /\ state = "working"
    /\ t \in accepted \ (out \cup done)
    /\ out' = out \cup {t}
    /\ \/ copies' = [copies EXCEPT ![w] = @ \cup {t}]
       \/ UNCHANGED copies
    /\ UNCHANGED <<accepted, done, state>>

\* The result of a copy is used, or not: it may be a second one, or be lost.
\* The worker may have been given another copy since.
Return(t, w) ==
    /\ state = "working"
    /\ t \in copies[w]
    /\ \/ done' = done \cup {t} /\ out' = out \ {t}
       \/ UNCHANGED <<done, out>>
    /\ \/ copies' = [copies EXCEPT ![w] = @ \ {t}]
       \/ UNCHANGED copies
    /\ UNCHANGED <<accepted, state>>

\* Nobody answered these in time.
TakeBack(S) ==
    /\ state = "working"
    /\ S \subseteq out
    /\ out' = out \ S
    /\ UNCHANGED <<accepted, done, copies, state>>

Fewer == \A w \in Workers : copies'[w] \subseteq copies[w]

Lose ==
    /\ Fewer /\ copies' = [w \in Workers |-> copies'[w]]
    /\ UNCHANGED <<accepted, out, done, state>>

Finish ==
    /\ state = "working" /\ state' = "finished"
    /\ accepted # {} /\ accepted \subseteq done
    /\ UNCHANGED <<accepted, out, done, copies>>

Abort ==
    /\ state = "working" /\ state' = "aborted"
    /\ Fewer /\ copies' = [w \in Workers |-> copies'[w]]
    /\ UNCHANGED <<accepted, out, done>>

Next ==
    \/ \E S \in SUBSET Tasks : Accept(S) \/ TakeBack(S)
    \/ \E t \in Tasks, w \in Workers : Give(t, w) \/ Return(t, w)
    \/ Lose \/ Finish \/ Abort

Spec == Init /\ [][Next]_vars
===============================================================================
