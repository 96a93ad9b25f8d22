------------------------------ MODULE Volunteer ------------------------------
(***************************************************************************)
(* What an employee promises of the chunks it is sent, without threads,    *)
(* buffers, sockets and node processes: it holds a chunk from its arrival  *)
(* until it answers or drops it, and a chunk it no longer holds never      *)
(* comes back.  So it answers each at most once, and only what it was      *)
(* sent.  When it stops, what it holds is gone.                            *)
(***************************************************************************)
CONSTANT Chunks

VARIABLES seen, held, answered, up

vars == <<seen, held, answered, up>>

Init == seen = {} /\ held = {} /\ answered = {} /\ up = TRUE

Receive(c) ==
    /\ up /\ c \notin seen
    /\ seen' = seen \cup {c}
    /\ held' \in {held, held \cup {c}}
    /\ UNCHANGED <<answered, up>>

Answer(c) ==
    /\ up /\ c \in held
    /\ held' = held \ {c}
    /\ answered' = answered \cup {c}
    /\ UNCHANGED <<seen, up>>

Drop(c) ==
    /\ up /\ c \in held
    /\ held' = held \ {c}
    /\ UNCHANGED <<seen, answered, up>>

Stop ==
    /\ up /\ up' = FALSE
    /\ held' = {}
    /\ UNCHANGED <<seen, answered>>

Next == (\E c \in Chunks : Receive(c) \/ Answer(c) \/ Drop(c)) \/ Stop

Spec == Init /\ [][Next]_vars
===============================================================================
