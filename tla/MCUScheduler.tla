---------------------------- MODULE MCUScheduler ----------------------------
(* Two producers and two consumers on two slots: both conditions can have *)
(* several sleepers, and an awake thread can overtake a signalled one.       *)
EXTENDS UScheduler

CONSTANTS p1, p2, c1, c2, a, b

MCProducers == {p1, p2}
MCConsumers == {c1, c2}
MCTasks == {a, b}
=============================================================================
