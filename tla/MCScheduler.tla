----------------------------- MODULE MCScheduler -----------------------------
(* Two tasks: the chunk_ids of one keep the index, those of the other lose it *)
(* and are all the same.  Two clients and two employees; a report of each     *)
(* kind.                                                                      *)
EXTENDS Scheduler

CONSTANTS a, b, underscore, word, w1, w2

MCInfix == <<underscore, word, underscore>>
MCTaskIds == {<<a>>, <<a, b>>}
MCSymbols == {a, b, underscore, word}
MCClients == {w1, w2}
MCEmployees == 1 .. 2
Report(available, usage, active) ==
    [is_available |-> available, cpu_usage |-> usage, memory_usage |-> usage,
     active_tasks |-> active]
MCReports == {Report(TRUE, 10, 0), Report(TRUE, 10, 3), Report(TRUE, 90, 30),
              Report(FALSE, 10, 0)}
MCLefts == {-10, 0, 60}
==============================================================================
