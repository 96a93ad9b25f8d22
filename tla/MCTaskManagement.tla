-------------------------- MODULE MCTaskManagement --------------------------
(* TaskManagement with the employee's two threads and a small ring.         *)
EXTENDS TaskManagement, TLC

CONSTANTS main, worker, v1, v2

MCThreads == {main, worker}
MCValues == {v1, v2}
=============================================================================
