------------------------------ MODULE MCRcsMngr ------------------------------
(* Two names and a process, with arrays that start at one place. *)
EXTENDS RcsMngr

CONSTANTS w1, w2, p1

MCNames == {w1, w2}
MCPids == {p1}
=============================================================================
