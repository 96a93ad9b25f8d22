---------------------------- MODULE MCConnection ----------------------------
(* Files of no or of two blocks, and a buffer that holds one result but not two. *)
EXTENDS Connection

MCSizes == {0, 2}
=============================================================================
