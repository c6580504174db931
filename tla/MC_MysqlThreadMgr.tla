------------------------- MODULE MC_MysqlThreadMgr -------------------------
(* MysqlThreadMgr with two workers in the array and the one behind it. *)
EXTENDS MysqlThreadMgr

\* Without a limit, with nothing to process, and with a limit that is reached.
MC_Counts == {-1, 0, 1}
=============================================================================
