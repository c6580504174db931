-------------------------- MODULE MC_MysqlManager --------------------------
(* MysqlManager with the table of the program, t_user. *)
EXTENDS MysqlManager

MC_Fields == <<"f_id", "f_user_id">>
=============================================================================
