----------------------------- MODULE MC_Clients -----------------------------
(***************************************************************************)
(* The clients against a server that says two packages and a half, with    *)
(* every configuration file of up to MaxLines lines from a list that has   *)
(* the cases of ConfigReader::load: white space, sections again, one that  *)
(* is too short and one with an equals sign, comments, empty keys, lines   *)
(* without an equals sign, values that are no address and no number.       *)
(***************************************************************************)
EXTENDS Clients

CONSTANT MaxLines

MC_Stream == <<"a", "n", "b", "n", "a">>

Lines == {
    <<"[", "client", "]">>,
    <<" ", "[", " ", "client", "]", " ">>,
    <<"[", "other", "]">>,
    <<"[", "]">>,
    <<"[", "a", "=", "b", "]">>,
    <<"server_addr", " ", "=", " ", "elsewhere">>,
    <<"server_addr", "=", "server", " ">>,
    <<"server_addr", "=", "nonsense">>,
    <<"server_port", "=", "20000">>,
    <<"server_port", "=", "85536">>,
    <<"server_port", "=", "nonsense", "=">>,
    <<" ", "#", "server_addr", "=", "elsewhere">>,
    <<" ", "=", "server">>,
    <<"server_addr">> }

\* Those with which a section can be opened, left and opened again.
Few == {<<"[", "client", "]">>, <<"[", "other", "]">>, <<"server_addr", "=", "server", " ">>,
        <<"server_addr", " ", "=", " ", "elsewhere">>, <<"server_port", "=", "nonsense", "=">>}

MC_Files == UNION {[1 .. n -> Lines] : n \in 0 .. MaxLines} \cup [1 .. MaxLines + 1 -> Few]
==============================================================================
