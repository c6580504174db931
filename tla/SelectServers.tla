--------------------------- MODULE SelectServers ---------------------------
(***************************************************************************)
(* The two select() servers, select_test.cpp and select_serv.cpp, among    *)
(* the same clients.  The initial state chooses the program that runs; the *)
(* variables of the other one stay as they are.                            *)
(***************************************************************************)
EXTENDS SelectTest, SelectServ

VARIABLE program

serversVars == <<program, serverVars, servVars, kernelVars>>

ServersInit ==
    /\ program \in {"select_test", "select_serv"}
    /\ Init /\ ServInit

testRuns == program = "select_test" /\ UNCHANGED <<program, servVars>>
servRuns == program = "select_serv" /\ UNCHANGED <<program, serverVars>>

ServersNext == \/ testRuns /\ Next
               \/ servRuns /\ ServNext

\* The server's thread runs; nothing is assumed of the clients, and select need not fail.
ServersFairness == WF_serversVars((testRuns /\ Server) \/ (servRuns /\ Serves))

ServersSpec == ServersInit /\ [][ServersNext]_serversVars /\ ServersFairness

(***************************************************************************)
(* Properties.                                                             *)
(***************************************************************************)
testRests == fd = [s \in Slot |-> 0] /\ conn_amount = 0 /\ pc = "select"
servRests == clientfds = <<>> /\ at = "select" /\ place = 1

ServersTypeOK ==
    \/ program = "select_test" /\ TypeOK /\ servRests
    \/ program = "select_serv" /\ ServTypeOK /\ testRests

\* What the table says and what is open agree, though the kernel gives the number of a
\* closed descriptor to the next client: select_test.cpp has no descriptor in two slots
\* and none in a slot that is closed or that select does not look at; select_serv.cpp
\* has every open connection in exactly one entry and ends with none open.
HeldOnce ==
    /\ program = "select_test" => SlotsHoldConnections
    /\ program = "select_serv" => OpenHeldOnce

\* Both loops block in select and nowhere else (select_test.cpp:92, 109 and
\* select_serv.cpp:70, 83): while one waited elsewhere, nobody would be served.
BlocksInSelect == NeverBlocks /\ ServNeverBlocks

\* A client that has left is noticed: by select_test.cpp in the slots that its counter
\* reaches, by select_serv.cpp in every place of the vector.
LeaversNoticed == CountedSlotsFreed /\ (program = "select_serv" => LeaverDropped)
=============================================================================
