----------------------------- MODULE ClientYxs -----------------------------
(***************************************************************************)
(* yxs/: ClientManger (clientmgr.cpp) runs a state machine in a thread of  *)
(* its own over a TcpMsg (tcpmsg.cpp) with a blocking socket, while main   *)
(* waits in ~ClientManger for a thread that never ends.  pc is the state   *)
(* of TcpMessageLoop.                                                      *)
(***************************************************************************)
EXTENDS TcpSocket

INVALID_SOCKET == -1
MAXCONTENTLEN == Len(Stream) + 1    \* more than the server says

\* clentmgr_st, with the state that leaves the loop.
clentmgr_st == {"INIT", "CONN", "BCAST", "DATA_RW", "EXIT"}
ERROR_CODE == [ERROR_STATS |-> -1, ERR_SELECT |-> 100, ERR_RECV |-> 102]

AtY(p) == program = "yxs" /\ pc = p

\* ~ClientManger, when m_tcpth was never set: what pthread_join does is undefined.
joinUnset == \E p \in {"crashed", "exit0"} : goto(p)

\* main does not look at the result.
Start_TCP ==
    /\ AtY("start")
    /\ \/ goto("INIT") /\ NoFault
       \/ joinUnset /\ Fault
    /\ kept /\ UNCHANGED <<target, fd, sk, shown>>

\* INIT takes descriptor 0 for a failure, and -1 for a socket.
initialised(s) == IF s = 0 THEN "INIT" ELSE "CONN"

\* CLI_INIT_S: closes the socket it has, if any, and makes another with Initsocket.
Initsocket ==
    /\ AtY("INIT")
    /\ \/ /\ fd' = lowestFree /\ open' = (open \ {fd}) \cup {fd'} /\ sk' = Fresh /\ NoFault
       \/ /\ fd' = INVALID_SOCKET /\ open' = open \ {fd} /\ Fault
          /\ sk' = [sk EXCEPT !.link = "none"]
    /\ twice' = (twice \/ (fd # INVALID_SOCKET /\ fd \notin open))
    /\ goto(initialised(fd'))
    /\ UNCHANGED <<target, shown>>

\* CLI_CONN_S: Connect, which first makes the socket if INIT could not, and calls the
\* blocking connect().
ConnectInits ==
    /\ AtY("CONN") /\ fd = INVALID_SOCKET
    /\ \/ socketOk /\ goto("CONN")
       \/ socketFails /\ goto("failed")    \* connect(-1) fails
    /\ UNCHANGED <<target, shown, twice>>

Connect ==
    /\ AtY("CONN") /\ fd # INVALID_SOCKET
    /\ \/ sk.link = "new" /\ sk' = [sk EXCEPT !.link = "syn"] /\ goto("connecting") /\ NoFault
       \/ connect("error") /\ goto("failed")
    /\ kept /\ UNCHANGED <<target, fd, shown>>

\* connect() returns.
Connected ==
    /\ AtY("connecting")
    /\ \/ sk.link = "up" /\ goto("BCAST") /\ NoFault
       \/ sk.link = "over" /\ goto(IF sk.err THEN "failed" ELSE "BCAST") /\ NoFault
       \/ sk.link = "syn" /\ goto("failed") /\ Fault    \* interrupted
    /\ kept /\ UNCHANGED <<target, fd, sk, shown>>

\* Mutant of Close: the variable is reset and the descriptor stays open.
CloseForgets ==
    /\ AtY("failed") /\ goto("INIT")
    /\ fd' = INVALID_SOCKET
    /\ kept /\ sk' = [sk EXCEPT !.link = "none"]
    /\ NoFault /\ UNCHANGED <<target, shown>>

\* Connect failed: Close, and back to INIT.
Close ==
    /\ AtY("failed") /\ goto("INIT")
    /\ IF fd # INVALID_SOCKET THEN close(fd) ELSE kept /\ UNCHANGED sk
    /\ fd' = INVALID_SOCKET
    /\ NoFault /\ UNCHANGED <<target, shown>>

\* What was received before is kept in front, but nothing is received after a message.
Recv(n) == recv(n, MAXCONTENTLEN, TRUE)
result(n) == IF n < 0 THEN ERROR_CODE.ERR_RECV ELSE IF n = 0 THEN ERROR_CODE.ERROR_STATS ELSE 1

\* fillFdset_TCP leaves descriptor 0 out; select() then waits for nothing, without end.
watched == fd > 0

\* Mutant of afterHandler: an error of recv is taken as the end of the stream is.
afterHandlerAlike(iret) == IF iret = ERROR_CODE.ERR_SELECT THEN "DATA_RW" ELSE "BCAST"
\* Where TcpMessageLoop goes from what handlerMsg_TCP returned: an error of recv back to
\* CONN with the same socket; the end of the stream is looked at again and again; an
\* error of select is a positive code, and goes on as if something had been received.
afterHandler(iret) ==
    IF iret = ERROR_CODE.ERR_RECV THEN "CONN" ELSE IF iret < 0 THEN "BCAST" ELSE "DATA_RW"

\* CLI_BCAST_S: handlerMsg_TCP.  After a message the thread prints it for ever.
handlerMsg_TCP ==
    /\ AtY("BCAST")
    /\ \/ select(watched, "error") /\ goto(afterHandler(ERROR_CODE.ERR_SELECT)) /\ UNCHANGED <<sk, shown>>
       \/ /\ watched /\ readable
          /\ \/ \E n \in {-1, 0} : Recv(n) /\ goto(afterHandler(result(n))) /\ UNCHANGED shown
             \/ \E n \in 1 .. Len(Stream) :
                    Recv(n) /\ shown' = Append(shown, chunk(n)) /\ goto("prints")
    /\ kept /\ UNCHANGED <<target, fd>>

\* CLI_DATA_RW_S: sleeps, and goes back.
DataRw ==
    /\ AtY("DATA_RW") /\ goto("BCAST")
    /\ kept /\ NoFault /\ UNCHANGED <<target, fd, sk, shown>>

YxsStep == \/ Start_TCP \/ Initsocket \/ ConnectInits \/ Connect \/ Connected
           \/ Close \/ handlerMsg_TCP \/ DataRw
==============================================================================
