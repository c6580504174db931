------------------------------ MODULE ClientV1 ------------------------------
(***************************************************************************)
(* myyxs/version1/yxsclient.cpp: connect without blocking, wait until it   *)
(* is known how that went, print the first thing the server says, close.   *)
(***************************************************************************)
EXTENDS TcpSocket

At1(p) == program = "version1" /\ pc = p

initSocket ==
    /\ At1("start")
    /\ \/ socketOk /\ goto("nonblock")
       \/ socketFails /\ goto("exit1")    \* close(-1) has no effect
    /\ UNCHANGED <<target, shown, twice>>

setNonblock ==
    /\ At1("nonblock")
    /\ \/ goto("connect") /\ NoFault /\ kept /\ UNCHANGED sk
       \/ goto("exit1") /\ Fault /\ close(fd)
    /\ UNCHANGED <<target, fd, shown>>

\* Every failure of connectServer and of isConnectSucc closes the socket, and main
\* returns at once.
connectServer ==
    /\ At1("connect")
    /\ \/ connect("ok") /\ goto("check")
       \/ connect("in_progress") /\ goto("check")
       \/ connect("interrupted") /\ goto("connect")
       \/ connect("error") /\ goto("failed")
    /\ kept /\ UNCHANGED <<target, fd, shown>>

isConnectSucc1 ==
    /\ At1("check")
    /\ \/ \E r \in {"timeout", "error"} : select(writable, r) /\ goto("failed") /\ UNCHANGED sk
       \/ writable /\ socketError(FALSE) /\ goto("getMsg")
       \/ writable /\ socketError(TRUE) /\ goto("failed")
    /\ kept /\ UNCHANGED <<target, fd, shown>>

closeFailed ==
    /\ At1("failed") /\ goto("exit1")
    /\ close(fd) /\ NoFault /\ UNCHANGED <<target, fd, shown>>

\* What recvData prints: the buffer as a C string.  A full one has no end, and
\* whatever follows it in memory is printed too.
printed(s) == IF Len(s) < BufSize THEN {s} ELSE {s, Append(s, "?")}

recvData(n) ==
    /\ recv(n, BufSize, FALSE)
    /\ IF n > 0 THEN \E s \in printed(chunk(n)) : shown' = Append(shown, s)
                 ELSE UNCHANGED shown

\* getMsg: one round of the loop.  After an error of select it closes the socket, and
\* main, which does not look at the result, closes it again.
getMsg ==
    /\ At1("getMsg")
    /\ \/ select(readable, "timeout") /\ goto("getMsg") /\ kept /\ UNCHANGED <<sk, shown>>
       \/ select(readable, "error") /\ goto("done") /\ close(fd) /\ UNCHANGED shown
       \/ /\ readable /\ kept
          /\ \E n \in -1 .. BufSize : recvData(n) /\ goto(IF n > 0 THEN "done" ELSE "getMsg")
    /\ UNCHANGED <<target, fd>>

Return1 ==
    /\ At1("done") /\ goto("exit0")
    /\ close(fd) /\ NoFault /\ UNCHANGED <<target, fd, shown>>

V1Step == \/ initSocket \/ setNonblock \/ connectServer \/ isConnectSucc1 \/ closeFailed
          \/ getMsg \/ Return1
==============================================================================
