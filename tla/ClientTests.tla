----------------------------- MODULE ClientTests -----------------------------
(***************************************************************************)
(* yxstest/test.cpp (program "yxstest"): connect without blocking with the *)
(* timeout of select, and send.  yxstest/version1.cpp (program             *)
(* "yxstest_v1"): connect without blocking and print whatever comes, while *)
(* watching the standard input too.                                        *)
(***************************************************************************)
EXTENDS TcpSocket

AtT(p) == program = "yxstest" /\ pc = p

\* unblock_connect, to its connect().  socket() is not checked: connect(-1) fails.
\* Anything but EINPROGRESS leaves the socket open.
unblock_connect ==
    \/ /\ AtT("start") /\ goto("connect")
       /\ (socketOk \/ socketFails) /\ UNCHANGED <<target, shown, twice>>
    \/ /\ AtT("connect")
       /\ \/ connect("ok") /\ goto("main") /\ UNCHANGED fd
          \/ connect("in_progress") /\ goto("select") /\ UNCHANGED fd
          \/ \E r \in {"interrupted", "error"} : connect(r) /\ goto("main") /\ fd' = -1
       /\ kept /\ UNCHANGED <<target, shown>>

\* Its select(): writefds was never cleared (FD_ZERO clears readfds), and the bits it
\* holds for other descriptors count: one that is closed makes select fail, one that can
\* be written makes it return before the connection is decided.
garbage == {"none", "closed", "writable"}
waitConnected ==
    /\ AtT("select")
    /\ \E g \in garbage :
        \/ g = "closed" /\ goto("close") /\ NoFault /\ UNCHANGED sk
        \/ g = "writable" /\ ~writable /\ goto("close") /\ NoFault /\ UNCHANGED sk
        \/ g = "none" /\ ~writable /\ goto("close") /\ NoFault /\ UNCHANGED sk
        \/ g # "closed" /\ writable /\ goto("main") /\ socketError(FALSE)
        \/ g # "closed" /\ writable /\ goto("close") /\ socketError(TRUE)
    /\ kept /\ UNCHANGED <<target, fd, shown>>

closeUnconnected ==
    /\ AtT("close") /\ goto("main") /\ fd' = -1
    /\ close(fd) /\ NoFault /\ UNCHANGED <<target, shown>>

\* main.  After shutdown(SHUT_WR) there is nothing to send with: SIGPIPE ends the
\* process, unless the connection has an error to report instead.
sendAfterShutdown ==
    /\ AtT("main")
    /\ IF fd = -1 THEN goto("exit1") ELSE goto(IF sk.err THEN "exit0" ELSE "killed")
    /\ kept /\ NoFault /\ UNCHANGED <<target, fd, sk, shown>>

AtTV(p) == program = "yxstest_v1" /\ pc = p

\* To the loop.  `if (ret = -1)' is always taken, so a connection that is there at once
\* ends the program as one that failed does.
connectOrExit ==
    \/ /\ AtTV("start") /\ UNCHANGED <<target, shown, twice>>
       /\ \/ socketOk /\ goto("connect")
          \/ socketFails /\ goto("exit1")
    \/ /\ AtTV("connect") /\ kept /\ UNCHANGED <<target, fd, shown>>
       /\ \/ connect("in_progress") /\ goto("loop")
          \/ \E r \in {"ok", "interrupted", "error"} : connect(r) /\ goto("exit1")

\* One round of the loop.  Input at descriptor 0 wakes select() and is not read; an
\* error of recv is printed, the end of the stream ends the loop.
loop ==
    /\ AtTV("loop")
    /\ \/ ~readable /\ goto("loop") /\ NoFault /\ UNCHANGED <<sk, shown>>
       \/ select(readable, "error") /\ goto("break") /\ UNCHANGED <<sk, shown>>
       \/ /\ readable
          /\ \/ recv(-1, BufSize, FALSE) /\ goto("loop") /\ UNCHANGED shown
             \/ recv(0, BufSize, FALSE) /\ goto("break") /\ UNCHANGED shown
             \/ \E n \in 1 .. BufSize : /\ recv(n, BufSize, FALSE) /\ goto("loop")
                                        /\ shown' = Append(shown, chunk(n))
    /\ kept /\ UNCHANGED <<target, fd>>

break ==
    /\ AtTV("break") /\ goto("exit0")
    /\ close(fd) /\ NoFault /\ UNCHANGED <<target, fd, shown>>

TestsStep == \/ unblock_connect \/ waitConnected \/ closeUnconnected \/ sendAfterShutdown
             \/ connectOrExit \/ loop \/ break
==============================================================================
