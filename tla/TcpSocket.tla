------------------------------ MODULE TcpSocket ------------------------------
(***************************************************************************)
(* What the game clients (myyxs/, yxs/, yxstest/) see of the system: one   *)
(* process with one thread that calls, descriptors handed out lowest first,*)
(* a TCP socket, and the game server at its other end.  All of it is       *)
(* outside the repository and is modelled from the calls the clients make, *)
(* with the results that Linux documents for them.                         *)
(*                                                                         *)
(* The server says the characters of Stream, in pieces of any size, on     *)
(* every connection it takes; it may close or reset one at any point.      *)
(***************************************************************************)
EXTENDS Integers, SequencesExt

CONSTANTS Stream,     \* what the server says; "n" stands for the newline
          BufSize,    \* bound: size of the buffer that a client gives to recv()
          MaxFaults   \* bound: calls that fail, refusals and resets, together

ASSUME SocketAssumption ==
    /\ Stream \in Seq({"a", "b", "n"})
    /\ BufSize \in Nat \ {0}
    /\ MaxFaults \in Nat

VARIABLES program,    \* which client runs
          pc,         \* where it is, or how it ended
          stdin,      \* was it started with descriptor 0 open?
          target,     \* the address it connects to
          fd,         \* its variable for the socket
          open,       \* the descriptors of sockets that are open
          sk,         \* the socket: state, pending error, characters sent and read
          shown,      \* the texts it printed of what it received
          faults,
          twice       \* history: a descriptor was closed that was not open

svars == <<program, pc, stdin, target, fd, open, sk, shown, faults, twice>>

Ended == {"exit0", "exit1", "crashed", "killed"}
Link == {"none", "new", "syn", "up", "over"}
Fresh == [link |-> "new", err |-> FALSE, sent |-> 0, read |-> 0]
Server == [ip |-> <<"server">>, port |-> 20000]

Fault == faults < MaxFaults /\ faults' = faults + 1
NoFault == UNCHANGED faults

(***************************************************************************)
(* The calls.  socket() and close() set fd, open and sk; the others set    *)
(* sk.  Each says with Fault or NoFault what it does to faults.            *)
(***************************************************************************)
lowestFree == IF stdin THEN 3 ELSE 0

socketOk == fd' = lowestFree /\ open' = open \cup {fd'} /\ sk' = Fresh /\ NoFault
socketFails == fd' = -1 /\ Fault /\ UNCHANGED <<open, sk>>

close(s) ==
    /\ open' = open \ {s}
    /\ sk' = IF s \in open THEN [sk EXCEPT !.link = "none"] ELSE sk
    /\ twice' = (twice \/ (s >= 0 /\ s \notin open))

kept == UNCHANGED <<open, twice>>
goto(p) == pc' = p /\ UNCHANGED <<program, stdin>>

\* connect() of a non-blocking socket.  One that was interrupted goes on by itself,
\* and the next call finds it under way, which is an error, or succeeded.
connect(r) ==
    \/ r = "ok" /\ sk.link = "new" /\ target = Server /\ NoFault /\ sk' = [sk EXCEPT !.link = "up"]
    \/ r = "ok" /\ sk.link = "up" /\ NoFault /\ UNCHANGED sk
    \/ r = "in_progress" /\ sk.link = "new" /\ NoFault /\ sk' = [sk EXCEPT !.link = "syn"]
    \/ r = "interrupted" /\ sk.link = "new" /\ Fault /\ sk' = [sk EXCEPT !.link = "syn"]
    \/ r = "error" /\ sk.link = "new" /\ Fault /\ UNCHANGED sk
    \/ r = "error" /\ sk.link # "new" /\ NoFault /\ sk' = [sk EXCEPT !.err = FALSE]

writable == sk.link \in {"up", "over"}
readable == sk.read < sk.sent \/ sk.link \in {"over", "new"}

select(ready, r) ==
    \/ r = "ready" /\ ready /\ NoFault
    \/ r = "timeout" /\ ~ready /\ NoFault
    \/ r = "error" /\ Fault

\* getsockopt(SO_ERROR) hands over the pending error and clears it.
socketError(e) == e = sk.err /\ sk' = [sk EXCEPT !.err = FALSE] /\ NoFault

least(a, b) == IF a < b THEN a ELSE b
chunk(n) == SubSeq(Stream, sk.read + 1, sk.read + n)

\* recv(): the n characters that are there, 0 at the end, or -1: the error of a
\* connection that broke (once), a socket never connected, and otherwise nothing to
\* read, for which a blocking one waits.
recv(n, size, blocking) ==
    \/ /\ n > 0 /\ n = least(size, sk.sent - sk.read)
       /\ sk' = [sk EXCEPT !.read = @ + n] /\ NoFault
    \/ /\ n = 0 /\ sk.read = sk.sent /\ sk.link = "over" /\ ~sk.err
       /\ UNCHANGED sk /\ NoFault
    \/ /\ n = -1 /\ sk.read = sk.sent /\ sk.link = "over" /\ sk.err
       /\ sk' = [sk EXCEPT !.err = FALSE] /\ NoFault
    \/ /\ n = -1 /\ sk.read = sk.sent
       /\ sk.link = "new" \/ (sk.link \in {"syn", "up"} /\ ~blocking)
       /\ UNCHANGED sk /\ NoFault
    \/ n = -1 /\ Fault /\ UNCHANGED sk

(***************************************************************************)
(* The network and the server.                                             *)
(***************************************************************************)
Accept == /\ sk.link = "syn" /\ target = Server
          /\ sk' = [sk EXCEPT !.link = "up"]
          /\ NoFault

Refuse == /\ sk.link = "syn"
          /\ sk' = [sk EXCEPT !.link = "over", !.err = TRUE]
          /\ Fault

Send == /\ sk.link = "up"
        /\ \E n \in (sk.sent + 1) .. Len(Stream) : sk' = [sk EXCEPT !.sent = n]
        /\ NoFault

PeerCloses == sk.link = "up" /\ sk' = [sk EXCEPT !.link = "over"] /\ NoFault

Reset == sk.link = "up" /\ sk' = [sk EXCEPT !.link = "over", !.err = TRUE] /\ Fault

Network ==
    /\ Accept \/ Refuse \/ Send \/ PeerCloses \/ Reset
    /\ UNCHANGED <<program, pc, stdin, target, fd, open, shown, twice>>

SocketTypeOK ==
    /\ stdin \in BOOLEAN /\ twice \in BOOLEAN
    /\ fd \in {-1, 0, 3} /\ open \subseteq {0, 3}
    /\ sk \in [link : Link, err : BOOLEAN, sent : 0 .. Len(Stream), read : 0 .. Len(Stream)]
    /\ sk.read <= sk.sent
    /\ faults \in 0 .. MaxFaults
==============================================================================
