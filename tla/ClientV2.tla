------------------------------ MODULE ClientV2 ------------------------------
(***************************************************************************)
(* myyxs/version2: main() (YxsGame.cpp) reads the server's address from    *)
(* conf/conf.ini, connects without blocking, and polls until it has        *)
(* received something, which TcpClient splits into packages at the         *)
(* newlines.  Log::Fatal crashes the process on purpose.                   *)
(***************************************************************************)
EXTENDS TcpSocket, ConfigReader

CONSTANT Files  \* what conf/conf.ini may hold; a file that cannot be read is empty

ASSUME FilesAssumption == \A f \in Files : f \in Seq(Seq(STRING))

VARIABLES file,  \* conf/conf.ini, until the address is made from it
          m_buf  \* TcpClient: received and not yet split

v2vars == <<file, m_buf>>

At2(p) == program = "version2" /\ pc = p
\* What is not a number is 0.
parseNumber(v) == IF v = <<"20000">> THEN 20000 ELSE IF v = <<"85536">> THEN 85536 ELSE 0
getNumber(map_, section, key, d) ==
    IF section \in DOMAIN map_ /\ key \in DOMAIN map_[section]
    THEN parseNumber(map_[section][key]) ELSE d

\* Mutant of port16: the port is kept as the number that was read.
portWide(n) == n
\* The port is a uint16_t.
port16(n) == n % 65536

\* main, lines 11 to 13: the result of setPath is not looked at.
ReadConfig ==
    /\ At2("start")
    /\ \E f \in Files :
        LET c == setPath(f) IN
        /\ file' = f
        /\ target' = [ip   |-> getString(c.map_, <<"client">>, <<"server_addr">>, Server.ip),
                      port |-> port16(getNumber(c.map_, <<"client">>, <<"server_port">>, 20000))]
        /\ goto(IF c.crashed THEN "crashed" ELSE "configured")
    /\ UNCHANGED <<fd, sk, shown, m_buf>> /\ kept /\ NoFault

\* Log::Fatal writes through a null pointer.
Fatal == goto("crashed")

\* fromHostPort takes dotted addresses only.
isAddress(ip) == ip \in {<<"server">>, <<"elsewhere">>}

\* Where no socket can be made, close(-1) fails too.
createNonblockingOrDie ==
    \/ socketOk /\ goto("connect")
    \/ socketFails /\ Fatal

\* InetAddress, then TcpClient with its socket and no data.
Construct ==
    /\ At2("configured")
    /\ file' = <<>> /\ m_buf' = <<>>
    /\ IF isAddress(target.ip) THEN createNonblockingOrDie
       ELSE Fatal /\ UNCHANGED <<fd, open, sk>> /\ NoFault
    /\ UNCHANGED <<target, shown, twice>>

\* Socket::connect waits for the connection unless it failed at once; main does not look
\* at the result.
afterConnect(r) == IF r = "error" THEN "poll" ELSE "check"

\* sockets::connect repeats when interrupted.
AsyncConnect ==
    /\ At2("connect")
    /\ \/ \E r \in {"ok", "in_progress", "error"} : connect(r) /\ goto(afterConnect(r))
       \/ connect("interrupted") /\ goto("connect")
    /\ UNCHANGED <<target, fd, shown, file, m_buf>> /\ kept

\* sockets::isConnectSucc: wait three seconds, then ask for the error, which is cleared.
isConnectSucc ==
    /\ At2("check") /\ goto("poll")
    /\ \/ \E r \in {"timeout", "error"} : select(writable, r) /\ UNCHANGED sk
       \/ writable /\ \E e \in BOOLEAN : socketError(e)
    /\ UNCHANGED <<target, fd, shown, file, m_buf>> /\ kept

\* ~Socket, when main returns: sockets::close does not bear a failure.
closeFd(result) ==
    /\ close(fd)
    /\ IF fd \in open THEN goto(result) ELSE Fatal

\* What select() finds changes nothing but the return after an error.
CheckReceivedData ==
    /\ At2("poll")
    /\ \/ /\ \E r \in {"ready", "timeout"} : select(readable, r)
          /\ goto("recv") /\ kept /\ UNCHANGED sk
       \/ select(readable, "error") /\ closeFd("exit1")
    /\ UNCHANGED <<target, fd, shown, file, m_buf>>

\* RecvData appends its whole buffer, zeros and all.
padded(s) == s \o [i \in 1 .. BufSize - Len(s) |-> "0"]

\* A package ends at a newline; what follows the last one stays in the buffer.
cut(d, c) == IF c = "n" THEN [list |-> Append(d.list, d.rest), rest |-> <<>>]
                        ELSE [d EXCEPT !.rest = Append(@, c)]

DecodePackage(b) ==
    LET upTo[n \in 0 .. Len(b)] ==
          IF n = 0 THEN [list |-> <<>>, rest |-> <<>>] ELSE cut(upTo[n - 1], b[n])
    IN  upTo[Len(b)]

\* Mutant of onReceived: main goes on reading.
onReceivedMore == "poll"
\* main stops when something was received.
onReceived == "return"

\* The rest of main's loop: RecvData, DecodePackage, ShowData.
RecvData ==
    /\ At2("recv")
    /\ \/ \E n \in 1 .. BufSize :
             /\ recv(n, BufSize, FALSE)
             /\ LET d == DecodePackage(m_buf \o padded(chunk(n)))
                IN  shown' = shown \o d.list /\ m_buf' = d.rest
             /\ goto(onReceived)
       \/ /\ \E n \in {-1, 0} : recv(n, BufSize, FALSE)
          /\ goto("poll") /\ UNCHANGED <<shown, m_buf>>
    /\ kept /\ UNCHANGED <<target, fd, file>>

\* ~TcpClient, with its Socket.
Return2 ==
    /\ At2("return") /\ closeFd("exit0")
    /\ NoFault /\ UNCHANGED <<target, fd, shown, file, m_buf>>

V2Step == \/ ReadConfig \/ Construct \/ AsyncConnect \/ isConnectSucc
          \/ CheckReceivedData \/ RecvData \/ Return2
==============================================================================
