------------------------------- MODULE Clients -------------------------------
(***************************************************************************)
(* The five clients of the game server that the repository holds, each in  *)
(* its turn against the same server: the choice is made at the start.  The *)
(* address is the same constant in all but version 2, which has it from    *)
(* its configuration.                                                      *)
(***************************************************************************)
EXTENDS ClientV1, ClientV2, ClientYxs, ClientTests

vars == <<svars, v2vars>>

Programs == {"version1", "version2", "yxs", "yxstest", "yxstest_v1"}

Init ==
    /\ program \in Programs /\ pc = "start"
    /\ stdin \in BOOLEAN
    /\ target = Server
    /\ fd = -1 /\ open = {}
    /\ sk = [Fresh EXCEPT !.link = "none"]
    /\ shown = <<>> /\ faults = 0 /\ twice = FALSE
    /\ file = <<>> /\ m_buf = <<>>

ClientStep == V2Step \/ ((V1Step \/ YxsStep \/ TestsStep) /\ UNCHANGED v2vars)
NetworkStep == Network /\ UNCHANGED v2vars

Next == ClientStep \/ NetworkStep

(***************************************************************************)
(* Each client goes on when it can.  The server answers an attempt, one    *)
(* way or the other, and says something on a connection that stays up.     *)
(***************************************************************************)
Answers == Accept \/ Refuse
Fairness ==
    /\ WF_vars(ClientStep)
    /\ WF_vars(NetworkStep /\ Answers)
    /\ WF_vars(NetworkStep /\ Send)

Spec == Init /\ [][Next]_vars /\ Fairness

(***************************************************************************)
(* Properties.                                                             *)
(***************************************************************************)
\* Types: the descriptors a process can have, the addresses that a configuration can
\* give, the states of the threaded client, which never enters the one that leaves its loop.
TypeOK ==
    /\ SocketTypeOK
    /\ program \in Programs
    /\ program = "yxs" =>
          pc \in (clentmgr_st \ {"EXIT"}) \cup {"start", "connecting", "failed", "prints"} \cup Ended
    /\ target.port \in {0, 20000}
    /\ shown \in Seq(Seq({"a", "b", "n", "0", "?"})) /\ Len(shown) <= Len(Stream)
    /\ file \in Files \cup {<<>>}
    /\ Len(m_buf) <= BufSize

\* Every descriptor a client opened it can still reach through its variable, whatever
\* failed and however often it connects again, and it closes none twice; when it returns
\* it has closed it.  Not so yxstest/test.cpp, which leaves one behind unless the attempt
\* failed late (lines 43 to 47, and main), the exits of yxstest/version1.cpp, a crash,
\* and version1, whose main closes again what getMsg closed after an error of select.
DescriptorsOwned ==
    /\ program # "yxstest" => open \subseteq {fd}
    /\ pc \in {"exit0", "exit1"} /\ program \in {"version1", "version2"} => open = {}
    /\ twice => (program = "version1" /\ pc = "exit0" /\ shown = <<>>)

\* Nothing is shown that the server did not say, in its order and without a gap.
\* Version 2 shows whole packages only, and all it has: it reads once, so the zeros that
\* it appends with every piece never get between two pieces.  version1 shows more than it
\* received only when the piece filled its buffer.
ShownIsSent ==
    LET received == SubSeq(Stream, 1, sk.read)
        said     == FlattenSeq(shown)
        packages == FlattenSeq([i \in DOMAIN shown |-> Append(shown[i], "n")])
        behind   == SubSeq(received, Len(packages) + 1, Len(received))
    IN  IF program = "version2"
        THEN /\ IsPrefix(packages, received)
             /\ "n" \notin ToSet(behind)
             /\ Len(shown) = Cardinality({i \in DOMAIN packages : packages[i] = "n"})
        ELSE IF program = "version1" /\ Len(received) = BufSize
        THEN IsPrefix(received, said)
        ELSE said = received

\* Version 2 goes to the server that conf.ini means: the last setting of its section
\* wins, wherever the section was opened again, and what is missing has the default; the
\* port keeps 16 bits.  A setting above the first section ends the program.
ConfiguredServer ==
    LET value(key, d) == Meaning(file, <<"client">>, <<key>>, d)
    IN  /\ pc = "configured" =>
              /\ ~Headless(file)
              /\ target.ip = value("server_addr", Server.ip)
              /\ target.port = 20000 <=>
                     (value("server_port", <<"20000">>) \in {<<"20000">>, <<"85536">>})
        /\ pc = "crashed" /\ file # <<>> => Headless(file)

\* What the server has said is read, or the connection is given up, or the program
\* ends: no client waits beside data.  The threaded client gives a broken connection up,
\* and goes on trying, through refusals, resets and errors, until it has read something
\* or the server has closed -- if its socket is not descriptor 0, which it takes for a
\* failure in one place and never waits for in another.
DataIsRead ==
    /\ (sk.sent > 0 /\ ~(program = "yxs" /\ fd = 0)) ~> (sk.read > 0 \/ sk.sent = 0 \/ pc \in Ended)
    /\ (program = "yxs" /\ stdin) ~> (shown # <<>> \/ sk.link = "over" \/ pc \in Ended)
    /\ (program = "yxs" /\ stdin /\ sk.err) ~> (shown # <<>> \/ sk.link # "over")
==============================================================================
