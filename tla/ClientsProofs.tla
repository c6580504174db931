---------------------------- MODULE ClientsProofs ----------------------------
(***************************************************************************)
(* Proofs about the clients, for everything the server may say, buffers of *)
(* any size, any number of faults and any configuration files.             *)
(***************************************************************************)
EXTENDS Clients, SequenceLemmas, FiniteSetTheorems

(***************************************************************************)
(* The descriptors.                                                        *)
(***************************************************************************)
\* Where a client has exactly the socket that its variable names ...
Holding ==
    \/ program = "version1" /\ pc \in {"nonblock", "connect", "check", "failed", "getMsg"}
    \/ program = "version2" /\ pc \in {"connect", "check", "poll", "recv", "return"}
    \/ program = "yxstest_v1" /\ pc \in {"connect", "loop", "break"}

\* ... and where it has none.
HasNone ==
    \/ pc = "start"
    \/ program = "version1" /\ pc \in {"exit0", "exit1"}
    \/ program = "version2" /\ pc \in {"configured", "exit0", "exit1"}

DescInv ==
    /\ Holding => fd # -1 /\ open = {fd}
    /\ HasNone => open = {}
    /\ pc = "start" => fd = -1
    /\ program = "yxs" => open = {fd} \ {-1}
    /\ program = "yxstest" /\ pc \in {"connect", "select", "close"} => fd = -1 \/ fd \in open
    /\ program = "version1" /\ pc = "done" =>
          fd # -1 /\ (open = {fd} \/ (open = {} /\ shown = <<>>))
    /\ program = "version1" /\ pc \in {"start", "nonblock", "connect", "check", "failed", "getMsg"} =>
          shown = <<>>
    /\ DescriptorsOwned
    /\ program \in Programs
    /\ fd \in {-1, 0, 3} /\ twice \in BOOLEAN
\* version1.
LEMMA V1Desc ==
    ASSUME DescInv, V1Step /\ UNCHANGED v2vars PROVE DescInv'
<1> USE DEF DescInv, DescriptorsOwned, Holding, HasNone, Programs, goto, kept
<1>1. CASE initSocket BY <1>1 DEF initSocket, At1, socketOk, socketFails, lowestFree
<1>2. CASE setNonblock BY <1>2 DEF setNonblock, At1, close
<1>3. CASE connectServer BY <1>3 DEF connectServer, At1
<1>4. CASE isConnectSucc1 BY <1>4 DEF isConnectSucc1, At1
<1>5. CASE closeFailed BY <1>5 DEF closeFailed, At1, close
<1>6. CASE getMsg
    <2>1. CASE pc' = "getMsg" /\ kept /\ UNCHANGED shown BY <1>6, <2>1 DEF getMsg, At1
    <2>2. CASE pc' = "done" /\ close(fd) /\ UNCHANGED shown BY <1>6, <2>2 DEF getMsg, At1, close
    <2>3. CASE pc' = "done" /\ kept BY <1>6, <2>3 DEF getMsg, At1
    <2> QED BY <1>6, <2>1, <2>2, <2>3 DEF getMsg, recvData
<1>7. CASE Return1 BY <1>7 DEF Return1, At1, close
<1> QED BY <1>1, <1>2, <1>3, <1>4, <1>5, <1>6, <1>7 DEF V1Step

\* Version 2.
LEMMA V2Desc ==
    ASSUME DescInv, V2Step PROVE DescInv'
<1> USE DEF DescInv, DescriptorsOwned, Holding, HasNone, Programs, goto, kept
<1>1. CASE ReadConfig BY <1>1 DEF ReadConfig, At2
<1>2. CASE Construct
    BY <1>2 DEF Construct, At2, createNonblockingOrDie, socketOk, socketFails, lowestFree, Fatal
<1>3. CASE AsyncConnect BY <1>3 DEF AsyncConnect, At2, afterConnect
<1>4. CASE isConnectSucc BY <1>4 DEF isConnectSucc, At2
<1>5. CASE CheckReceivedData BY <1>5 DEF CheckReceivedData, At2, closeFd, close, Fatal
<1>6. CASE RecvData BY <1>6 DEF RecvData, At2, onReceived
<1>7. CASE Return2 BY <1>7 DEF Return2, At2, closeFd, close, Fatal
<1> QED BY <1>1, <1>2, <1>3, <1>4, <1>5, <1>6, <1>7 DEF V2Step

\* The threaded client: its variable names its socket in every state, since Close resets it.
LEMMA YxsDesc ==
    ASSUME DescInv, YxsStep /\ UNCHANGED v2vars PROVE DescInv'
<1> USE DEF DescInv, DescriptorsOwned, Holding, HasNone, Programs, goto, kept
<1>1. CASE Start_TCP BY <1>1 DEF Start_TCP, AtY, joinUnset
<1>2. CASE Initsocket BY <1>2 DEF Initsocket, AtY, initialised, lowestFree, INVALID_SOCKET
<1>3. CASE ConnectInits BY <1>3 DEF ConnectInits, AtY, INVALID_SOCKET, socketOk, socketFails, lowestFree
<1>4. CASE Connect BY <1>4 DEF Connect, AtY
<1>5. CASE Connected BY <1>5 DEF Connected, AtY
<1>6. CASE Close BY <1>6 DEF Close, AtY, INVALID_SOCKET, close
<1>7. CASE handlerMsg_TCP BY <1>7 DEF handlerMsg_TCP, AtY, afterHandler, result
<1>8. CASE DataRw BY <1>8 DEF DataRw, AtY
<1> QED BY <1>1, <1>2, <1>3, <1>4, <1>5, <1>6, <1>7, <1>8 DEF YxsStep

\* The clients of yxstest/.
LEMMA TestsDesc ==
    ASSUME DescInv, TestsStep /\ UNCHANGED v2vars PROVE DescInv'
<1> USE DEF DescInv, DescriptorsOwned, Holding, HasNone, Programs, goto, kept
<1>1. CASE unblock_connect BY <1>1 DEF unblock_connect, AtT, socketOk, socketFails, lowestFree
<1>2. CASE waitConnected BY <1>2 DEF waitConnected, AtT
<1>3. CASE closeUnconnected BY <1>3 DEF closeUnconnected, AtT, close
<1>4. CASE sendAfterShutdown BY <1>4 DEF sendAfterShutdown, AtT
<1>5. CASE connectOrExit BY <1>5 DEF connectOrExit, AtTV, socketOk, socketFails, lowestFree
<1>6. CASE loop BY <1>6 DEF loop, AtTV
<1>7. CASE break BY <1>7 DEF break, AtTV, close
<1> QED BY <1>1, <1>2, <1>3, <1>4, <1>5, <1>6, <1>7 DEF TestsStep

\* The server and the network touch no descriptor.
LEMMA NetworkDesc ==
    ASSUME DescInv, Network PROVE DescInv'
BY DEF Network, DescInv, DescriptorsOwned, Holding, HasNone

\* The invariant holds in every reachable state.
LEMMA DescInvariance == Spec => []DescInv
<1>1. Init => DescInv
    BY DEF Init, DescInv, DescriptorsOwned, Holding, HasNone, Programs
<1>2. DescInv /\ [Next]_vars => DescInv'
    <2> SUFFICES ASSUME DescInv, [Next]_vars PROVE DescInv' OBVIOUS
    <2>1. CASE Next
        BY <2>1, V1Desc, V2Desc, YxsDesc, TestsDesc, NetworkDesc DEF Next, ClientStep, NetworkStep
    <2>2. CASE UNCHANGED vars
        BY <2>2 DEF vars, svars, DescInv, DescriptorsOwned, Holding, HasNone
    <2> QED BY <2>1, <2>2
<1> QED BY <1>1, <1>2, PTL DEF Spec

\* No client loses a descriptor or closes one twice, but where the property says so,
\* whichever calls fail and however often the threaded client connects again.
THEOREM DescriptorsCorrect == Spec => []DescriptorsOwned
<1>1. DescInv => DescriptorsOwned BY DEF DescInv
<1> QED BY <1>1, DescInvariance, PTL

(***************************************************************************)
(* DecodePackage.                                                          *)
(***************************************************************************)
Decoded(C) == [list : Seq(Seq(C)), rest : Seq(C)]
NoneYet == [list |-> <<>>, rest |-> <<>>]

\* The loop after each character of b, and the equation that DecodePackage solves.
Cuts(f, b, C) ==
    /\ f \in [0 .. Len(b) -> Decoded(C)]
    /\ f[0] = NoneYet
    /\ \A n \in 1 .. Len(b) : f[n] = cut(f[n - 1], b[n])

decodes(g, b) ==
    g = [n \in 0 .. Len(b) |-> IF n = 0 THEN [list |-> <<>>, rest |-> <<>>]
                               ELSE cut(g[n - 1], b[n])]

\* What cut returns.
LEMMA CutType ==
    ASSUME NEW C, NEW d \in Decoded(C), NEW c \in C
    PROVE  cut(d, c) \in Decoded(C)
<1>1. d.list \in Seq(Seq(C)) /\ d.rest \in Seq(C) BY DEF Decoded
<1>2. Append(d.list, d.rest) \in Seq(Seq(C)) /\ Append(d.rest, c) \in Seq(C) /\ <<>> \in Seq(C)
    BY <1>1, AppendProperties, EmptySeq
<1> QED BY <1>2 DEF cut, Decoded

\* The loop runs.
LEMMA CutsExist ==
    ASSUME NEW C, NEW b \in Seq(C)
    PROVE  \E f : Cuts(f, b, C)
<1>. DEFINE D == Decoded(C)
            step == [p \in D \X (1 .. Len(b)) |-> cut(p[1], b[p[2]])]
<1>1. Len(b) \in Nat /\ \A n \in 1 .. Len(b) : b[n] \in C
    BY LenProperties, ElementOfSeq
<1>2. NoneYet \in D
    <2>1. <<>> \in Seq(C) /\ <<>> \in Seq(Seq(C)) BY EmptySeq
    <2> QED BY <2>1 DEF NoneYet, Decoded
<1>3. step \in [D \X (1 .. Len(b)) -> D]
    <2>1. ASSUME NEW p \in D \X (1 .. Len(b)) PROVE cut(p[1], b[p[2]]) \in D
        <3>1. p[1] \in D /\ b[p[2]] \in C BY <1>1
        <3> QED BY <3>1, CutType
    <2> HIDE DEF D
    <2> QED BY <2>1
<1>4. \A d \in D, n \in 1 .. Len(b) : step[<<d, n>>] = cut(d, b[n]) OBVIOUS
<1> HIDE DEF D, step
<1>5. PICK f \in [0 .. Len(b) -> D] : Rounds(f, NoneYet, step, Len(b))
    BY <1>1, <1>2, <1>3, RoundsExist
<1>6. ASSUME NEW n \in 1 .. Len(b) PROVE f[n] = cut(f[n - 1], b[n])
    <2>1. n - 1 \in 0 .. Len(b) BY <1>1
    <2> QED BY <1>4, <1>5, <2>1 DEF Rounds
<1> QED BY <1>5, <1>6 DEF Cuts, Rounds, D

\* What is there after the last character is what DecodePackage returns.
LEMMA DecodeIsLastCut ==
    ASSUME NEW C, NEW b \in Seq(C), NEW f, Cuts(f, b, C)
    PROVE  DecodePackage(b) = f[Len(b)]
<1>. DEFINE g == CHOOSE g : decodes(g, b)
            P == {n \in 0 .. Len(b) : g[n] = f[n]}
<1>1. Len(b) \in Nat BY LenProperties
<1>2. decodes(f, b)
    <2>1. ASSUME NEW n \in 0 .. Len(b)
          PROVE  f[n] = IF n = 0 THEN NoneYet ELSE cut(f[n - 1], b[n])
        <3>1. n = 0 \/ n \in 1 .. Len(b) BY <1>1
        <3> QED BY <3>1 DEF Cuts
    <2>2. DOMAIN f = 0 .. Len(b) /\ f = [n \in DOMAIN f |-> f[n]] BY DEF Cuts
    <2> QED BY <2>1, <2>2 DEF decodes, NoneYet
<1>3. decodes(g, b) BY <1>2
<1>4. DecodePackage(b) = g[Len(b)] BY DEF DecodePackage, decodes
<1> HIDE DEF g
<1>5. \A n \in 0 .. Len(b) : g[n] = IF n = 0 THEN NoneYet ELSE cut(g[n - 1], b[n])
    BY <1>3 DEF decodes, NoneYet
<1>6. 0 \in P BY <1>1, <1>5 DEF Cuts
<1>7. ASSUME NEW n \in 0 .. Len(b), n \in P, n # Len(b) PROVE n + 1 \in P
    <2>1. n + 1 \in 1 .. Len(b) /\ n + 1 \in 0 .. Len(b) /\ n + 1 # 0 /\ (n + 1) - 1 = n
        BY <1>1, <1>7
    <2>2. g[n + 1] = cut(g[n], b[n + 1]) BY <1>5, <2>1
    <2>3. f[n + 1] = cut(f[n], b[n + 1]) BY <2>1 DEF Cuts
    <2> QED BY <1>7, <2>1, <2>2, <2>3
<1>8. Len(b) \in P
    <2> HIDE DEF P
    <2>1. \A n \in 0 .. Len(b) : n \in P BY <1>1, <1>6, <1>7, EveryRound
    <2> QED BY <1>1, <2>1
<1> QED BY <1>4, <1>8

\* The packages of a list with the newlines that ended them, and where b has newlines.
lines(list) == [i \in DOMAIN list |-> Append(list[i], "n")]
newlines(b, k) == {i \in 1 .. k : b[i] = "n"}

\* One more package is one more line.
LEMMA LinesGrow ==
    ASSUME NEW C, "n" \in C, NEW l \in Seq(Seq(C)), NEW x \in Seq(C)
    PROVE  /\ lines(l) \in Seq(Seq(C)) /\ Append(x, "n") \in Seq(C)
           /\ lines(Append(l, x)) = Append(lines(l), Append(x, "n"))
<1>. DEFINE m == Append(l, x)
            k == Append(lines(l), Append(x, "n"))
<1>1. /\ Len(l) \in Nat /\ DOMAIN l = 1 .. Len(l)
      /\ \A i \in 1 .. Len(l) : Append(l[i], "n") \in Seq(C)
      /\ Append(x, "n") \in Seq(C)
    <2>1. ASSUME NEW i \in 1 .. Len(l) PROVE Append(l[i], "n") \in Seq(C)
        <3>1. l[i] \in Seq(C) BY ElementOfSeq
        <3> QED BY <3>1, AppendProperties
    <2>2. Append(x, "n") \in Seq(C) BY AppendProperties
    <2>3. Len(l) \in Nat /\ DOMAIN l = 1 .. Len(l) BY LenProperties
    <2> QED BY <2>1, <2>2, <2>3
<1>2. lines(l) \in Seq(Seq(C)) /\ Len(lines(l)) = Len(l)
    <2>1. lines(l) \in [1 .. Len(l) -> Seq(C)] BY <1>1 DEF lines
    <2> QED BY <1>1, <2>1, FunctionIsSeq
<1>3. /\ m \in Seq(Seq(C)) /\ Len(m) = Len(l) + 1 /\ DOMAIN m = 1 .. Len(l) + 1
      /\ \A i \in 1 .. Len(l) : m[i] = l[i]
      /\ m[Len(l) + 1] = x
    BY AppendProperties, LenProperties
<1>4. /\ k \in Seq(Seq(C)) /\ Len(k) = Len(l) + 1 /\ DOMAIN k = 1 .. Len(l) + 1
      /\ \A i \in 1 .. Len(l) : k[i] = lines(l)[i]
      /\ k[Len(l) + 1] = Append(x, "n")
    BY <1>1, <1>2, AppendProperties, LenProperties
<1> HIDE DEF m, k
<1>5. ASSUME NEW i \in 1 .. Len(l) + 1 PROVE k[i] = Append(m[i], "n")
    <2>1. CASE i = Len(l) + 1 BY <1>3, <1>4, <2>1
    <2>2. CASE i # Len(l) + 1
        <3>1. i \in 1 .. Len(l) BY <1>1, <2>2
        <3>2. lines(l)[i] = Append(l[i], "n") BY <1>1, <3>1 DEF lines
        <3> QED BY <1>3, <1>4, <3>1, <3>2
    <2> QED BY <2>1, <2>2
<1>6. k = lines(m)
    <2>1. k = [i \in 1 .. Len(l) + 1 |-> k[i]] BY <1>4, LenProperties
    <2> QED BY <1>3, <1>5, <2>1 DEF lines
<1> QED BY <1>1, <1>2, <1>6 DEF k, m

\* What DecodePackage has made of the first n characters of b.
Split(d, b, n) ==
    /\ FlattenSeq(lines(d.list)) \o d.rest = SubSeq(b, 1, n)
    /\ \A i \in 1 .. Len(d.rest) : d.rest[i] # "n"
    /\ Len(d.list) = Cardinality(newlines(b, n))

\* One more character keeps it so.
LEMMA SplitNext ==
    ASSUME NEW C, "n" \in C, NEW b \in Seq(C), NEW n \in 0 .. Len(b), n # Len(b),
           NEW d \in Decoded(C), Split(d, b, n)
    PROVE  Split(cut(d, b[n + 1]), b, n + 1)
<1>. DEFINE c == b[n + 1]
            said == FlattenSeq(lines(d.list))
            list == d.list
            rest == d.rest
<1>1. Len(b) \in Nat /\ n \in Nat /\ n + 1 \in 1 .. Len(b) BY LenProperties
<1>2. c \in C BY <1>1, ElementOfSeq
<1>3. list \in Seq(Seq(C)) /\ rest \in Seq(C) BY DEF Decoded
<1>4. said \o rest = SubSeq(b, 1, n) BY DEF Split
<1> HIDE DEF rest, list
<1>5. lines(list) \in Seq(Seq(C)) BY <1>3, LinesGrow
<1>6. said \in Seq(C) BY <1>3, <1>5, FlattenGrows DEF list
<1>7. SubSeq(b, 1, n + 1) = SubSeq(b, 1, n) \o <<c>>
    <2>1. 1 \in 1 .. Len(b) /\ n + 1 \in 1 .. Len(b) /\ (n + 1) - 1 = n BY <1>1
    <2> QED BY <1>1, <2>1, SubSeqRecursiveSecond
<1> HIDE DEF said
<1>8. SubSeq(b, 1, n + 1) = said \o Append(rest, c)
    <2> HIDE DEF c
    <2>1. said \o Append(rest, c) = (said \o rest) \o <<c>> BY <1>2, <1>3, <1>6, ConcatThenOne
    <2> QED BY <1>4, <1>7, <2>1
<1>10. IsFiniteSet(newlines(b, n)) /\ n + 1 \notin newlines(b, n)
    <2>1. IsFiniteSet(1 .. n) BY <1>1, FS_Interval
    <2>2. newlines(b, n) \subseteq 1 .. n BY DEF newlines
    <2>3. n + 1 \notin 1 .. n BY <1>1
    <2> QED BY <2>1, <2>2, <2>3, FS_Subset
<1>11. CASE c = "n"
    <2>1. cut(d, c) = [list |-> Append(list, rest), rest |-> <<>>]
        BY <1>11 DEF cut, list, rest
    <2>2. lines(Append(list, rest)) = Append(lines(list), Append(rest, c))
        BY <1>3, <1>11, LinesGrow
    <2>3. Append(rest, c) \in Seq(C) BY <1>2, <1>3, AppendProperties
    <2>4. FlattenSeq(lines(Append(list, rest))) = said \o Append(rest, c)
        BY <1>5, <2>2, <2>3, FlattenGrows DEF said, list
    <2>5. said \o Append(rest, c) \in Seq(C) BY <1>6, <2>3, ConcatProperties
    <2>6. FlattenSeq(lines(Append(list, rest))) \o <<>> = SubSeq(b, 1, n + 1)
        BY <1>8, <2>4, <2>5, ConcatEmptySeq
    <2>7. newlines(b, n + 1) = newlines(b, n) \cup {n + 1} BY <1>1, <1>11 DEF newlines
    <2>8. Cardinality(newlines(b, n + 1)) = Cardinality(newlines(b, n)) + 1
        BY <1>10, <2>7, FS_AddElement
    <2>9. Len(Append(list, rest)) = Len(list) + 1 BY <1>3, AppendProperties
    <2>10. Len(list) = Cardinality(newlines(b, n)) BY DEF Split, list
    <2>11. Len(<<>>) = 0 OBVIOUS
    <2> QED BY <2>1, <2>6, <2>8, <2>9, <2>10, <2>11 DEF Split
<1>12. CASE c # "n"
    <2>1. cut(d, c).list = list /\ cut(d, c).rest = Append(rest, c)
        BY <1>12 DEF cut, Decoded, list, rest
    <2>2. newlines(b, n + 1) = newlines(b, n) BY <1>1, <1>12 DEF newlines
    <2>3. ASSUME NEW i \in 1 .. Len(Append(rest, c)) PROVE Append(rest, c)[i] # "n"
        <3>1. Len(rest) \in Nat BY <1>3, LenProperties
        <3>2. /\ Len(Append(rest, c)) = Len(rest) + 1
              /\ \A j \in 1 .. Len(rest) : Append(rest, c)[j] = rest[j]
              /\ Append(rest, c)[Len(rest) + 1] = c
            BY <1>2, <1>3, AppendProperties
        <3>3. \A k \in Nat : \A j \in 1 .. k + 1 : j \in 1 .. k \/ j = k + 1 OBVIOUS
        <3>4. i \in 1 .. Len(rest) \/ i = Len(rest) + 1 BY <3>1, <3>2, <3>3
        <3>5. \A j \in 1 .. Len(rest) : rest[j] # "n" BY DEF Split, rest
        <3> HIDE DEF c
        <3> QED BY <1>12, <3>2, <3>4, <3>5
    <2>4. Len(list) = Cardinality(newlines(b, n)) BY DEF Split, list
    <2>5. FlattenSeq(lines(list)) \o Append(rest, c) = SubSeq(b, 1, n + 1)
        BY <1>8 DEF said, list
    <2> QED BY <2>1, <2>2, <2>3, <2>4, <2>5 DEF Split
<1> QED BY <1>11, <1>12

\* DecodePackage loses nothing: its packages, each with its newline, and what it keeps
\* make up what it was given; what it keeps has no newline, and there are as many packages
\* as newlines.
LEMMA DecodeSplits ==
    ASSUME NEW C, "n" \in C, NEW b \in Seq(C)
    PROVE  DecodePackage(b) \in Decoded(C) /\ Split(DecodePackage(b), b, Len(b))
<1>1. PICK f : Cuts(f, b, C) BY CutsExist
<1>2. Len(b) \in Nat BY LenProperties
<1>. DEFINE P == {n \in 0 .. Len(b) : Split(f[n], b, n)}
<1>3. 0 \in P
    <2>1. f[0].list = <<>> /\ f[0].rest = <<>> BY <1>1 DEF Cuts, NoneYet
    <2>2. lines(<<>>) = <<>> BY DEF lines
    <2>3. FlattenSeq(lines(f[0].list)) \o f[0].rest = <<>> \o <<>>
        BY <2>1, <2>2, FlattenEmpty
    <2>4. <<>> \o <<>> = <<>> /\ SubSeq(b, 1, 0) = <<>> BY EmptySeq, ConcatEmptySeq, SubSeqEmpty
    <2>5. newlines(b, 0) = {} BY DEF newlines
    <2>6. Cardinality({}) = 0 BY FS_EmptySet
    <2>7. FlattenSeq(lines(f[0].list)) \o f[0].rest = SubSeq(b, 1, 0) BY <2>3, <2>4, Zenon
    <2>8. Len(f[0].rest) = 0 /\ Len(f[0].list) = Cardinality(newlines(b, 0))
        BY <2>1, <2>5, <2>6
    <2>9. Split(f[0], b, 0) BY <2>7, <2>8 DEF Split
    <2> QED BY <1>2, <2>9
<1>4. ASSUME NEW n \in 0 .. Len(b), n \in P, n # Len(b) PROVE n + 1 \in P
    <2>1. n + 1 \in 1 .. Len(b) /\ n + 1 \in 0 .. Len(b) /\ (n + 1) - 1 = n BY <1>2, <1>4
    <2>2. f[n] \in Decoded(C) /\ f[n + 1] = cut(f[n], b[n + 1]) BY <1>1, <2>1 DEF Cuts
    <2> QED BY <1>4, <2>1, <2>2, SplitNext
<1>5. Len(b) \in P
    <2> HIDE DEF P
    <2>1. \A n \in 0 .. Len(b) : n \in P BY <1>2, <1>3, <1>4, EveryRound
    <2> QED BY <1>2, <2>1
<1>6. f[Len(b)] \in Decoded(C) BY <1>1, <1>2 DEF Cuts
<1> QED BY <1>1, <1>5, <1>6, DecodeIsLastCut

(***************************************************************************)
(* The types.                                                              *)
(***************************************************************************)
Said == {"a", "b", "n"}
Text == {"a", "b", "n", "0", "?"}

\* Where a client has received nothing: the counts of a socket start anew only there.
Silent ==
    \/ program = "yxstest" \/ pc = "start"
    \/ program = "yxs" /\ pc # "prints"
    \/ program = "version1" /\ pc \in {"nonblock", "connect", "check", "failed", "getMsg"}
    \/ program = "version2" /\ pc \in {"configured", "connect", "check", "poll", "recv"}

TypeInv ==
    /\ TypeOK
    /\ Silent => shown = <<>> /\ sk.read = 0 /\ m_buf = <<>>
    /\ m_buf \in Seq(Text)
    /\ Len(shown) <= sk.read

\* The part of the types that the calls of the socket change.
Sockets == [link : Link, err : BOOLEAN, sent : 0 .. Len(Stream), read : 0 .. Len(Stream)]
SocketOK == sk \in Sockets /\ sk.read <= sk.sent /\ faults \in 0 .. MaxFaults

\* What is assumed of the server's text and of the bounds.
LEMMA StreamFacts ==
    /\ Stream \in Seq(Said) /\ Len(Stream) \in Nat
    /\ MaxFaults \in Nat /\ BufSize \in Nat /\ BufSize >= 1
BY SocketAssumption, LenProperties DEF SocketAssumption, Said

\* What the assignments to the fields of the socket leave of its type.
LEMMA SocketSet ==
    ASSUME sk \in Sockets
    PROVE  /\ sk.link \in Link /\ sk.err \in BOOLEAN
           /\ sk.sent \in 0 .. Len(Stream) /\ sk.read \in 0 .. Len(Stream)
           /\ sk.sent \in Nat /\ sk.read \in Nat
           /\ \A l \in Link : /\ [sk EXCEPT !.link = l] \in Sockets
                              /\ [sk EXCEPT !.link = l].read = sk.read
                              /\ [sk EXCEPT !.link = l].sent = sk.sent
           /\ \A l \in Link, e \in BOOLEAN :
                    /\ [sk EXCEPT !.link = l, !.err = e] \in Sockets
                    /\ [sk EXCEPT !.link = l, !.err = e].read = sk.read
                    /\ [sk EXCEPT !.link = l, !.err = e].sent = sk.sent
           /\ \A e \in BOOLEAN : /\ [sk EXCEPT !.err = e] \in Sockets
                                 /\ [sk EXCEPT !.err = e].read = sk.read
                                 /\ [sk EXCEPT !.err = e].sent = sk.sent
           /\ \A n \in 0 .. Len(Stream) :
                    /\ [sk EXCEPT !.sent = n] \in Sockets
                    /\ [sk EXCEPT !.sent = n].read = sk.read
                    /\ [sk EXCEPT !.sent = n].sent = n
           /\ \A n \in 0 .. Len(Stream) :
                    /\ [sk EXCEPT !.read = n] \in Sockets
                    /\ [sk EXCEPT !.read = n].read = n
                    /\ [sk EXCEPT !.read = n].sent = sk.sent
<1>1. /\ sk.link \in Link /\ sk.err \in BOOLEAN
      /\ sk.sent \in 0 .. Len(Stream) /\ sk.read \in 0 .. Len(Stream)
    BY DEF Sockets
<1>2. sk.sent \in Nat /\ sk.read \in Nat BY <1>1, StreamFacts
<1>3. ASSUME NEW l \in Link
      PROVE  /\ [sk EXCEPT !.link = l] \in Sockets
             /\ [sk EXCEPT !.link = l].read = sk.read
             /\ [sk EXCEPT !.link = l].sent = sk.sent
    BY DEF Sockets
<1>4. ASSUME NEW l \in Link, NEW e \in BOOLEAN
      PROVE  /\ [sk EXCEPT !.link = l, !.err = e] \in Sockets
             /\ [sk EXCEPT !.link = l, !.err = e].read = sk.read
             /\ [sk EXCEPT !.link = l, !.err = e].sent = sk.sent
    BY DEF Sockets
<1>5. ASSUME NEW e \in BOOLEAN
      PROVE  /\ [sk EXCEPT !.err = e] \in Sockets
             /\ [sk EXCEPT !.err = e].read = sk.read
             /\ [sk EXCEPT !.err = e].sent = sk.sent
    BY DEF Sockets
<1>6. ASSUME NEW n \in 0 .. Len(Stream)
      PROVE  /\ [sk EXCEPT !.sent = n] \in Sockets
             /\ [sk EXCEPT !.sent = n].read = sk.read
             /\ [sk EXCEPT !.sent = n].sent = n
             /\ [sk EXCEPT !.read = n] \in Sockets
             /\ [sk EXCEPT !.read = n].read = n
             /\ [sk EXCEPT !.read = n].sent = sk.sent
    BY DEF Sockets
<1> QED BY <1>1, <1>2, <1>3, <1>4, <1>5, <1>6

\* connect, select, the pending error and close leave the counts alone.
LEMMA CallsKeepCounts ==
    ASSUME SocketOK
    PROVE  /\ \A r : connect(r) => SocketOK' /\ sk'.read = sk.read
           /\ \A ready, r : select(ready, r) /\ sk' = sk => SocketOK'
           /\ \A e : socketError(e) => SocketOK' /\ sk'.read = sk.read
           /\ \A s : close(s) /\ (Fault \/ NoFault) => SocketOK' /\ sk'.read = sk.read
           /\ (Fault \/ NoFault) /\ sk' = sk => SocketOK'
<1>1. Fault \/ NoFault => faults' \in 0 .. MaxFaults
    BY StreamFacts DEF SocketOK, Fault, NoFault
<1>2. /\ {"none", "new", "syn", "up", "over"} = Link /\ FALSE \in BOOLEAN
      /\ sk \in Sockets /\ sk.read <= sk.sent
    BY DEF Link, SocketOK
<1>3. ASSUME NEW r, connect(r) PROVE SocketOK' /\ sk'.read = sk.read
    <2>1. Fault \/ NoFault BY <1>3 DEF connect
    <2>2. \/ UNCHANGED sk \/ sk' = [sk EXCEPT !.err = FALSE]
          \/ \E l \in Link : sk' = [sk EXCEPT !.link = l]
        BY <1>2, <1>3 DEF connect
    <2>3. sk' \in Sockets /\ sk'.read = sk.read /\ sk'.sent = sk.sent
        <3>1. CASE UNCHANGED sk BY <1>2, <3>1
        <3>2. CASE sk' = [sk EXCEPT !.err = FALSE]
            <4>1. /\ [sk EXCEPT !.err = FALSE] \in Sockets
                  /\ [sk EXCEPT !.err = FALSE].read = sk.read
                  /\ [sk EXCEPT !.err = FALSE].sent = sk.sent
                BY <1>2, SocketSet
            <4> QED BY <3>2, <4>1
        <3>3. CASE \E l \in Link : sk' = [sk EXCEPT !.link = l]
            <4>1. PICK l \in Link : sk' = [sk EXCEPT !.link = l] BY <3>3
            <4>2. /\ [sk EXCEPT !.link = l] \in Sockets
                  /\ [sk EXCEPT !.link = l].read = sk.read
                  /\ [sk EXCEPT !.link = l].sent = sk.sent
                BY <1>2, SocketSet
            <4> QED BY <4>1, <4>2
        <3> QED BY <2>2, <3>1, <3>2, <3>3
    <2> QED BY <1>1, <1>2, <2>1, <2>3 DEF SocketOK
<1>4. ASSUME NEW ready, NEW r, select(ready, r), sk' = sk PROVE SocketOK'
    BY <1>1, <1>4 DEF select, SocketOK
<1>5. ASSUME NEW e, socketError(e) PROVE SocketOK' /\ sk'.read = sk.read
    BY <1>1, <1>2, <1>5, SocketSet DEF socketError, SocketOK
<1>6. ASSUME NEW s, close(s), Fault \/ NoFault PROVE SocketOK' /\ sk'.read = sk.read
    BY <1>1, <1>2, <1>6, SocketSet DEF close, SocketOK
<1>7. (Fault \/ NoFault) /\ sk' = sk => SocketOK' BY <1>1 DEF SocketOK
<1> QED BY <1>3, <1>4, <1>5, <1>6, <1>7

\* socket() starts a count.
LEMMA NewSocketCounts ==
    ASSUME SocketOK, socketOk \/ socketFails
    PROVE  SocketOK' /\ sk'.read \in {0, sk.read} /\ fd' \in {-1, 0, 3}
<1>1. Fault \/ NoFault => faults' \in 0 .. MaxFaults
    BY StreamFacts DEF SocketOK, Fault, NoFault
<1>2. CASE socketOk
    <2>1. Fresh \in Sockets /\ Fresh.read = 0 /\ Fresh.sent = 0
        BY StreamFacts DEF Fresh, Sockets, Link
    <2> QED BY <1>1, <1>2, <2>1 DEF socketOk, SocketOK, lowestFree
<1>3. CASE socketFails BY <1>1, <1>3 DEF socketFails, SocketOK
<1> QED BY <1>2, <1>3

\* recv() hands over the next characters and counts them, or counts nothing.
LEMMA RecvCounts ==
    ASSUME SocketOK, NEW n \in Int, NEW size, NEW blocking, recv(n, size, blocking)
    PROVE  /\ SocketOK'
           /\ n <= 0 => sk'.read = sk.read
           /\ n > 0 => /\ sk'.read = sk.read + n /\ sk.read + n <= Len(Stream)
                       /\ chunk(n) \in Seq(Said) /\ Len(chunk(n)) = n
                       /\ chunk(n) = SubSeq(Stream, sk.read + 1, sk'.read)
<1>1. Fault \/ NoFault => faults' \in 0 .. MaxFaults
    BY StreamFacts DEF SocketOK, Fault, NoFault
<1>2. sk \in Sockets /\ sk.read <= sk.sent /\ FALSE \in BOOLEAN BY DEF SocketOK
<1>3. sk.sent \in Nat /\ sk.read \in Nat /\ sk.sent \in 0 .. Len(Stream) /\ Len(Stream) \in Nat
    BY <1>2, SocketSet, StreamFacts
<1>4. CASE /\ n > 0 /\ n = least(size, sk.sent - sk.read)
           /\ sk' = [sk EXCEPT !.read = @ + n] /\ NoFault
    <2>. DEFINE l == sk.read + 1
                h == sk.read + n
    <2>1. h <= sk.sent /\ h <= Len(Stream) /\ h \in 0 .. Len(Stream)
        <3>1. n <= sk.sent - sk.read BY <1>4, <1>3 DEF least
        <3> QED BY <1>4, <1>3, <3>1
    <2>2. sk' = [sk EXCEPT !.read = h] BY <1>4
    <2>3. l \in Int /\ h \in Int /\ l <= h /\ h - l + 1 = n /\ l \in 1 .. Len(Stream)
        BY <1>3, <1>4, <2>1
    <2>4. chunk(n) = SubSeq(Stream, l, h) BY DEF chunk
    <2> HIDE DEF l, h
    <2>5. sk' \in Sockets /\ sk'.read = h /\ sk'.sent = sk.sent
        BY <1>2, <2>1, <2>2, SocketSet
    <2>6. SocketOK' BY <1>1, <1>4, <2>1, <2>5 DEF SocketOK
    <2>7. \A i \in l .. h : Stream[i] \in Said
        <3>1. \A i \in l .. h : i \in 1 .. Len(Stream) BY <1>3, <2>1, <2>3
        <3> QED BY <3>1, StreamFacts, ElementOfSeq
    <2>8. SubSeq(Stream, l, h) \in Seq(Said) /\ Len(SubSeq(Stream, l, h)) = n
        BY <2>3, <2>7, SubSeqProperties
    <2>9. chunk(n) \in Seq(Said) /\ Len(chunk(n)) = n /\ chunk(n) = SubSeq(Stream, l, sk'.read)
        BY <2>4, <2>5, <2>8
    <2>10. n > 0 /\ ~(n <= 0) BY <1>4
    <2> QED BY <2>1, <2>5, <2>6, <2>9, <2>10 DEF l, h
<1>5. CASE ~(n > 0)
    <2>1. Fault \/ NoFault BY <1>5 DEF recv
    <2>2. UNCHANGED sk \/ sk' = [sk EXCEPT !.err = FALSE] BY <1>5 DEF recv
    <2> QED BY <1>1, <1>2, <1>5, <2>1, <2>2, SocketSet DEF SocketOK
<1> QED BY <1>4, <1>5 DEF recv

\* The part that the calls leave alone.
Plain ==
    /\ stdin \in BOOLEAN /\ twice \in BOOLEAN /\ fd \in {-1, 0, 3} /\ open \subseteq {0, 3}
    /\ program \in Programs
    /\ program = "yxs" =>
          pc \in (clentmgr_st \ {"EXIT"}) \cup {"start", "connecting", "failed", "prints"} \cup Ended
    /\ target.port \in {0, 20000}
    /\ file \in Files \cup {<<>>}

\* What was received, and what came of it.
Texts ==
    /\ shown \in Seq(Seq(Text)) /\ Len(shown) <= sk.read
    /\ m_buf \in Seq(Text) /\ Len(m_buf) <= BufSize
    /\ Silent => shown = <<>> /\ sk.read = 0 /\ m_buf = <<>>

\* The invariant, by its parts.
LEMMA Parts == TypeInv <=> Plain /\ SocketOK /\ Texts
<1>1. ASSUME SocketOK, Texts PROVE Len(shown) <= Len(Stream)
    <2>1. sk.read \in 0 .. Len(Stream) BY <1>1, SocketSet DEF SocketOK
    <2>2. Len(shown) \in Nat BY <1>1, LenProperties DEF Texts
    <2> QED BY <1>1, <2>1, <2>2, StreamFacts DEF Texts
<1>2. Plain /\ SocketOK /\ Texts => TypeInv
    BY <1>1 DEF Plain, SocketOK, Sockets, Texts, TypeInv, TypeOK, SocketTypeOK, Text
<1>3. TypeInv => Plain /\ SocketOK /\ Texts
    BY DEF Plain, SocketOK, Sockets, Texts, TypeInv, TypeOK, SocketTypeOK, Text
<1> QED BY <1>2, <1>3

\* A step that receives nothing ...
Quiet ==
    /\ shown' = shown /\ m_buf' = m_buf /\ sk'.read = sk.read
    /\ Silent' => Silent

\* ... and one that receives n characters, which the client shows in its way.
News(n) ==
    /\ n > 0 /\ sk'.read = sk.read + n /\ sk.read + n <= Len(Stream)
    /\ chunk(n) \in Seq(Said) /\ Len(chunk(n)) = n
    /\ chunk(n) = SubSeq(Stream, sk.read + 1, sk'.read)

Shows(n) ==
    \/ /\ program = "version1" /\ Silent /\ n <= BufSize /\ UNCHANGED m_buf
       /\ \E s \in printed(chunk(n)) : shown' = Append(shown, s)
    \/ /\ program \in {"yxs", "yxstest_v1"} /\ UNCHANGED m_buf
       /\ shown' = Append(shown, chunk(n))
    \/ /\ program = "version2" /\ Silent /\ n <= BufSize
       /\ LET d == DecodePackage(m_buf \o padded(chunk(n)))
          IN  shown' = shown \o d.list /\ m_buf' = d.rest

Receives == \E n \in Nat : News(n) /\ Shows(n) /\ ~Silent'

\* The shape of every step.
Shape ==
    /\ Plain' /\ SocketOK' /\ program' = program
    /\ Quiet \/ Receives

\* What a call of recv gives to a step.
LEMMA RecvNews ==
    ASSUME SocketOK, NEW n \in Int, NEW size, NEW blocking, recv(n, size, blocking)
    PROVE  /\ SocketOK'
           /\ n <= 0 => sk'.read = sk.read
           /\ n > 0 => News(n)
BY RecvCounts DEF News

\* What a step of a client other than the threaded one leaves alone.
LEMMA PlainStep ==
    ASSUME Plain, program # "yxs", UNCHANGED <<program, stdin, target>>,
           twice' \in BOOLEAN, fd' \in {-1, 0, 3}, open' \subseteq {0, 3},
           file' \in Files \cup {<<>>}
    PROVE  Plain'
BY DEF Plain

\* The descriptors after the calls that change them.
LEMMA OpenStep ==
    ASSUME Plain
    PROVE  /\ twice \in BOOLEAN /\ fd \in {-1, 0, 3} /\ open \subseteq {0, 3}
           /\ file \in Files \cup {<<>>}
           /\ socketOk \/ socketFails => fd' \in {-1, 0, 3} /\ open' \subseteq {0, 3}
           /\ \A s : close(s) => open' \subseteq {0, 3} /\ twice' \in BOOLEAN
<1>1. socketOk \/ socketFails => fd' \in {-1, 0, 3} /\ open' \subseteq {0, 3}
    <2>1. open \subseteq {0, 3} BY DEF Plain
    <2>2. CASE socketOk
        <3>1. fd' \in {0, 3} /\ open' = open \cup {fd'} BY <2>2 DEF socketOk, lowestFree
        <3> QED BY <2>1, <3>1
    <2>3. CASE socketFails BY <2>1, <2>3 DEF socketFails
    <2> QED BY <2>2, <2>3
<1>2. ASSUME NEW s, close(s) PROVE open' \subseteq {0, 3} /\ twice' \in BOOLEAN
    BY <1>2 DEF Plain, close
<1>3. twice \in BOOLEAN /\ fd \in {-1, 0, 3} /\ open \subseteq {0, 3} /\ file \in Files \cup {<<>>}
    BY DEF Plain
<1> QED BY <1>1, <1>2, <1>3

\* version1.
LEMMA V1Shape ==
    ASSUME Plain, SocketOK, Texts, V1Step, UNCHANGED v2vars PROVE Shape
<1>. USE DEF goto, kept, At1
<1>0. UNCHANGED <<file, m_buf>> BY DEF v2vars
<1>8. /\ twice \in BOOLEAN /\ fd \in {-1, 0, 3} /\ open \subseteq {0, 3}
      /\ file \in Files \cup {<<>>}
      /\ socketOk \/ socketFails => fd' \in {-1, 0, 3} /\ open' \subseteq {0, 3}
      /\ \A s : close(s) => open' \subseteq {0, 3} /\ twice' \in BOOLEAN
    BY OpenStep
<1>1. CASE initSocket
    <2>1. SocketOK' /\ sk'.read = sk.read /\ fd' \in {-1, 0, 3}
        BY <1>1, NewSocketCounts DEF initSocket, Texts, Silent
    <2>2. Plain' BY <1>0, <1>1, <1>8, PlainStep DEF initSocket
    <2> QED BY <1>0, <1>1, <2>1, <2>2 DEF Shape, Quiet, Silent, initSocket
<1>2. CASE setNonblock
    <2>1. SocketOK' /\ sk'.read = sk.read BY <1>2, CallsKeepCounts DEF setNonblock
    <2>2. Plain' BY <1>0, <1>2, <1>8, PlainStep DEF setNonblock
    <2> QED BY <1>0, <1>2, <2>1, <2>2 DEF Shape, Quiet, Silent, setNonblock
<1>3. CASE connectServer
    <2>1. SocketOK' /\ sk'.read = sk.read BY <1>3, CallsKeepCounts DEF connectServer
    <2>2. Plain' BY <1>0, <1>3, <1>8, PlainStep DEF connectServer
    <2> QED BY <1>0, <1>3, <2>1, <2>2 DEF Shape, Quiet, Silent, connectServer
<1>4. CASE isConnectSucc1
    <2>1. SocketOK' /\ sk'.read = sk.read BY <1>4, CallsKeepCounts DEF isConnectSucc1
    <2>2. Plain' BY <1>0, <1>4, <1>8, PlainStep DEF isConnectSucc1
    <2> QED BY <1>0, <1>4, <2>1, <2>2 DEF Shape, Quiet, Silent, isConnectSucc1
<1>5. CASE closeFailed
    <2>1. SocketOK' /\ sk'.read = sk.read BY <1>5, CallsKeepCounts DEF closeFailed
    <2>2. Plain' BY <1>0, <1>5, <1>8, PlainStep DEF closeFailed
    <2> QED BY <1>0, <1>5, <2>1, <2>2 DEF Shape, Quiet, Silent, closeFailed
<1>6. CASE getMsg
    <2>1. CASE select(readable, "timeout") /\ pc' = "getMsg" /\ kept /\ UNCHANGED <<sk, shown>>
        <3>1. SocketOK' BY <2>1, CallsKeepCounts
        <3>2. Plain' BY <1>0, <1>6, <1>8, <2>1, PlainStep DEF getMsg
        <3> QED BY <1>0, <1>6, <2>1, <3>1, <3>2 DEF Shape, Quiet, Silent, getMsg
    <2>2. CASE select(readable, "error") /\ pc' = "done" /\ close(fd) /\ UNCHANGED shown
        <3>1. SocketOK' /\ sk'.read = sk.read BY <2>2, CallsKeepCounts DEF select
        <3>2. Plain' BY <1>0, <1>6, <1>8, <2>2, PlainStep DEF getMsg
        <3> QED BY <1>0, <1>6, <2>2, <3>1, <3>2 DEF Shape, Quiet, Silent, getMsg
    <2>3. ASSUME NEW n \in -1 .. BufSize, kept, recvData(n),
                 pc' = IF n > 0 THEN "done" ELSE "getMsg"
          PROVE  Shape
        <3>1. n \in Int /\ recv(n, BufSize, FALSE)
            <4>1. BufSize \in Nat /\ recvData(n) BY <2>3, StreamFacts
            <4>2. n \in Int BY <4>1
            <4>3. recv(n, BufSize, FALSE) BY <4>1 DEF recvData
            <4> QED BY <4>2, <4>3
        <3>2. SocketOK' /\ (n <= 0 => sk'.read = sk.read) /\ (n > 0 => News(n))
            BY <3>1, RecvNews
        <3>3. Plain' BY <1>0, <1>6, <1>8, <2>3, PlainStep DEF getMsg
        <3>4. program' = program /\ program = "version1" /\ Silent BY <1>6 DEF getMsg, Silent
        <3>5. CASE n > 0
            <4>1. n \in Nat /\ n <= BufSize BY <3>5, StreamFacts
            <4>2. Shows(n) BY <1>0, <2>3, <3>4, <3>5, <4>1 DEF Shows, recvData
            <4>3. ~Silent' BY <2>3, <3>4, <3>5 DEF Silent
            <4> QED BY <3>2, <3>3, <3>4, <3>5, <4>1, <4>2, <4>3 DEF Shape, Receives
        <3>6. CASE ~(n > 0)
            <4>1. shown' = shown /\ sk'.read = sk.read BY <2>3, <3>1, <3>2, <3>6 DEF recvData
            <4> QED BY <1>0, <3>2, <3>3, <3>4, <4>1 DEF Shape, Quiet
        <3> QED BY <3>5, <3>6
    <2> QED BY <1>6, <2>1, <2>2, <2>3 DEF getMsg
<1>7. CASE Return1
    <2>1. SocketOK' /\ sk'.read = sk.read BY <1>7, CallsKeepCounts DEF Return1
    <2>2. Plain' BY <1>0, <1>7, <1>8, PlainStep DEF Return1
    <2> QED BY <1>0, <1>7, <2>1, <2>2 DEF Shape, Quiet, Silent, Return1
<1> QED BY <1>1, <1>2, <1>3, <1>4, <1>5, <1>6, <1>7 DEF V1Step
\* yxstest/.
LEMMA TestsShape ==
    ASSUME Plain, SocketOK, Texts, TestsStep, UNCHANGED v2vars PROVE Shape
<1>. USE DEF goto, kept, AtT, AtTV
<1>0. UNCHANGED <<file, m_buf>> BY DEF v2vars
<1>8. /\ twice \in BOOLEAN /\ fd \in {-1, 0, 3} /\ open \subseteq {0, 3}
      /\ file \in Files \cup {<<>>}
      /\ socketOk \/ socketFails => fd' \in {-1, 0, 3} /\ open' \subseteq {0, 3}
      /\ \A s : close(s) => open' \subseteq {0, 3} /\ twice' \in BOOLEAN
    BY OpenStep
<1>1. CASE unblock_connect
    <2>1. CASE AtT("start")
        <3>1. SocketOK' /\ sk'.read = sk.read
            BY <1>1, <2>1, NewSocketCounts DEF unblock_connect, Texts, Silent
        <3>2. (socketOk \/ socketFails) /\ UNCHANGED <<target, shown, twice, program, stdin>>
            BY <1>1, <2>1 DEF unblock_connect
        <3>3. Plain' BY <1>0, <1>8, <2>1, <3>2, PlainStep
        <3> QED BY <1>0, <2>1, <3>1, <3>2, <3>3 DEF Shape, Quiet, Silent
    <2>2. CASE AtT("connect")
        <3>1. SocketOK' /\ sk'.read = sk.read
            BY <1>1, <2>2, CallsKeepCounts DEF unblock_connect
        <3>2. kept /\ fd' \in {fd, -1} /\ UNCHANGED <<target, shown, program, stdin>>
            BY <1>1, <2>2 DEF unblock_connect
        <3>3. Plain' BY <1>0, <1>8, <2>2, <3>2, PlainStep
        <3> QED BY <1>0, <2>2, <3>1, <3>2, <3>3 DEF Shape, Quiet, Silent
    <2> QED BY <1>1, <2>1, <2>2 DEF unblock_connect
<1>2. CASE waitConnected
    <2>1. SocketOK' /\ sk'.read = sk.read
        BY <1>2, CallsKeepCounts DEF waitConnected
    <2>2. Plain' BY <1>0, <1>2, <1>8, PlainStep DEF waitConnected
    <2> QED BY <1>0, <1>2, <2>1, <2>2 DEF Shape, Quiet, Silent, waitConnected
<1>3. CASE closeUnconnected
    <2>1. SocketOK' /\ sk'.read = sk.read
        BY <1>3, CallsKeepCounts DEF closeUnconnected
    <2>2. Plain' BY <1>0, <1>3, <1>8, PlainStep DEF closeUnconnected
    <2> QED BY <1>0, <1>3, <2>1, <2>2 DEF Shape, Quiet, Silent, closeUnconnected
<1>4. CASE sendAfterShutdown
    <2>1. SocketOK' /\ sk'.read = sk.read
        BY <1>4, CallsKeepCounts DEF sendAfterShutdown
    <2>2. Plain' BY <1>0, <1>4, <1>8, PlainStep DEF sendAfterShutdown
    <2> QED BY <1>0, <1>4, <2>1, <2>2 DEF Shape, Quiet, Silent, sendAfterShutdown
<1>5. CASE connectOrExit
    <2>1. CASE AtTV("start")
        <3>1. SocketOK' /\ sk'.read = sk.read
            BY <1>5, <2>1, NewSocketCounts DEF connectOrExit, Texts, Silent
        <3>2. /\ socketOk \/ socketFails
              /\ UNCHANGED <<target, shown, twice, program, stdin>> /\ pc' # "start"
            BY <1>5, <2>1 DEF connectOrExit
        <3>3. Plain' BY <1>0, <1>8, <2>1, <3>2, PlainStep
        <3> QED BY <1>0, <2>1, <3>1, <3>2, <3>3 DEF Shape, Quiet, Silent
    <2>2. CASE AtTV("connect")
        <3>1. SocketOK' /\ sk'.read = sk.read
            BY <1>5, <2>2, CallsKeepCounts DEF connectOrExit
        <3>2. kept /\ UNCHANGED <<target, fd, shown, program, stdin>> /\ pc' # "start"
            BY <1>5, <2>2 DEF connectOrExit
        <3>3. Plain' BY <1>0, <1>8, <2>2, <3>2, PlainStep
        <3> QED BY <1>0, <2>2, <3>1, <3>2, <3>3 DEF Shape, Quiet, Silent
    <2> QED BY <1>5, <2>1, <2>2 DEF connectOrExit
<1>6. CASE loop
    <2>1. /\ program = "yxstest_v1" /\ program' = program /\ pc' \in {"loop", "break"}
          /\ UNCHANGED <<target, fd, stdin>> /\ kept
        BY <1>6 DEF loop
    <2>2. Plain' BY <1>0, <1>8, <2>1, PlainStep
    <2>3. ~Silent' BY <2>1 DEF Silent
    <2>4. CASE shown' = shown /\ SocketOK' /\ sk'.read = sk.read
        BY <1>0, <2>1, <2>2, <2>3, <2>4 DEF Shape, Quiet
    <2>5. CASE (NoFault \/ select(readable, "error")) /\ UNCHANGED <<sk, shown>>
        BY <2>4, <2>5, CallsKeepCounts
    <2>6. CASE (recv(-1, BufSize, FALSE) \/ recv(0, BufSize, FALSE)) /\ UNCHANGED shown
        <3>1. -1 \in Int /\ 0 \in Int /\ -1 <= 0 /\ 0 <= 0 OBVIOUS
        <3>2. SocketOK' /\ sk'.read = sk.read BY <2>6, <3>1, RecvNews
        <3> QED BY <2>4, <2>6, <3>2
    <2>7. ASSUME NEW n \in 1 .. BufSize, recv(n, BufSize, FALSE), shown' = Append(shown, chunk(n))
          PROVE  Shape
        <3>1. n \in Int /\ n \in Nat /\ n > 0 BY <2>7, StreamFacts
        <3>2. SocketOK' /\ News(n) BY <2>7, <3>1, RecvNews
        <3>3. Shows(n) BY <1>0, <2>1, <2>7 DEF Shows
        <3> QED BY <2>1, <2>2, <2>3, <3>1, <3>2, <3>3 DEF Shape, Receives
    <2> QED BY <1>6, <2>5, <2>6, <2>7 DEF loop
<1>7. CASE break
    <2>1. SocketOK' /\ sk'.read = sk.read
        BY <1>7, CallsKeepCounts DEF break
    <2>2. Plain' BY <1>0, <1>7, <1>8, PlainStep DEF break
    <2> QED BY <1>0, <1>7, <2>1, <2>2 DEF Shape, Quiet, Silent, break
<1> QED BY <1>1, <1>2, <1>3, <1>4, <1>5, <1>6, <1>7 DEF TestsStep
\* What version 2 makes of its configuration is an address, and the file one of Files.
LEMMA AddressType ==
    ASSUME NEW n \in {0, 20000, 85536}
    PROVE  port16(n) \in {0, 20000}
BY DEF port16

\* Version 2.
LEMMA V2Shape ==
    ASSUME Plain, SocketOK, Texts, V2Step PROVE Shape
<1>. USE DEF goto, kept, At2
<1>8. /\ twice \in BOOLEAN /\ fd \in {-1, 0, 3} /\ open \subseteq {0, 3}
      /\ file \in Files \cup {<<>>}
      /\ socketOk \/ socketFails => fd' \in {-1, 0, 3} /\ open' \subseteq {0, 3}
      /\ \A s : close(s) => open' \subseteq {0, 3} /\ twice' \in BOOLEAN
    BY OpenStep
<1>1. CASE ReadConfig
    <2>1. /\ program = "version2" /\ pc = "start" /\ program' = program /\ stdin' = stdin
          /\ UNCHANGED <<fd, sk, shown, m_buf, open, twice, faults>>
          /\ file' \in Files
        BY <1>1 DEF ReadConfig, NoFault
    <2>2. target'.port \in {0, 20000}
        <3>1. PICK f \in Files :
                target' = [ip |-> getString(setPath(f).map_, <<"client">>, <<"server_addr">>, Server.ip),
                           port |-> port16(getNumber(setPath(f).map_, <<"client">>, <<"server_port">>, 20000))]
            BY <1>1 DEF ReadConfig
        <3>2. getNumber(setPath(f).map_, <<"client">>, <<"server_port">>, 20000) \in {0, 20000, 85536}
            BY DEF getNumber, parseNumber
        <3> QED BY <3>1, <3>2, AddressType
    <2>3. Plain' BY <2>1, <2>2 DEF Plain
    <2>4. SocketOK' /\ sk'.read = sk.read BY <2>1 DEF SocketOK
    <2> QED BY <2>1, <2>3, <2>4 DEF Shape, Quiet, Silent
<1>2. CASE Construct
    <2>1. /\ program = "version2" /\ pc = "configured" /\ program' = program /\ stdin' = stdin
          /\ UNCHANGED <<target, shown, twice>> /\ file' = <<>> /\ m_buf' = <<>>
        BY <1>2 DEF Construct, createNonblockingOrDie, Fatal
    <2>2. Silent BY <2>1 DEF Silent
    <2>3. m_buf' = m_buf BY <2>1, <2>2 DEF Texts
    <2>4. CASE socketOk \/ socketFails
        <3>1. SocketOK' /\ sk'.read = sk.read
            BY <2>2, <2>4, NewSocketCounts DEF Texts
        <3>2. Plain' BY <1>8, <2>1, <2>4, PlainStep
        <3> QED BY <2>1, <2>2, <2>3, <3>1, <3>2 DEF Shape, Quiet
    <2>5. CASE UNCHANGED <<fd, open, sk>> /\ NoFault
        <3>1. SocketOK' /\ sk'.read = sk.read BY <2>5, CallsKeepCounts
        <3>2. Plain' BY <1>8, <2>1, <2>5, PlainStep
        <3> QED BY <2>1, <2>2, <2>3, <3>1, <3>2 DEF Shape, Quiet
    <2> QED BY <1>2, <2>4, <2>5 DEF Construct, createNonblockingOrDie
<1>3. CASE AsyncConnect
    <2>1. SocketOK' /\ sk'.read = sk.read
        BY <1>3, CallsKeepCounts DEF AsyncConnect
    <2>2. Plain' BY <1>3, <1>8, PlainStep DEF AsyncConnect
    <2> QED BY <1>3, <2>1, <2>2 DEF Shape, Quiet, Silent, AsyncConnect, afterConnect
<1>4. CASE isConnectSucc
    <2>1. SocketOK' /\ sk'.read = sk.read
        BY <1>4, CallsKeepCounts DEF isConnectSucc
    <2>2. Plain' BY <1>4, <1>8, PlainStep DEF isConnectSucc
    <2> QED BY <1>4, <2>1, <2>2 DEF Shape, Quiet, Silent, isConnectSucc
<1>5. CASE CheckReceivedData
    <2>1. /\ program = "version2" /\ program' = program /\ stdin' = stdin /\ pc = "poll"
          /\ UNCHANGED <<target, fd, shown, file, m_buf>>
        BY <1>5 DEF CheckReceivedData, closeFd, Fatal
    <2>2. Silent BY <2>1 DEF Silent
    <2>3. CASE kept /\ UNCHANGED sk /\ \E r \in {"ready", "timeout"} : select(readable, r)
        <3>1. SocketOK' BY <2>3, CallsKeepCounts
        <3>2. Plain' BY <1>8, <2>1, <2>3, PlainStep
        <3> QED BY <2>1, <2>2, <2>3, <3>1, <3>2 DEF Shape, Quiet
    <2>4. CASE select(readable, "error") /\ close(fd)
        <3>1. SocketOK' /\ sk'.read = sk.read BY <2>4, CallsKeepCounts DEF select
        <3>2. Plain' BY <1>8, <2>1, <2>4, PlainStep
        <3> QED BY <2>1, <2>2, <2>4, <3>1, <3>2 DEF Shape, Quiet
    <2> QED BY <1>5, <2>3, <2>4 DEF CheckReceivedData, closeFd
<1>6. CASE RecvData
    <2>1. /\ program = "version2" /\ program' = program /\ stdin' = stdin /\ pc = "recv"
          /\ UNCHANGED <<target, fd, file>> /\ kept
        BY <1>6 DEF RecvData
    <2>2. Plain' BY <1>8, <2>1, PlainStep
    <2>3. Silent BY <2>1 DEF Silent
    <2>4. CASE (recv(-1, BufSize, FALSE) \/ recv(0, BufSize, FALSE)) /\ UNCHANGED <<shown, m_buf>>
        <3>1. -1 \in Int /\ 0 \in Int /\ -1 <= 0 /\ 0 <= 0 OBVIOUS
        <3>2. SocketOK' /\ sk'.read = sk.read BY <2>4, <3>1, RecvNews
        <3> QED BY <2>1, <2>2, <2>3, <2>4, <3>2 DEF Shape, Quiet
    <2>5. ASSUME NEW n \in 1 .. BufSize, recv(n, BufSize, FALSE), pc' = onReceived,
                 LET d == DecodePackage(m_buf \o padded(chunk(n)))
                 IN  shown' = shown \o d.list /\ m_buf' = d.rest
          PROVE  Shape
        <3>1. n \in Int /\ n \in Nat /\ n > 0 /\ n <= BufSize BY <2>5, StreamFacts
        <3>2. SocketOK' /\ News(n) BY <2>5, <3>1, RecvNews
        <3>3. Shows(n) BY <2>1, <2>3, <2>5, <3>1 DEF Shows
        <3>4. ~Silent' BY <2>1, <2>5 DEF Silent, onReceived
        <3> QED BY <2>1, <2>2, <3>1, <3>2, <3>3, <3>4 DEF Shape, Receives
    <2> QED BY <1>6, <2>4, <2>5 DEF RecvData
<1>7. CASE Return2
    <2>1. /\ program = "version2" /\ program' = program /\ stdin' = stdin /\ pc' \in {"exit0", "crashed"}
          /\ UNCHANGED <<target, fd, shown, file, m_buf>> /\ close(fd) /\ NoFault
        BY <1>7 DEF Return2, closeFd, Fatal
    <2>2. SocketOK' /\ sk'.read = sk.read BY <2>1, CallsKeepCounts
    <2>3. Plain' BY <1>8, <2>1, PlainStep
    <2> QED BY <2>1, <2>2, <2>3 DEF Shape, Quiet, Silent
<1> QED BY <1>1, <1>2, <1>3, <1>4, <1>5, <1>6, <1>7 DEF V2Step
\* The threaded client: it is in a state of its thread, or has ended.
LEMMA PlainYxs ==
    ASSUME Plain, UNCHANGED <<program, stdin, target, file>>,
           pc' \in {"INIT", "CONN", "BCAST", "DATA_RW", "connecting", "failed", "prints",
                    "crashed", "exit0"},
           twice' \in BOOLEAN, fd' \in {-1, 0, 3}, open' \subseteq {0, 3}
    PROVE  Plain'
BY DEF Plain, clentmgr_st, Ended

\* Its steps.
LEMMA YxsShape ==
    ASSUME Plain, SocketOK, Texts, YxsStep, UNCHANGED v2vars PROVE Shape
<1>. USE DEF goto, kept, AtY
<1>0. UNCHANGED <<file, m_buf>> BY DEF v2vars
<1>9. /\ twice \in BOOLEAN /\ fd \in {-1, 0, 3} /\ open \subseteq {0, 3}
      /\ file \in Files \cup {<<>>}
      /\ socketOk \/ socketFails => fd' \in {-1, 0, 3} /\ open' \subseteq {0, 3}
      /\ \A s : close(s) => open' \subseteq {0, 3} /\ twice' \in BOOLEAN
    BY OpenStep
<1>1. CASE Start_TCP
    <2>1. SocketOK' /\ sk'.read = sk.read BY <1>1, CallsKeepCounts DEF Start_TCP
    <2>2. Plain' BY <1>0, <1>1, <1>9, PlainYxs DEF Start_TCP, joinUnset
    <2> QED BY <1>0, <1>1, <2>1, <2>2 DEF Shape, Quiet, Silent, Start_TCP, joinUnset
<1>2. CASE Initsocket
    <2>1. /\ program = "yxs" /\ pc = "INIT" /\ program' = program /\ stdin' = stdin
          /\ UNCHANGED <<target, shown>> /\ pc' \in {"INIT", "CONN"}
          /\ fd' \in {-1, 0, 3}
          /\ open' \subseteq (open \cup {fd'}) \ {-1}
        <3>1. CASE fd' = lowestFree /\ open' = (open \ {fd}) \cup {fd'}
            <4>1. fd' \in {0, 3} BY <3>1 DEF lowestFree
            <4>2. open' \subseteq (open \cup {fd'}) \ {-1} BY <1>9, <3>1, <4>1
            <4> QED BY <1>2, <4>1, <4>2 DEF Initsocket, initialised
        <3>2. CASE fd' = INVALID_SOCKET /\ open' = open \ {fd}
            BY <1>2, <1>9, <3>2 DEF Initsocket, initialised, INVALID_SOCKET
        <3> QED BY <1>2, <3>1, <3>2 DEF Initsocket
    <2>2. Silent /\ Silent' BY <2>1 DEF Silent
    <2>3. SocketOK' /\ sk'.read = sk.read
        <3>1. Fresh \in Sockets /\ Fresh.read = 0 /\ Fresh.sent = 0
            BY StreamFacts DEF Fresh, Sockets, Link
        <3>2. faults' \in 0 .. MaxFaults
            BY <1>2, StreamFacts DEF Initsocket, SocketOK, Fault, NoFault
        <3>3. sk.read = 0 /\ sk \in Sockets /\ "none" \in Link /\ sk.read <= sk.sent
            BY <2>2 DEF Texts, SocketOK, Link
        <3>4. sk' = Fresh \/ sk' = [sk EXCEPT !.link = "none"] BY <1>2 DEF Initsocket
        <3>5. /\ [sk EXCEPT !.link = "none"] \in Sockets /\ [sk EXCEPT !.link = "none"].read = 0
              /\ [sk EXCEPT !.link = "none"].sent = sk.sent
            BY <3>3, SocketSet
        <3>6. 0 <= Fresh.sent /\ 0 <= sk.sent
            <4>1. sk.sent \in Nat BY <3>3, SocketSet
            <4> QED BY <3>1, <4>1
        <3>7. sk' \in Sockets /\ sk'.read = 0 /\ sk'.read <= sk'.sent
            BY <3>1, <3>4, <3>5, <3>6, Zenon
        <3> QED BY <3>2, <3>3, <3>7 DEF SocketOK
    <2>4. twice' \in BOOLEAN BY <1>2, <1>9 DEF Initsocket
    <2>5. open' \subseteq {0, 3} BY <1>9, <2>1
    <2>6. Plain' BY <1>0, <2>1, <2>4, <2>5, PlainYxs
    <2> QED BY <1>0, <2>1, <2>2, <2>3, <2>6 DEF Shape, Quiet
<1>3. CASE ConnectInits
    <2>1. /\ program = "yxs" /\ pc = "CONN" /\ program' = program /\ stdin' = stdin
          /\ UNCHANGED <<target, shown, twice>> /\ pc' \in {"CONN", "failed"}
          /\ socketOk \/ socketFails
        BY <1>3 DEF ConnectInits
    <2>2. Silent /\ Silent' BY <2>1 DEF Silent
    <2>3. SocketOK' /\ sk'.read = sk.read BY <2>1, <2>2, NewSocketCounts DEF Texts
    <2>4. Plain' BY <1>0, <1>9, <2>1, PlainYxs
    <2> QED BY <1>0, <2>1, <2>2, <2>3, <2>4 DEF Shape, Quiet
<1>4. CASE Connect
    <2>1. SocketOK' /\ sk'.read = sk.read
        <3>1. CASE connect("error") BY <3>1, CallsKeepCounts
        <3>2. CASE sk' = [sk EXCEPT !.link = "syn"] /\ NoFault
            <4>1. "syn" \in Link BY DEF Link
            <4>2. sk' \in Sockets /\ sk'.read = sk.read /\ sk'.sent = sk.sent
                BY <3>2, <4>1, SocketSet DEF SocketOK
            <4> QED BY <3>2, <4>2 DEF SocketOK, NoFault
        <3> QED BY <1>4, <3>1, <3>2 DEF Connect
    <2>2. Plain' BY <1>0, <1>4, <1>9, PlainYxs DEF Connect
    <2> QED BY <1>0, <1>4, <2>1, <2>2 DEF Shape, Quiet, Silent, Connect
<1>5. CASE Connected
    <2>1. SocketOK' /\ sk'.read = sk.read BY <1>5, CallsKeepCounts DEF Connected
    <2>2. Plain' BY <1>0, <1>5, <1>9, PlainYxs DEF Connected
    <2> QED BY <1>0, <1>5, <2>1, <2>2 DEF Shape, Quiet, Silent, Connected
<1>6. CASE Close
    <2>1. SocketOK' /\ sk'.read = sk.read BY <1>6, CallsKeepCounts DEF Close
    <2>2. Plain' BY <1>0, <1>6, <1>9, PlainYxs DEF Close, INVALID_SOCKET
    <2> QED BY <1>0, <1>6, <2>1, <2>2 DEF Shape, Quiet, Silent, Close
<1>7. CASE handlerMsg_TCP
    <2>1. /\ program = "yxs" /\ program' = program /\ stdin' = stdin /\ pc = "BCAST" /\ kept
          /\ UNCHANGED <<target, fd>> /\ pc' \in {"CONN", "BCAST", "DATA_RW", "prints"}
        BY <1>7 DEF handlerMsg_TCP, afterHandler
    <2>2. Plain' BY <1>0, <1>9, <2>1, PlainYxs
    <2>3. Silent BY <2>1 DEF Silent
    <2>4. CASE select(watched, "error") /\ UNCHANGED <<sk, shown>>
        <3>1. SocketOK' BY <2>4, CallsKeepCounts
        <3> QED BY <1>0, <2>1, <2>2, <2>3, <2>4, <3>1 DEF Shape, Quiet
    <2>5. ASSUME NEW n \in {-1, 0}, Recv(n), UNCHANGED shown PROVE Shape
        <3>1. n \in Int /\ n <= 0 BY <2>5
        <3>2. SocketOK' /\ sk'.read = sk.read BY <2>5, <3>1, RecvNews DEF Recv
        <3> QED BY <1>0, <2>1, <2>2, <2>3, <2>5, <3>2 DEF Shape, Quiet
    <2>6. ASSUME NEW n \in 1 .. Len(Stream), Recv(n), shown' = Append(shown, chunk(n)),
                 pc' = "prints"
          PROVE  Shape
        <3>1. n \in Int /\ n \in Nat /\ n > 0 BY <2>6, StreamFacts
        <3>2. SocketOK' /\ News(n) BY <2>6, <3>1, RecvNews DEF Recv
        <3>3. Shows(n) BY <1>0, <2>1, <2>6 DEF Shows
        <3>4. ~Silent' BY <2>1, <2>6 DEF Silent
        <3> QED BY <2>1, <2>2, <3>1, <3>2, <3>3, <3>4 DEF Shape, Receives
    <2> QED BY <1>7, <2>4, <2>5, <2>6 DEF handlerMsg_TCP
<1>8. CASE DataRw
    <2>1. SocketOK' /\ sk'.read = sk.read BY <1>8, CallsKeepCounts DEF DataRw
    <2>2. Plain' BY <1>0, <1>8, <1>9, PlainYxs DEF DataRw
    <2> QED BY <1>0, <1>8, <2>1, <2>2 DEF Shape, Quiet, Silent, DataRw
<1> QED BY <1>1, <1>2, <1>3, <1>4, <1>5, <1>6, <1>7, <1>8 DEF YxsStep

\* The network only moves the connection on and makes more of the text ready.
LEMMA NetworkShape ==
    ASSUME Plain, SocketOK, Texts, Network, UNCHANGED v2vars PROVE Shape
<1>1. SocketOK' /\ sk'.read = sk.read
    <2>1. faults' \in 0 .. MaxFaults
        BY StreamFacts DEF Network, Accept, Refuse, Send, PeerCloses, Reset, SocketOK, Fault, NoFault
    <2>2. /\ sk \in Sockets /\ sk.read <= sk.sent /\ Link = {"none", "new", "syn", "up", "over"}
          /\ TRUE \in BOOLEAN
        BY DEF SocketOK, Link
    <2>3. sk.sent \in Nat /\ sk.read \in Nat /\ Len(Stream) \in Nat BY <2>2, SocketSet, StreamFacts
    <2>4. CASE Accept \/ Refuse \/ PeerCloses \/ Reset
        <3>1. PICK l \in Link : \/ sk' = [sk EXCEPT !.link = l]
                                \/ sk' = [sk EXCEPT !.link = l, !.err = TRUE]
            BY <2>2, <2>4 DEF Accept, Refuse, PeerCloses, Reset
        <3>2. sk' \in Sockets /\ sk'.read = sk.read /\ sk'.sent = sk.sent
            <4>1. CASE sk' = [sk EXCEPT !.link = l] BY <2>2, <4>1, SocketSet
            <4>2. CASE sk' = [sk EXCEPT !.link = l, !.err = TRUE] BY <2>2, <4>2, SocketSet
            <4> QED BY <3>1, <4>1, <4>2
        <3> QED BY <2>1, <2>2, <3>2 DEF SocketOK
    <2>5. CASE Send
        <3>1. PICK n \in (sk.sent + 1) .. Len(Stream) : sk' = [sk EXCEPT !.sent = n]
            BY <2>5 DEF Send
        <3>2. n \in 0 .. Len(Stream) /\ n >= sk.sent /\ n \in Nat BY <2>3, <3>1
        <3>3. sk' \in Sockets /\ sk'.read = sk.read /\ sk'.sent = n
            BY <2>2, <3>1, <3>2, SocketSet
        <3>4. sk'.read <= sk'.sent BY <2>2, <2>3, <3>2, <3>3
        <3> QED BY <2>1, <3>3, <3>4 DEF SocketOK
    <2> QED BY <2>4, <2>5 DEF Network
<1>2. UNCHANGED <<program, pc, stdin, target, fd, open, shown, twice, file, m_buf>>
    BY DEF Network, v2vars
<1>3. Plain' BY <1>2 DEF Plain
<1> QED BY <1>1, <1>2, <1>3 DEF Shape, Quiet, Silent
\* The zeros that version 2 appends fill the buffer up.
LEMMA PaddedType ==
    ASSUME NEW s \in Seq(Said), Len(s) <= BufSize
    PROVE  /\ padded(s) \in Seq(Text) /\ Len(padded(s)) = BufSize
           /\ \A i \in 1 .. Len(s) : padded(s)[i] = s[i]
           /\ \A i \in Len(s) + 1 .. BufSize : padded(s)[i] = "0"
<1>. DEFINE z == [i \in 1 .. BufSize - Len(s) |-> "0"]
<1>1. Len(s) \in Nat /\ BufSize \in Nat /\ BufSize - Len(s) \in Nat BY LenProperties, StreamFacts
<1>2. z \in Seq(Text) /\ Len(z) = BufSize - Len(s)
    <2>1. z \in [1 .. BufSize - Len(s) -> Text] BY DEF Text
    <2> HIDE DEF z
    <2> QED BY <1>1, <2>1, FunctionIsSeq
<1>3. \A i \in 1 .. BufSize - Len(s) : z[i] = "0" OBVIOUS
<1>4. s \in Seq(Text) BY SeqMonotonic DEF Said, Text
<1>5. padded(s) = s \o z BY DEF padded
<1> HIDE DEF z
<1>6. /\ s \o z \in Seq(Text) /\ Len(s \o z) = BufSize
      /\ \A i \in 1 .. BufSize : (s \o z)[i] = IF i <= Len(s) THEN s[i] ELSE z[i - Len(s)]
    BY <1>1, <1>2, <1>4, ConcatProperties
<1>7. ASSUME NEW i \in 1 .. Len(s) PROVE (s \o z)[i] = s[i] BY <1>1, <1>6
<1>8. ASSUME NEW i \in Len(s) + 1 .. BufSize PROVE (s \o z)[i] = "0"
    <2>1. i \in 1 .. BufSize /\ ~(i <= Len(s)) /\ i - Len(s) \in 1 .. BufSize - Len(s) BY <1>1
    <2> QED BY <1>3, <1>6, <2>1
<1> QED BY <1>5, <1>6, <1>7, <1>8

\* A part of a sequence is no longer than the whole.
LEMMA PartsLen ==
    ASSUME NEW S, NEW s \in Seq(S), NEW t \in Seq(S), NEW u \in Seq(S), s \o t = u
    PROVE  Len(s) + Len(t) = Len(u) /\ Len(s) \in Nat /\ Len(t) \in Nat
BY ConcatProperties, LenProperties

\* What version 2 makes of its only piece: as many packages as the piece has newlines, and
\* a rest that the buffer holds.
LEMMA OnePiece ==
    ASSUME NEW s \in Seq(Said), Len(s) <= BufSize, m_buf = <<>>,
           NEW b, b = m_buf \o padded(s), NEW d, d = DecodePackage(b)
    PROVE  /\ b = padded(s) /\ d \in Decoded(Text) /\ Split(d, b, BufSize)
           /\ newlines(b, BufSize) = newlines(s, Len(s))
           /\ Len(d.list) <= Len(s) /\ Len(d.rest) <= BufSize
<1>1. /\ padded(s) \in Seq(Text) /\ Len(padded(s)) = BufSize
      /\ \A i \in 1 .. Len(s) : padded(s)[i] = s[i]
      /\ \A i \in Len(s) + 1 .. BufSize : padded(s)[i] = "0"
    BY PaddedType
<1>2. b = padded(s) BY <1>1, ConcatEmptySeq
<1>3. "n" \in Text BY DEF Text
<1>4. b \in Seq(Text) /\ Len(b) = BufSize BY <1>1, <1>2
<1>5. d \in Decoded(Text) /\ Split(d, b, BufSize) BY <1>3, <1>4, DecodeSplits
<1>6. d.list \in Seq(Seq(Text)) /\ d.rest \in Seq(Text) BY <1>5 DEF Decoded
<1>7. Len(s) \in Nat /\ BufSize \in Nat BY LenProperties, StreamFacts
<1>8. newlines(b, BufSize) = newlines(s, Len(s))
    <2>1. ASSUME NEW i \in 1 .. BufSize, b[i] = "n" PROVE i \in 1 .. Len(s)
        <3>1. i \notin Len(s) + 1 .. BufSize BY <1>1, <1>2, <2>1
        <3> QED BY <1>7, <3>1
    <2>2. \A i \in 1 .. Len(s) : i \in 1 .. BufSize /\ b[i] = s[i] BY <1>1, <1>2, <1>7
    <2> QED BY <2>1, <2>2 DEF newlines
<1>9. Len(d.list) <= Len(s)
    <2>1. Len(d.list) = Cardinality(newlines(s, Len(s))) BY <1>5, <1>8 DEF Split
    <2>2. IsFiniteSet(1 .. Len(s)) /\ Cardinality(1 .. Len(s)) = Len(s)
        <3>1. \A k \in Nat : IsFiniteSet(1 .. k) /\ Cardinality(1 .. k) = k
            <4>. TAKE k \in Nat
            <4>1. 1 \in Int /\ k \in Int OBVIOUS
            <4>2. IsFiniteSet(1 .. k) /\ Cardinality(1 .. k) = IF 1 > k THEN 0 ELSE k - 1 + 1
                BY <4>1, FS_Interval
            <4> QED BY <4>2
        <3> QED BY <1>7, <3>1
    <2>3. newlines(s, Len(s)) \subseteq 1 .. Len(s) BY DEF newlines
    <2> QED BY <2>1, <2>2, <2>3, FS_Subset
<1>10. Len(d.rest) <= BufSize
    <2>. DEFINE said == FlattenSeq(lines(d.list))
    <2>1. said \in Seq(Text)
        <3>1. <<>> \in Seq(Text) BY EmptySeq
        <3>2. lines(d.list) \in Seq(Seq(Text)) BY <1>3, <1>6, <3>1, LinesGrow
        <3> QED BY <3>1, <3>2, FlattenGrows
    <2>2. said \o d.rest = b
        <3>1. said \o d.rest = SubSeq(b, 1, BufSize) BY <1>5 DEF Split
        <3>2. SubSeq(b, 1, Len(b)) = b BY <1>4, SubSeqFull
        <3> QED BY <1>4, <3>1, <3>2
    <2> HIDE DEF said
    <2>3. Len(said) + Len(d.rest) = Len(b) /\ Len(said) \in Nat /\ Len(d.rest) \in Nat
        BY <1>4, <1>6, <2>1, <2>2, PartsLen
    <2> QED BY <1>4, <1>7, <2>3
<1> QED BY <1>2, <1>5, <1>8, <1>9, <1>10
\* A step that shows what it received leaves the texts as they should be.
LEMMA ShowsTexts ==
    ASSUME Texts, SocketOK, NEW n \in Nat, News(n), Shows(n), ~Silent' PROVE Texts'
<1>. DEFINE c == chunk(n)
<1>1. c \in Seq(Said) /\ Len(c) = n /\ n > 0 /\ sk'.read = sk.read + n BY DEF News
<1> HIDE DEF c
<1>2. c \in Seq(Text) BY <1>1, SeqMonotonic DEF Said, Text
<1>3. shown \in Seq(Seq(Text)) /\ Len(shown) <= sk.read /\ m_buf \in Seq(Text) /\ Len(m_buf) <= BufSize
    BY DEF Texts
<1>4. sk.read \in Nat /\ Len(shown) \in Nat BY <1>3, SocketSet, LenProperties DEF SocketOK
<1>5. ASSUME NEW s \in Seq(Text), shown' = Append(shown, s), UNCHANGED m_buf PROVE Texts'
    <2>1. shown' \in Seq(Seq(Text)) /\ Len(shown') = Len(shown) + 1 BY <1>3, <1>5, AppendProperties
    <2>2. Len(shown') <= sk'.read BY <1>1, <1>3, <1>4, <2>1
    <2> QED BY <1>3, <1>5, <2>1, <2>2 DEF Texts
<1>6. CASE program = "version1" /\ \E s \in printed(c) : shown' = Append(shown, s) /\ UNCHANGED m_buf
    <2>1. PICK s \in printed(c) : shown' = Append(shown, s) /\ UNCHANGED m_buf BY <1>6
    <2>2. s \in Seq(Text)
        <3>1. "?" \in Text BY DEF Text
        <3>2. Append(c, "?") \in Seq(Text) BY <1>2, <3>1, AppendProperties
        <3>3. s = c \/ s = Append(c, "?") BY <2>1 DEF printed
        <3> QED BY <1>2, <3>2, <3>3
    <2> QED BY <1>5, <2>1, <2>2
<1>7. CASE shown' = Append(shown, c) /\ UNCHANGED m_buf BY <1>2, <1>5, <1>7
<1>8. CASE /\ program = "version2" /\ Silent /\ n <= BufSize
           /\ LET d == DecodePackage(m_buf \o padded(c))
              IN  shown' = shown \o d.list /\ m_buf' = d.rest
    <2>. DEFINE b == m_buf \o padded(c)
                d == DecodePackage(b)
    <2>1. m_buf = <<>> /\ shown = <<>> BY <1>8 DEF Texts
    <2>2. shown' = shown \o d.list /\ m_buf' = d.rest BY <1>8
    <2> HIDE DEF d
    <2>3. d \in Decoded(Text) /\ Len(d.list) <= n /\ Len(d.rest) <= BufSize
        BY <1>1, <1>8, <2>1, OnePiece DEF d
    <2>4. d.list \in Seq(Seq(Text)) /\ d.rest \in Seq(Text) BY <2>3 DEF Decoded
    <2>5. shown' = d.list BY <2>1, <2>2, <2>4, ConcatEmptySeq
    <2>6. Len(d.list) \in Nat BY <2>4, LenProperties
    <2>7. Len(shown') <= sk'.read BY <1>1, <1>4, <2>3, <2>5, <2>6
    <2> QED BY <2>2, <2>3, <2>4, <2>5, <2>7 DEF Texts
<1> QED BY <1>6, <1>7, <1>8 DEF Shows, c

\* Every step has the shape.
LEMMA NextShape ==
    ASSUME TypeInv, Next PROVE Shape
<1>1. Plain /\ SocketOK /\ Texts BY Parts
<1> QED BY <1>1, V1Shape, V2Shape, YxsShape, TestsShape, NetworkShape DEF Next, ClientStep, NetworkStep

\* ... and keeps the types.
LEMMA TypeStep ==
    ASSUME TypeInv, Shape PROVE TypeInv'
<1>1. Plain /\ SocketOK /\ Texts BY Parts
<1>2. Plain' /\ SocketOK' BY DEF Shape
<1>3. Texts'
    <2>1. CASE Quiet BY <1>1, <2>1 DEF Quiet, Texts
    <2>2. CASE Receives BY <1>1, <2>2, ShowsTexts DEF Receives
    <2> QED BY <2>1, <2>2 DEF Shape
<1> QED BY <1>2, <1>3, Parts, PTL

\* The invariant holds in every reachable state.
LEMMA TypeInvariance == Spec => []TypeInv
<1>1. ASSUME Init PROVE TypeInv
    <2>1. Plain
        <3>1. target.port = 20000 BY <1>1 DEF Init, Server
        <3>2. /\ stdin \in BOOLEAN /\ twice \in BOOLEAN /\ fd = -1 /\ open = {}
              /\ program \in Programs /\ pc = "start" /\ file = <<>>
            BY <1>1 DEF Init
        <3> QED BY <3>1, <3>2 DEF Plain
    <2>2. SocketOK
        <3>1. sk = [link |-> "none", err |-> FALSE, sent |-> 0, read |-> 0] /\ faults = 0
            BY <1>1 DEF Init, Fresh
        <3>2. 0 \in 0 .. Len(Stream) /\ 0 \in 0 .. MaxFaults BY StreamFacts
        <3>3. sk \in Sockets BY <3>1, <3>2 DEF Sockets, Link
        <3> QED BY <3>1, <3>2, <3>3 DEF SocketOK
    <2>3. Texts
        <3>1. shown = <<>> /\ m_buf = <<>> /\ sk.read = 0 BY <1>1 DEF Init, Fresh
        <3>2. <<>> \in Seq(Text) /\ <<>> \in Seq(Seq(Text)) /\ Len(<<>>) = 0 BY EmptySeq
        <3> QED BY <3>1, <3>2, StreamFacts DEF Texts
    <2> QED BY <2>1, <2>2, <2>3, Parts
<1>2. TypeInv /\ [Next]_vars => TypeInv'
    <2> SUFFICES ASSUME TypeInv, [Next]_vars PROVE TypeInv' OBVIOUS
    <2>1. CASE Next BY <2>1, NextShape, TypeStep
    <2>2. CASE UNCHANGED vars
        BY <2>2 DEF vars, svars, v2vars, TypeInv, TypeOK, SocketTypeOK, Silent
    <2> QED BY <2>1, <2>2
<1> QED BY <1>1, <1>2, PTL DEF Spec

\* No client reaches a state that it has no case for, counts more than it was sent or keeps
\* more than its buffer holds, and version 2 keeps 16 bits of its port.
THEOREM TypeCorrect == Spec => []TypeOK
<1>1. TypeInv => TypeOK BY DEF TypeInv
<1> QED BY <1>1, TypeInvariance, PTL
(***************************************************************************)
(* What is shown.                                                          *)
(***************************************************************************)
\* The text of a list of packages is empty or ends with a newline.
LEMMA LinesEnd ==
    ASSUME NEW C, "n" \in C, NEW l \in Seq(Seq(C))
    PROVE  LET P == FlattenSeq(lines(l))
           IN  P \in Seq(C) /\ (Len(P) # 0 => P[Len(P)] = "n")
<1>. DEFINE P == FlattenSeq(lines(l))
<1>1. <<>> \in Seq(C) /\ Len(<<>>) = 0 BY EmptySeq
<1>2. lines(l) \in Seq(Seq(C)) BY <1>1, LinesGrow
<1>3. P \in Seq(C) BY <1>1, <1>2, FlattenGrows
<1>4. CASE l = <<>>
    <2>1. lines(<<>>) = <<>> BY DEF lines
    <2>2. P = <<>> BY <1>4, <2>1, FlattenEmpty
    <2> QED BY <1>1, <1>3, <2>2
<1>5. CASE l # <<>>
    <2>1. PICK h \in Seq(Seq(C)), x \in Seq(C) : l = Append(h, x)
        BY <1>5, SequenceEmptyOrAppend
    <2>. DEFINE H == FlattenSeq(lines(h))
                y == Append(x, "n")
    <2>2. lines(h) \in Seq(Seq(C)) /\ y \in Seq(C) /\ lines(l) = Append(lines(h), y)
        BY <2>1, LinesGrow
    <2>3. Len(x) \in Nat /\ Len(y) = Len(x) + 1 /\ y[Len(x) + 1] = "n"
        BY LenProperties, AppendProperties
    <2> HIDE DEF y
    <2>4. H \in Seq(C) /\ P = H \o y BY <2>2, FlattenGrows
    <2> HIDE DEF H
    <2>5. Len(H) \in Nat BY <2>4, LenProperties
    <2>6. /\ Len(H \o y) = Len(H) + Len(y)
          /\ \A i \in 1 .. Len(H) + Len(y) :
                (H \o y)[i] = IF i <= Len(H) THEN H[i] ELSE y[i - Len(H)]
        BY <2>2, <2>4, ConcatProperties
    <2>7. (H \o y)[Len(H) + Len(y)] = y[Len(y)]
        <3>. DEFINE k == Len(H) + Len(y)
        <3>1. k \in 1 .. k /\ ~(k <= Len(H)) /\ k - Len(H) = Len(y) BY <2>3, <2>5
        <3> HIDE DEF k
        <3>2. (H \o y)[k] = y[k - Len(H)] BY <2>6, <3>1 DEF k
        <3> QED BY <3>1, <3>2 DEF k
    <2> QED BY <1>3, <2>3, <2>4, <2>6, <2>7
<1> QED BY <1>3, <1>4, <1>5

\* Whole packages, all of those received, and no part of another.
Whole(packages, received, count) ==
    /\ IsPrefix(packages, received)
    /\ "n" \notin ToSet(SubSeq(received, Len(packages) + 1, Len(received)))
    /\ count = Cardinality({i \in DOMAIN packages : packages[i] = "n"})

\* The zeros behind the piece that version 2 decodes add nothing to its packages.
LEMMA PackagesWhole ==
    ASSUME NEW s \in Seq(Said), Len(s) <= BufSize, m_buf = <<>>,
           NEW b, b = m_buf \o padded(s), NEW d, d = DecodePackage(b)
    PROVE  Whole(FlattenSeq(lines(d.list)), s, Len(d.list))
<1>. DEFINE P == FlattenSeq(lines(d.list))
            rest == d.rest
<1>1. /\ b = padded(s) /\ d \in Decoded(Text) /\ Split(d, b, BufSize)
      /\ newlines(b, BufSize) = newlines(s, Len(s))
    BY OnePiece
<1>2. /\ b \in Seq(Text) /\ Len(b) = BufSize /\ Len(s) \in Nat /\ BufSize \in Nat
      /\ \A i \in 1 .. Len(s) : b[i] = s[i]
    BY <1>1, PaddedType, LenProperties, StreamFacts
<1>3. "n" \in Text /\ d.list \in Seq(Seq(Text)) /\ rest \in Seq(Text)
    BY <1>1 DEF Decoded, Text
<1>4. P \in Seq(Text) /\ (Len(P) # 0 => P[Len(P)] = "n") BY <1>3, LinesEnd
<1>5. P \o rest = b
    <2>1. P \o rest = SubSeq(b, 1, BufSize) BY <1>1 DEF Split
    <2>2. SubSeq(b, 1, Len(b)) = b BY <1>2, SubSeqFull
    <2> QED BY <1>2, <2>1, <2>2
<1>6. \A i \in 1 .. Len(rest) : rest[i] # "n" BY <1>1 DEF Split
<1>7. Len(d.list) = Cardinality(newlines(s, Len(s))) BY <1>1 DEF Split
<1> HIDE DEF P, rest
<1>8. Len(P) \in Nat /\ Len(rest) \in Nat /\ Len(P) + Len(rest) = BufSize
    BY <1>2, <1>3, <1>4, <1>5, PartsLen
<1>9. /\ \A i \in 1 .. Len(P) : b[i] = P[i]
      /\ \A i \in Len(P) + 1 .. BufSize : b[i] = rest[i - Len(P)]
    <2>1. \A i \in 1 .. Len(P) + Len(rest) :
              (P \o rest)[i] = IF i <= Len(P) THEN P[i] ELSE rest[i - Len(P)]
        BY <1>3, <1>4, ConcatProperties
    <2> QED BY <1>5, <1>8, <2>1
<1>10. \A i \in Len(P) + 1 .. BufSize : b[i] # "n"
    <2>1. \A i \in Len(P) + 1 .. BufSize : i - Len(P) \in 1 .. Len(rest) BY <1>8
    <2> QED BY <1>6, <1>9, <2>1
<1>11. Len(P) <= Len(s)
    <2>1. CASE Len(P) # 0
        <3>1. Len(P) \in 1 .. BufSize /\ b[Len(P)] = "n" BY <1>4, <1>8, <1>9, <2>1
        <3>2. Len(P) \in newlines(s, Len(s)) BY <1>1, <3>1 DEF newlines
        <3> QED BY <1>2, <3>2 DEF newlines
    <2> QED BY <1>2, <2>1
<1>12. IsPrefix(P, s)
    <2>1. SubSeq(P, 1, Len(P)) = P BY <1>4, SubSeqFull
    <2>2. \A i \in 1 .. Len(P) : s[i] = P[i] /\ s[i] \in Text
        <3>1. \A i \in 1 .. Len(P) : i \in 1 .. Len(s) BY <1>2, <1>8, <1>11
        <3> QED BY <1>2, <1>4, <1>9, <3>1, ElementOfSeq
    <2>. DEFINE t == SubSeq(s, 1, Len(P))
    <2>3. /\ t \in Seq(Text) /\ Len(t) = IF 1 <= Len(P) THEN Len(P) - 1 + 1 ELSE 0
          /\ \A i \in 1 .. Len(P) - 1 + 1 : t[i] = s[1 + i - 1]
        <3>1. 1 \in Int /\ Len(P) \in Int BY <1>8
        <3> QED BY <2>2, <3>1, SubSeqProperties
    <2> HIDE DEF t
    <2>4. Len(t) = Len(P) BY <1>8, <2>3
    <2>5. ASSUME NEW i \in 1 .. Len(P) PROVE P[i] = t[i]
        <3>1. i \in 1 .. Len(P) - 1 + 1 /\ 1 + i - 1 = i BY <1>8
        <3> QED BY <2>2, <2>3, <3>1
    <2>6. P = t BY <1>4, <2>3, <2>4, <2>5, SeqEqual
    <2> QED BY <1>11, <2>1, <2>6 DEF IsPrefix, t
<1>13. "n" \notin ToSet(SubSeq(s, Len(P) + 1, Len(s)))
    <2>. DEFINE t == SubSeq(s, Len(P) + 1, Len(s))
                m == Len(P) + 1
    <2>1. m \in Int /\ Len(s) \in Int /\ m \in Nat BY <1>2, <1>8
    <2>2. \A i \in m .. Len(s) : s[i] \in Said /\ s[i] # "n"
        <3>1. \A i \in m .. Len(s) : i \in 1 .. Len(s) /\ i \in m .. BufSize
            BY <1>2, <1>8
        <3> QED BY <1>2, <1>10, <3>1, ElementOfSeq
    <2> HIDE DEF m
    <2>3. /\ SubSeq(s, m, Len(s)) \in Seq(Said)
          /\ Len(SubSeq(s, m, Len(s))) = IF m <= Len(s) THEN Len(s) - m + 1 ELSE 0
          /\ \A i \in 1 .. Len(s) - m + 1 : SubSeq(s, m, Len(s))[i] = s[m + i - 1]
        BY <2>1, <2>2, SubSeqProperties
    <2>4. t = SubSeq(s, m, Len(s)) BY DEF m
    <2> HIDE DEF t
    <2>5. DOMAIN t = 1 .. Len(t) BY <2>3, <2>4, LenProperties
    <2>6. ASSUME NEW i \in DOMAIN t PROVE t[i] # "n"
        <3>1. i \in 1 .. Len(s) - m + 1 /\ m + i - 1 \in m .. Len(s)
            BY <2>1, <2>3, <2>4, <2>5, <2>6, <1>2
        <3> QED BY <2>2, <2>3, <2>4, <3>1
    <2>7. "n" \notin ToSet(t) BY <2>6 DEF ToSet
    <2> QED BY <2>7 DEF t
<1>14. {i \in DOMAIN P : P[i] = "n"} = newlines(s, Len(s))
    <2>1. DOMAIN P = 1 .. Len(P) BY <1>4, LenProperties
    <2>2. \A i \in 1 .. BufSize : b[i] = "n" => i \in 1 .. Len(P)
        <3>1. \A i \in 1 .. BufSize : i \in 1 .. Len(P) \/ i \in Len(P) + 1 .. BufSize
            BY <1>8
        <3> QED BY <1>10, <3>1
    <2>3. \A i \in 1 .. Len(P) : i \in 1 .. BufSize BY <1>8
    <2>4. {i \in 1 .. Len(P) : P[i] = "n"} = newlines(b, BufSize)
        BY <1>9, <2>2, <2>3 DEF newlines
    <2> QED BY <1>1, <2>1, <2>4
<1>15. Whole(P, s, Len(d.list)) BY <1>7, <1>12, <1>13, <1>14 DEF Whole
<1> QED BY <1>15 DEF P
\* A text that was shown piece by piece grows by the next piece.
LEMMA SaidGrows ==
    ASSUME NEW r \in 0 .. Len(Stream), NEW n \in Nat, r + n <= Len(Stream)
    PROVE  SubSeq(Stream, 1, r) \o SubSeq(Stream, r + 1, r + n) = SubSeq(Stream, 1, r + n)
<1>1. Stream \in Seq(Said) /\ Len(Stream) \in Nat BY StreamFacts
<1>2. 1 \in 1 .. Len(Stream) + 1 /\ r \in 1 - 1 .. Len(Stream) /\ r + n \in r .. Len(Stream)
    BY <1>1
<1> QED BY <1>1, <1>2, ConcatAdjacentSubSeq

\* The length of what was received.
LEMMA ReceivedLen ==
    ASSUME NEW r \in 0 .. Len(Stream)
    PROVE  /\ SubSeq(Stream, 1, r) \in Seq(Said) /\ Len(SubSeq(Stream, 1, r)) = r
           /\ r = 0 => SubSeq(Stream, 1, r) = <<>>
<1>1. Stream \in Seq(Said) /\ Len(Stream) \in Nat /\ 1 \in Int /\ r \in Int BY StreamFacts
<1>2. \A i \in 1 .. r : Stream[i] \in Said
    <2>1. \A i \in 1 .. r : i \in 1 .. Len(Stream) BY <1>1
    <2> QED BY <1>1, <2>1, ElementOfSeq
<1>3. /\ SubSeq(Stream, 1, r) \in Seq(Said)
      /\ Len(SubSeq(Stream, 1, r)) = IF 1 <= r THEN r - 1 + 1 ELSE 0
    BY <1>1, <1>2, SubSeqProperties
<1>4. r = 0 => SubSeq(Stream, 1, r) = <<>> BY SubSeqEmpty
<1> QED BY <1>3, <1>4

\* One piece alone.
LEMMA OneText ==
    ASSUME NEW S, NEW x \in Seq(S)
    PROVE  FlattenSeq(Append(<<>>, x)) = x
<1>1. <<>> \in Seq(Seq(S)) /\ <<>> \in Seq(S) BY EmptySeq
<1>2. FlattenSeq(Append(<<>>, x)) = <<>> \o x BY <1>1, FlattenGrows, FlattenEmpty
<1> QED BY <1>2, ConcatEmptySeq

\* The property, with its parts named.
LEMMA ShownParts ==
    LET received == SubSeq(Stream, 1, sk.read)
        said     == FlattenSeq(shown)
    IN  ShownIsSent <=>
            IF program = "version2" THEN Whole(FlattenSeq(lines(shown)), received, Len(shown))
            ELSE IF program = "version1" /\ Len(received) = BufSize
            THEN IsPrefix(received, said) ELSE said = received
BY DEF ShownIsSent, Whole, lines

\* Each step keeps it.
LEMMA ShownStep ==
    ASSUME TypeInv, ShownIsSent, Shape PROVE ShownIsSent'
<1>1. CASE Quiet
    <2>1. shown' = shown /\ sk'.read = sk.read /\ program' = program BY <1>1 DEF Quiet, Shape
    <2> QED BY <2>1 DEF ShownIsSent
<1>2. ASSUME NEW n \in Nat, News(n), Shows(n) PROVE ShownIsSent'
    <2>. DEFINE r == sk.read
                c == chunk(n)
                received == SubSeq(Stream, 1, r + n)
    <2>1. Texts /\ SocketOK BY Parts
    <2>2. r \in 0 .. Len(Stream) /\ r \in Nat BY <2>1, SocketSet DEF SocketOK
    <2>3. /\ n > 0 /\ sk'.read = r + n /\ r + n <= Len(Stream)
          /\ c \in Seq(Said) /\ Len(c) = n /\ c = SubSeq(Stream, r + 1, r + n)
        BY <1>2 DEF News
    <2>4. program' = program BY DEF Shape
    <2>5. shown \in Seq(Seq(Text)) BY <2>1 DEF Texts
    <2>6. c \in Seq(Text) BY <2>3, SeqMonotonic DEF Said, Text
    <2> HIDE DEF c, r
    <2>7. SubSeq(Stream, 1, r) \o c = received BY <2>2, <2>3, SaidGrows
    <2>8. r + n \in 0 .. Len(Stream) BY <2>2, <2>3, StreamFacts
    <2>9. received \in Seq(Said) /\ Len(received) = r + n BY <2>8, ReceivedLen
    <2> HIDE DEF received
    <2>10. Silent => r = 0 /\ shown = <<>> /\ m_buf = <<>> /\ received = c /\ Len(received) = n
        <3> SUFFICES ASSUME Silent
                     PROVE  /\ r = 0 /\ shown = <<>> /\ m_buf = <<>>
                            /\ received = c /\ Len(received) = n
            OBVIOUS
        <3>1. r = 0 /\ shown = <<>> /\ m_buf = <<>> BY <2>1 DEF Texts, r
        <3>2. SubSeq(Stream, 1, r) = <<>> BY <2>2, <3>1, ReceivedLen
        <3>3. <<>> \o c = received BY <2>7, <3>2
        <3>4. received = c BY <2>3, <3>3, ConcatEmptySeq
        <3> QED BY <2>3, <3>1, <3>4
    <2>11. (ShownIsSent)' <=>
             IF program = "version2"
             THEN Whole(FlattenSeq(lines(shown')), received, Len(shown'))
             ELSE IF program = "version1" /\ Len(received) = BufSize
             THEN IsPrefix(received, FlattenSeq(shown')) ELSE FlattenSeq(shown') = received
        BY <2>3, <2>4 DEF ShownIsSent, Whole, lines, received
    <2>12. CASE /\ program = "version1" /\ Silent /\ n <= BufSize
                /\ \E s \in printed(c) : shown' = Append(shown, s)
        <3>1. PICK s \in printed(c) : shown' = Append(<<>>, s) BY <2>10, <2>12
        <3>2. "?" \in Text BY DEF Text
        <3>3. Append(c, "?") \in Seq(Text) /\ Len(Append(c, "?")) = n + 1
            BY <2>3, <2>6, <3>2, AppendProperties
        <3>4. s = c \/ (n = BufSize /\ s = Append(c, "?"))
            BY <2>3, <2>12, <3>1, StreamFacts DEF printed
        <3>5. FlattenSeq(shown') = s BY <2>6, <3>1, <3>3, <3>4, OneText
        <3>6. CASE s = c
            <4>1. IsPrefix(c, c) BY <2>3 DEF IsPrefix
            <4> QED BY <2>10, <2>11, <2>12, <3>5, <3>6, <4>1
        <3>7. CASE n = BufSize /\ s = Append(c, "?")
            <4>1. s = c \o <<"?">> /\ <<"?">> \in Seq(Text) BY <2>6, <3>2, <3>7, AppendIsConcat
            <4>2. SubSeq(s, 1, n) = SubSeq(c, 1, n)
                <5>1. 1 \in 1 .. Len(c) /\ n \in 1 .. Len(c) BY <2>3
                <5> QED BY <2>6, <4>1, <5>1, SubSeqOfConcat1
            <4>3. n <= n + 1 OBVIOUS
            <4>4. IsPrefix(c, s) BY <2>3, <3>3, <3>7, <4>2, <4>3 DEF IsPrefix
            <4> QED BY <2>10, <2>11, <2>12, <3>5, <3>7, <4>4
        <3> QED BY <3>4, <3>6, <3>7
    <2>13. CASE program \in {"yxs", "yxstest_v1"} /\ shown' = Append(shown, c)
        <3>1. FlattenSeq(shown) = SubSeq(Stream, 1, r)
            BY <2>13, ShownParts DEF r
        <3>2. FlattenSeq(shown') = FlattenSeq(shown) \o c BY <2>5, <2>6, <2>13, FlattenGrows
        <3> QED BY <2>7, <2>11, <2>13, <3>1, <3>2
    <2>14. CASE /\ program = "version2" /\ Silent /\ n <= BufSize
                /\ LET d == DecodePackage(m_buf \o padded(c))
                   IN  shown' = shown \o d.list /\ m_buf' = d.rest
        <3>. DEFINE b == m_buf \o padded(c)
                    d == DecodePackage(b)
        <3>1. m_buf = <<>> /\ shown = <<>> /\ received = c BY <2>10, <2>14
        <3>2. shown' = shown \o d.list BY <2>14
        <3> HIDE DEF d
        <3>3. d \in Decoded(Text) /\ Whole(FlattenSeq(lines(d.list)), c, Len(d.list))
            BY <2>3, <2>14, <3>1, OnePiece, PackagesWhole DEF d
        <3>4. d.list \in Seq(Seq(Text)) BY <3>3 DEF Decoded
        <3>5. shown' = d.list BY <3>1, <3>2, <3>4, ConcatEmptySeq
        <3> QED BY <2>11, <2>14, <3>1, <3>3, <3>5
    <2> QED BY <1>2, <2>12, <2>13, <2>14 DEF Shows, c
<1> QED BY <1>1, <1>2 DEF Shape, Receives

\* What every client shows is what the server said, in its order and without a gap, for
\* every text, every way it may be cut into pieces and every order of failures; version 2
\* shows the whole packages of its piece and all of them, and only a piece that fills the
\* buffer of version1 may be printed with more behind it.
THEOREM ShownCorrect == Spec => []ShownIsSent
<1>1. ASSUME Init PROVE ShownIsSent
    <2>1. shown = <<>> /\ sk.read = 0 BY <1>1 DEF Init, Fresh
    <2>2. SubSeq(Stream, 1, 0) = <<>> /\ FlattenSeq(<<>>) = <<>> /\ lines(<<>>) = <<>>
        BY SubSeqEmpty, FlattenEmpty DEF lines
    <2>3. Len(<<>>) = 0 /\ BufSize # 0 /\ <<>> \in Seq(Said) BY StreamFacts, EmptySeq
    <2>4. Whole(<<>>, <<>>, 0)
        <3>1. SubSeq(<<>>, 1, 0) = <<>> /\ IsPrefix(<<>>, <<>>) BY <2>3 DEF IsPrefix
        <3>2. DOMAIN <<>> = {} BY <2>3, LenProperties
        <3>3. {i \in DOMAIN <<>> : <<>>[i] = "n"} = {} BY <3>2
        <3>4. Cardinality({}) = 0 BY FS_EmptySet
        <3>5. SubSeq(<<>>, Len(<<>>) + 1, Len(<<>>)) = <<>> BY <2>3, SubSeqEmpty
        <3>6. ToSet(<<>>) = {} BY <3>2 DEF ToSet
        <3>7. Cardinality({i \in DOMAIN <<>> : <<>>[i] = "n"}) = 0 BY <3>3, <3>4, Zenon
        <3> QED BY <3>1, <3>5, <3>6, <3>7 DEF Whole
    <2> QED BY <2>1, <2>2, <2>3, <2>4, ShownParts
<1>2. TypeInv /\ ShownIsSent /\ [Next]_vars => ShownIsSent'
    <2> SUFFICES ASSUME TypeInv, ShownIsSent, [Next]_vars PROVE ShownIsSent' OBVIOUS
    <2>1. CASE Next BY <2>1, NextShape, ShownStep
    <2>2. CASE UNCHANGED vars BY <2>2 DEF vars, svars, ShownIsSent
    <2> QED BY <2>1, <2>2
<1> QED BY <1>1, <1>2, TypeInvariance, PTL DEF Spec

(***************************************************************************)
(* The configuration.                                                      *)
(***************************************************************************)
\* What the reader may hold of file f: its sections, keys and values are of its lines.
Names(f) == {sectionName(f[i]) : i \in 1 .. Len(f)}
Settings(f) == UNION {[K -> {valueOf(f[i]) : i \in 1 .. Len(f)}] :
                          K \in SUBSET {keyOf(f[i]) : i \in 1 .. Len(f)}}
Maps(f) == UNION {[D -> Settings(f)] : D \in SUBSET Names(f)}
Readers(f) == [map_ : Maps(f), m : {Null} \cup {<<x>> : x \in Names(f)}, crashed : BOOLEAN]

\* A section that was named is in the map, so that its settings have a place.
Reader(f, c) == c \in Readers(f) /\ (c.m # Null => c.m[1] \in DOMAIN c.map_)

\* What settings are made of.
LEMMA SettingsSet ==
    ASSUME NEW f, NEW i \in 1 .. Len(f), NEW old \in Settings(f)
    PROVE  set(old, keyOf(f[i]), valueOf(f[i])) \in Settings(f)
<1>. DEFINE Ks == {keyOf(f[j]) : j \in 1 .. Len(f)}
            Vs == {valueOf(f[j]) : j \in 1 .. Len(f)}
            k == keyOf(f[i])
            v == valueOf(f[i])
<1>1. k \in Ks /\ v \in Vs OBVIOUS
<1>2. PICK K \in SUBSET Ks : old \in [K -> Vs] BY DEF Settings
<1>3. Settings(f) = UNION {[L -> Vs] : L \in SUBSET Ks} BY DEF Settings
<1> HIDE DEF Ks, Vs, k, v
<1>4. set(old, k, v) \in [K \cup {k} -> Vs] BY <1>1, <1>2 DEF set
<1>5. K \cup {k} \in SUBSET Ks BY <1>1, <1>2
<1>6. set(old, k, v) \in Settings(f) BY <1>3, <1>4, <1>5
<1> QED BY <1>6 DEF k, v

\* What loadLine does, field by field.
LEMMA LoadLineFields ==
    ASSUME NEW f, NEW c, Reader(f, c), NEW line
    PROVE  LET r == loadLine(c, line) IN
           /\ c.crashed => r = c
           /\ ~c.crashed /\ isSection(line) =>
                 r = [map_ |-> opened(c.map_, sectionName(line)),
                      m |-> <<sectionName(line)>>, crashed |-> FALSE]
           /\ ~c.crashed /\ isSetting(line) /\ c.m = Null =>
                 r = [map_ |-> c.map_, m |-> Null, crashed |-> TRUE]
           /\ ~c.crashed /\ isSetting(line) /\ c.m # Null =>
                 r = [map_ |-> [c.map_ EXCEPT ![c.m[1]] = set(@, keyOf(line), valueOf(line))],
                      m |-> c.m, crashed |-> FALSE]
           /\ ~c.crashed /\ ~isSection(line) /\ ~isSetting(line) => r = c
<1>. DEFINE r == loadLine(c, line)
<1>1. c = [map_ |-> c.map_, m |-> c.m, crashed |-> c.crashed] /\ c.crashed \in BOOLEAN
    BY DEF Reader, Readers
<1>2. isSetting(line) => ~isSection(line) BY DEF isSetting
<1>3. c.crashed => r = c BY DEF loadLine
<1>4. ASSUME ~c.crashed, isSection(line)
      PROVE  r = [map_ |-> opened(c.map_, sectionName(line)),
                  m |-> <<sectionName(line)>>, crashed |-> FALSE]
    <2>1. r = [c EXCEPT !.m = <<sectionName(line)>>, !.map_ = opened(@, sectionName(line))]
        BY <1>2, <1>4 DEF loadLine
    <2> HIDE DEF r
    <2> QED BY <1>1, <1>4, <2>1
<1>5. ASSUME ~c.crashed, isSetting(line), c.m = Null
      PROVE  r = [map_ |-> c.map_, m |-> Null, crashed |-> TRUE]
    <2>1. r = [c EXCEPT !.crashed = TRUE] BY <1>2, <1>5 DEF loadLine
    <2> HIDE DEF r
    <2> QED BY <1>1, <1>5, <2>1
<1>6. ASSUME ~c.crashed, isSetting(line), c.m # Null
      PROVE  r = [map_ |-> [c.map_ EXCEPT ![c.m[1]] = set(@, keyOf(line), valueOf(line))],
                  m |-> c.m, crashed |-> FALSE]
    <2>1. r = [c EXCEPT !.map_[c.m[1]] = set(@, keyOf(line), valueOf(line))]
        BY <1>2, <1>6 DEF loadLine
    <2> HIDE DEF r
    <2> QED BY <1>1, <1>6, <2>1
<1>7. ~c.crashed /\ ~isSection(line) /\ ~isSetting(line) => r = c BY DEF loadLine
<1> QED BY <1>3, <1>4, <1>5, <1>6, <1>7

\* The reader stays one.
LEMMA LoadLineType ==
    ASSUME NEW f, NEW i \in 1 .. Len(f), NEW c, Reader(f, c)
    PROVE  Reader(f, loadLine(c, f[i]))
<1>. DEFINE line == f[i]
            r == loadLine(c, line)
            name == sectionName(line)
            Ss == Settings(f)
<1>1. /\ c.map_ \in Maps(f) /\ c.m \in {Null} \cup {<<x>> : x \in Names(f)}
      /\ c.m # Null => c.m[1] \in DOMAIN c.map_
    BY DEF Reader, Readers
<1>2. PICK D \in SUBSET Names(f) : c.map_ \in [D -> Ss] BY <1>1 DEF Maps
<1>3. name \in Names(f) BY DEF Names
<1>4. ASSUME ~c.crashed, isSection(line) PROVE Reader(f, r)
    <2>1. r = [map_ |-> opened(c.map_, name), m |-> <<name>>, crashed |-> FALSE]
        <3> HIDE DEF line
        <3> QED BY <1>4, LoadLineFields
    <2>2. NoSettings \in Ss
        <3>1. NoSettings \in [{} -> {valueOf(f[j]) : j \in 1 .. Len(f)}] BY DEF NoSettings
        <3> QED BY <3>1 DEF Settings
    <2> HIDE DEF r, name, Ss
    <2>3. opened(c.map_, name) \in [D \cup {name} -> Ss]
        <3>1. CASE name \in D
            <4>1. D \cup {name} = D /\ DOMAIN c.map_ = D BY <1>2, <3>1
            <4> QED BY <1>2, <3>1, <4>1 DEF opened
        <3>2. CASE name \notin D
            <4>1. opened(c.map_, name) = set(c.map_, name, NoSettings) BY <1>2, <3>2 DEF opened
            <4> QED BY <1>2, <2>2, <4>1 DEF set
        <3> QED BY <3>1, <3>2
    <2>4. D \cup {name} \in SUBSET Names(f) BY <1>2, <1>3
    <2>5. opened(c.map_, name) \in Maps(f) BY <2>3, <2>4 DEF Maps, Ss
    <2>6. r.m[1] = name /\ name \in DOMAIN r.map_ BY <2>1, <2>3
    <2> QED BY <1>3, <2>1, <2>5, <2>6 DEF Reader, Readers
<1>5. ASSUME ~c.crashed, isSetting(line), c.m = Null PROVE Reader(f, r)
    <2>1. r = [map_ |-> c.map_, m |-> Null, crashed |-> TRUE] BY <1>5, LoadLineFields
    <2> HIDE DEF r
    <2> QED BY <1>1, <2>1 DEF Reader, Readers
<1>6. ASSUME ~c.crashed, isSetting(line), c.m # Null PROVE Reader(f, r)
    <2>. DEFINE x == c.m[1]
                new == set(c.map_[x], keyOf(line), valueOf(line))
                map == [c.map_ EXCEPT ![x] = new]
    <2>1. r = [map_ |-> map, m |-> c.m, crashed |-> FALSE] BY <1>6, LoadLineFields
    <2>2. x \in D BY <1>1, <1>2, <1>6
    <2>3. c.map_[x] \in Ss BY <1>2, <2>2
    <2>4. new \in Ss BY <2>3, SettingsSet
    <2> HIDE DEF new, Ss, x, r
    <2>5. map \in [D -> Ss] /\ DOMAIN map = D BY <1>2, <2>4
    <2>6. map \in Maps(f) BY <1>2, <2>5 DEF Maps, Ss
    <2>7. r.m = c.m /\ x \in DOMAIN r.map_ BY <2>1, <2>2, <2>5
    <2> HIDE DEF map
    <2> QED BY <1>1, <2>1, <2>6, <2>7 DEF Reader, Readers, x
<1>7. ASSUME c.crashed \/ (~isSection(line) /\ ~isSetting(line)) PROVE Reader(f, r)
    <2>1. r = c BY <1>7, LoadLineFields
    <2> HIDE DEF r
    <2> QED BY <2>1
<1> QED BY <1>4, <1>5, <1>6, <1>7

\* The reader after each line, and the equation that load solves.
Loads(g, f) ==
    /\ \A n \in 0 .. Len(f) : Reader(f, g[n])
    /\ g[0] = Loaded
    /\ \A n \in 1 .. Len(f) : g[n] = loadLine(g[n - 1], f[n])

loads(g, f) ==
    g = [n \in 0 .. Len(f) |-> IF n = 0 THEN Loaded ELSE loadLine(g[n - 1], f[n])]

\* The loop runs, and load returns what it leaves.
LEMMA LoadIsLastRound ==
    ASSUME NEW S, NEW f \in Seq(S)
    PROVE  \E g : Loads(g, f) /\ load(f) = g[Len(f)]
<1>. DEFINE D == {c \in Readers(f) : Reader(f, c)}
            step == [p \in D \X (1 .. Len(f)) |-> loadLine(p[1], f[p[2]])]
            h == CHOOSE h : loads(h, f)
<1>1. Len(f) \in Nat BY LenProperties
<1>2. Loaded \in D
    <2>1. [s \in {} |-> NoSettings] \in [{} -> Settings(f)] OBVIOUS
    <2>2. Loaded.map_ \in Maps(f) /\ Loaded.m = Null BY <2>1 DEF Loaded, Maps
    <2>3. Loaded \in Readers(f) BY <2>2 DEF Loaded, Readers
    <2> QED BY <2>2, <2>3 DEF Reader
<1>3. step \in [D \X (1 .. Len(f)) -> D]
    <2>1. ASSUME NEW p \in D \X (1 .. Len(f)) PROVE loadLine(p[1], f[p[2]]) \in D
        <3>1. Reader(f, p[1]) /\ p[2] \in 1 .. Len(f) BY <2>1
        <3>2. Reader(f, loadLine(p[1], f[p[2]])) BY <3>1, LoadLineType
        <3> QED BY <3>2 DEF Reader
    <2> HIDE DEF D
    <2> QED BY <2>1
<1>4. \A c \in D, n \in 1 .. Len(f) : step[<<c, n>>] = loadLine(c, f[n]) OBVIOUS
<1>5. \A c \in D : Reader(f, c) OBVIOUS
<1> HIDE DEF D, step
<1>6. PICK g \in [0 .. Len(f) -> D] : Rounds(g, Loaded, step, Len(f))
    BY <1>1, <1>2, <1>3, RoundsExist
<1>7. ASSUME NEW n \in 1 .. Len(f) PROVE g[n] = loadLine(g[n - 1], f[n])
    <2>1. n - 1 \in 0 .. Len(f) BY <1>1
    <2> QED BY <1>4, <1>6, <2>1 DEF Rounds
<1>8. g[0] = Loaded BY <1>6 DEF Rounds
<1>9. Loads(g, f) BY <1>5, <1>6, <1>7, <1>8 DEF Loads
<1>10. loads(g, f)
    <2>1. ASSUME NEW n \in 0 .. Len(f)
          PROVE  g[n] = IF n = 0 THEN Loaded ELSE loadLine(g[n - 1], f[n])
        <3>1. n = 0 \/ n \in 1 .. Len(f) BY <1>1
        <3> QED BY <1>7, <1>8, <3>1
    <2>2. DOMAIN g = 0 .. Len(f) /\ g = [n \in DOMAIN g |-> g[n]] BY <1>6
    <2> QED BY <2>1, <2>2 DEF loads
<1>11. loads(h, f) BY <1>10
<1>12. load(f) = h[Len(f)] BY DEF load, loads
<1> HIDE DEF h
<1>13. \A n \in 0 .. Len(f) : h[n] = IF n = 0 THEN Loaded ELSE loadLine(h[n - 1], f[n])
    BY <1>11 DEF loads
<1>. DEFINE P == {n \in 0 .. Len(f) : h[n] = g[n]}
<1>14. 0 \in P BY <1>1, <1>8, <1>13
<1>15. ASSUME NEW n \in 0 .. Len(f), n \in P, n # Len(f) PROVE n + 1 \in P
    <2>1. n + 1 \in 1 .. Len(f) /\ n + 1 \in 0 .. Len(f) /\ n + 1 # 0 /\ (n + 1) - 1 = n
        BY <1>1, <1>15
    <2>2. h[n + 1] = loadLine(h[n], f[n + 1]) BY <1>13, <2>1
    <2>3. g[n + 1] = loadLine(g[n], f[n + 1]) BY <1>7, <2>1
    <2> QED BY <1>15, <2>1, <2>2, <2>3
<1>16. Len(f) \in P
    <2> HIDE DEF P
    <2>1. \A n \in 0 .. Len(f) : n \in P BY <1>1, <1>14, <1>15, EveryRound
    <2> QED BY <1>1, <2>1
<1> QED BY <1>9, <1>12, <1>16
\* The first n lines of f, read without a reader: a setting before any section, the line
\* that opened the section in force, and the settings of key k in section s.
HeadlessTo(f, n) == \E i \in 1 .. n : isSetting(f[i]) /\ \A h \in 1 .. i - 1 : ~isSection(f[h])
inForce(f, h, n) == h \in 1 .. n /\ isSection(f[h]) /\ \A j \in h + 1 .. n : ~isSection(f[j])
setTo(f, n, s, k) == {i \in 1 .. n : isSetting(f[i]) /\ keyOf(f[i]) = k /\ under(f, i, s)}

has(c, s, k) == s \in DOMAIN c.map_ /\ k \in DOMAIN c.map_[s]

\* What the reader has made of them.
Meant(c, f, n) ==
    /\ c.crashed <=> HeadlessTo(f, n)
    /\ ~c.crashed =>
          /\ c.m = Null => \A h \in 1 .. n : ~isSection(f[h])
          /\ c.m # Null => \E h \in 1 .. n : inForce(f, h, n) /\ sectionName(f[h]) = c.m[1]
          /\ \A s, k : ~has(c, s, k) => setTo(f, n, s, k) = {}
          /\ \A s, k : has(c, s, k) =>
                \E i \in setTo(f, n, s, k) : /\ \A j \in setTo(f, n, s, k) : j <= i
                                             /\ c.map_[s][k] = valueOf(f[i])

\* The next line is under the section in force.
LEMMA UnderNext ==
    ASSUME NEW f, NEW n \in Nat, NEW h \in 1 .. n, inForce(f, h, n)
    PROVE  \A s : under(f, n + 1, s) <=> s = sectionName(f[h])
<1>1. (n + 1) - 1 = n OBVIOUS
<1>2. ASSUME NEW s, NEW g \in 1 .. n, isSection(f[g]), sectionName(f[g]) = s,
             \A j \in g + 1 .. n : ~isSection(f[j])
      PROVE  s = sectionName(f[h])
    <2>1. CASE g < h
        <3>1. h \in g + 1 .. n BY <2>1
        <3> QED BY <1>2, <3>1 DEF inForce
    <2>2. CASE h < g
        <3>1. g \in h + 1 .. n BY <2>2
        <3> QED BY <1>2, <3>1 DEF inForce
    <2>3. CASE g = h BY <1>2, <2>3
    <2> QED BY <2>1, <2>2, <2>3
<1>3. under(f, n + 1, sectionName(f[h])) BY <1>1 DEF under, inForce
<1> QED BY <1>1, <1>2, <1>3 DEF under

\* A line that sets nothing leaves the settings as they were, and one that does not begin a
\* section the section in force.
LEMMA NextLine ==
    ASSUME NEW f, NEW n \in Nat
    PROVE  /\ ~isSetting(f[n + 1]) =>
                /\ \A s, k : setTo(f, n + 1, s, k) = setTo(f, n, s, k)
                /\ HeadlessTo(f, n + 1) <=> HeadlessTo(f, n)
           /\ ~isSection(f[n + 1]) => \A h \in 1 .. n : inForce(f, h, n) => inForce(f, h, n + 1)
           /\ HeadlessTo(f, n) => HeadlessTo(f, n + 1)
           /\ n + 1 \in 1 .. n + 1 /\ \A i \in 1 .. n + 1 : i # n + 1 => i \in 1 .. n
           /\ \A i \in 1 .. n : i \in 1 .. n + 1 /\ i # n + 1
<1>1. /\ n + 1 \in 1 .. n + 1 /\ \A i \in 1 .. n + 1 : i # n + 1 => i \in 1 .. n
      /\ \A i \in 1 .. n : i \in 1 .. n + 1 /\ i # n + 1
    OBVIOUS
<1>2. ~isSetting(f[n + 1]) => \A s, k : setTo(f, n + 1, s, k) = setTo(f, n, s, k)
    BY <1>1 DEF setTo
<1>3. ~isSetting(f[n + 1]) => (HeadlessTo(f, n + 1) <=> HeadlessTo(f, n)) BY <1>1 DEF HeadlessTo
<1>4. HeadlessTo(f, n) => HeadlessTo(f, n + 1) BY <1>1 DEF HeadlessTo
<1>5. ASSUME ~isSection(f[n + 1]), NEW h \in 1 .. n, inForce(f, h, n) PROVE inForce(f, h, n + 1)
    <2>1. \A j \in h + 1 .. n + 1 : j \in h + 1 .. n \/ j = n + 1 OBVIOUS
    <2> QED BY <1>1, <1>5, <2>1 DEF inForce
<1> QED BY <1>1, <1>2, <1>3, <1>4, <1>5

\* One more line keeps it so.
LEMMA MeantNext ==
    ASSUME NEW f, NEW n \in Nat, NEW c, Reader(f, c), Meant(c, f, n)
    PROVE  Meant(loadLine(c, f[n + 1]), f, n + 1)
<1>. DEFINE line == f[n + 1]
            r == loadLine(c, line)
<1> SUFFICES Meant(r, f, n + 1) OBVIOUS
<1>1. /\ ~isSetting(line) =>
                /\ \A s, k : setTo(f, n + 1, s, k) = setTo(f, n, s, k)
                /\ HeadlessTo(f, n + 1) <=> HeadlessTo(f, n)
      /\ ~isSection(line) => \A h \in 1 .. n : inForce(f, h, n) => inForce(f, h, n + 1)
      /\ HeadlessTo(f, n) => HeadlessTo(f, n + 1)
      /\ n + 1 \in 1 .. n + 1 /\ \A i \in 1 .. n + 1 : i # n + 1 => i \in 1 .. n
      /\ \A i \in 1 .. n : i \in 1 .. n + 1 /\ i # n + 1
    BY NextLine
<1>2. c.crashed => r = c BY LoadLineFields
<1>3. CASE c.crashed
    <2>1. r.crashed /\ HeadlessTo(f, n) BY <1>2, <1>3 DEF Meant
    <2> HIDE DEF r
    <2> QED BY <1>1, <2>1 DEF Meant
<1>4. CASE ~c.crashed /\ isSection(line)
    <2>. DEFINE name == sectionName(line)
    <2>1. r = [map_ |-> opened(c.map_, name), m |-> <<name>>, crashed |-> FALSE]
        <3> HIDE DEF line
        <3> QED BY <1>4, LoadLineFields
    <2>2. ~isSetting(line) BY <1>4 DEF isSetting
    <2> HIDE DEF r
    <2>3. inForce(f, n + 1, n + 1)
        <3>1. \A j \in (n + 1) + 1 .. n + 1 : FALSE OBVIOUS
        <3> QED BY <1>1, <1>4, <3>1 DEF inForce
    <2>4. r.m = <<name>> /\ r.m # Null /\ r.m[1] = name /\ ~r.crashed BY <2>1 DEF Null
    <2>5. ASSUME NEW s, NEW k
          PROVE  /\ has(r, s, k) <=> has(c, s, k)
                 /\ has(c, s, k) => r.map_[s] = c.map_[s]
        <3>1. r.map_ = opened(c.map_, name) BY <2>1
        <3> HIDE DEF name
        <3>2. CASE name \in DOMAIN c.map_ BY <3>1, <3>2 DEF opened, has
        <3>3. CASE name \notin DOMAIN c.map_
            <4>1. r.map_ = set(c.map_, name, NoSettings) BY <3>1, <3>3 DEF opened
            <4>2. /\ DOMAIN r.map_ = DOMAIN c.map_ \cup {name} /\ r.map_[name] = NoSettings
                  /\ \A x \in DOMAIN c.map_ : x # name => r.map_[x] = c.map_[x]
                BY <4>1 DEF set
            <4>3. DOMAIN NoSettings = {} BY DEF NoSettings
            <4> QED BY <3>3, <4>2, <4>3 DEF has
        <3> QED BY <3>2, <3>3
    <2>6. ~HeadlessTo(f, n + 1) BY <1>1, <1>4, <2>2 DEF Meant
    <2>7. \A s, k : ~has(r, s, k) => setTo(f, n + 1, s, k) = {} BY <1>1, <1>4, <2>2, <2>5 DEF Meant
    <2>8. ASSUME NEW s, NEW k, has(r, s, k)
          PROVE  \E i \in setTo(f, n + 1, s, k) : /\ \A j \in setTo(f, n + 1, s, k) : j <= i
                                                  /\ r.map_[s][k] = valueOf(f[i])
        <3>1. has(c, s, k) /\ r.map_[s] = c.map_[s] /\ setTo(f, n + 1, s, k) = setTo(f, n, s, k)
            BY <1>1, <2>2, <2>5, <2>8
        <3>2. \E i \in setTo(f, n, s, k) : /\ \A j \in setTo(f, n, s, k) : j <= i
                                           /\ c.map_[s][k] = valueOf(f[i])
            BY <1>4, <3>1 DEF Meant
        <3> QED BY <3>1, <3>2
    <2> QED BY <1>1, <2>3, <2>4, <2>6, <2>7, <2>8 DEF Meant
<1>5. CASE ~c.crashed /\ isSetting(line) /\ c.m = Null
    <2>1. r = [map_ |-> c.map_, m |-> Null, crashed |-> TRUE] BY <1>5, LoadLineFields
    <2> HIDE DEF r
    <2>2. \A h \in 1 .. n : ~isSection(f[h]) BY <1>5 DEF Meant
    <2>3. (n + 1) - 1 = n OBVIOUS
    <2>4. HeadlessTo(f, n + 1) BY <1>1, <1>5, <2>2, <2>3 DEF HeadlessTo
    <2> QED BY <2>1, <2>4 DEF Meant
<1>6. CASE ~c.crashed /\ isSetting(line) /\ c.m # Null
    <2>. DEFINE x == c.m[1]
                key == keyOf(line)
                new == set(c.map_[x], key, valueOf(line))
    <2>1. r = [map_ |-> [c.map_ EXCEPT ![x] = new], m |-> c.m, crashed |-> FALSE]
        BY <1>6, LoadLineFields
    <2>2. ~isSection(line) BY <1>6 DEF isSetting
    <2>3. PICK h \in 1 .. n : inForce(f, h, n) /\ sectionName(f[h]) = x BY <1>6 DEF Meant
    <2>4. inForce(f, h, n + 1) /\ h \in 1 .. n + 1 BY <1>1, <2>2, <2>3
    <2>5. \A s : under(f, n + 1, s) <=> s = x BY <2>3, UnderNext
    <2>6. x \in DOMAIN c.map_ BY <1>6 DEF Reader
    <2> HIDE DEF r, x
    <2>7. /\ r.m = c.m /\ ~r.crashed /\ DOMAIN r.map_ = DOMAIN c.map_ /\ r.map_[x] = new
          /\ \A s \in DOMAIN c.map_ : s # x => r.map_[s] = c.map_[s]
        <3>1. c.map_ = [s \in DOMAIN c.map_ |-> c.map_[s]] BY DEF Reader, Readers, Maps
        <3> QED BY <2>1, <2>6, <3>1
    <2>8. /\ DOMAIN new = DOMAIN c.map_[x] \cup {key} /\ new[key] = valueOf(line)
          /\ \A k \in DOMAIN c.map_[x] : k # key => new[k] = c.map_[x][k]
        BY DEF set
    <2> HIDE DEF new
    <2>9. \A s, k : has(r, s, k) <=> has(c, s, k) \/ (s = x /\ k = key)
        BY <2>6, <2>7, <2>8 DEF has
    <2>10. \A s, k : setTo(f, n + 1, s, k) =
              setTo(f, n, s, k) \cup (IF s = x /\ k = key THEN {n + 1} ELSE {})
        BY <1>1, <1>6, <2>5 DEF setTo
    <2>11. ~HeadlessTo(f, n + 1)
        <3>1. ~HeadlessTo(f, n) BY <1>6 DEF Meant
        <3>2. (n + 1) - 1 = n /\ isSection(f[h]) BY <2>3 DEF inForce
        <3> QED BY <1>1, <2>3, <3>1, <3>2 DEF HeadlessTo
    <2>12. ASSUME NEW s, NEW k, ~has(r, s, k) PROVE setTo(f, n + 1, s, k) = {}
        <3>1. ~has(c, s, k) /\ ~(s = x /\ k = key) BY <2>9, <2>12
        <3>2. setTo(f, n, s, k) = {} BY <1>6, <3>1 DEF Meant
        <3> QED BY <2>10, <3>1, <3>2
    <2>13. ASSUME NEW s, NEW k, has(r, s, k)
           PROVE  \E i \in setTo(f, n + 1, s, k) : /\ \A j \in setTo(f, n + 1, s, k) : j <= i
                                                   /\ r.map_[s][k] = valueOf(f[i])
        <3>1. CASE s = x /\ k = key
            <4>1. setTo(f, n + 1, s, k) = setTo(f, n, s, k) \cup {n + 1} BY <2>10, <3>1
            <4>2. \A j \in setTo(f, n, s, k) : j <= n + 1 BY DEF setTo
            <4>3. \A j \in setTo(f, n + 1, s, k) : j <= n + 1 BY <4>1, <4>2
            <4>4. r.map_[s][k] = valueOf(f[n + 1]) BY <2>7, <2>8, <3>1
            <4> QED BY <4>1, <4>3, <4>4
        <3>2. CASE ~(s = x /\ k = key)
            <4>1. has(c, s, k) /\ setTo(f, n + 1, s, k) = setTo(f, n, s, k)
                <5>1. has(c, s, k) BY <2>9, <2>13, <3>2
                <5>2. setTo(f, n + 1, s, k) = setTo(f, n, s, k) \cup {} BY <2>10, <3>2
                <5> QED BY <5>1, <5>2
            <4>2. \E i \in setTo(f, n, s, k) : /\ \A j \in setTo(f, n, s, k) : j <= i
                                               /\ c.map_[s][k] = valueOf(f[i])
                BY <1>6, <4>1 DEF Meant
            <4>3. r.map_[s][k] = c.map_[s][k] BY <2>7, <2>8, <3>2, <4>1 DEF has
            <4> QED BY <4>1, <4>2, <4>3
        <3> QED BY <3>1, <3>2
    <2>14. r.m # Null /\ r.m[1] = x BY <1>6, <2>7 DEF x
    <2> QED BY <2>3, <2>4, <2>7, <2>11, <2>12, <2>13, <2>14 DEF Meant
<1>7. CASE ~c.crashed /\ ~isSection(line) /\ ~isSetting(line)
    <2>1. r = c BY <1>7, LoadLineFields
    <2> HIDE DEF r
    <2>2. ~HeadlessTo(f, n + 1) BY <1>1, <1>7 DEF Meant
    <2>3. c.m = Null => \A h \in 1 .. n + 1 : ~isSection(f[h]) BY <1>1, <1>7 DEF Meant
    <2>4. c.m # Null => \E h \in 1 .. n + 1 : inForce(f, h, n + 1) /\ sectionName(f[h]) = c.m[1]
        BY <1>1, <1>7 DEF Meant
    <2>5. \A s, k : setTo(f, n + 1, s, k) = setTo(f, n, s, k) BY <1>1, <1>7
    <2>6. \A s, k : ~has(c, s, k) => setTo(f, n + 1, s, k) = {} BY <1>7, <2>5 DEF Meant
    <2>7. ASSUME NEW s, NEW k, has(c, s, k)
          PROVE  \E i \in setTo(f, n + 1, s, k) : /\ \A j \in setTo(f, n + 1, s, k) : j <= i
                                                  /\ c.map_[s][k] = valueOf(f[i])
        BY <1>7, <2>5, <2>7 DEF Meant
    <2> QED BY <1>7, <2>1, <2>2, <2>3, <2>4, <2>6, <2>7 DEF Meant
<1> QED BY <1>3, <1>4, <1>5, <1>6, <1>7
\* What the reader holds of a whole file is what the file means: the last setting of the key
\* under its section, however often the section was opened, and nothing else; and it fails
\* exactly where a setting is above every section.
LEMMA LoadMeans ==
    ASSUME NEW S, NEW f \in Seq(S)
    PROVE  /\ load(f).crashed <=> Headless(f)
           /\ ~load(f).crashed =>
                 \A s, k : /\ ~has(load(f), s, k) => setAt(f, s, k) = {}
                           /\ has(load(f), s, k) =>
                                 /\ setAt(f, s, k) # {}
                                 /\ \A d : load(f).map_[s][k] = Meaning(f, s, k, d)
<1>1. Len(f) \in Nat BY LenProperties
<1>0. DOMAIN f = 1 .. Len(f) BY LenProperties
<1>2. PICK g : Loads(g, f) /\ load(f) = g[Len(f)] BY LoadIsLastRound
<1>. DEFINE P == {n \in 0 .. Len(f) : Meant(g[n], f, n)}
            c == load(f)
<1>3. 0 \in P
    <2>1. g[0].m = Null /\ g[0].crashed = FALSE /\ DOMAIN g[0].map_ = {}
        <3>1. g[0] = Loaded BY <1>2 DEF Loads
        <3>2. Loaded.m = Null /\ Loaded.crashed = FALSE /\ DOMAIN Loaded.map_ = {} BY DEF Loaded
        <3> QED BY <3>1, <3>2
    <2>2. \A i \in 1 .. 0 : FALSE OBVIOUS
    <2>3. ~HeadlessTo(f, 0) BY <2>2 DEF HeadlessTo
    <2>4. \A s, k : ~has(g[0], s, k) /\ setTo(f, 0, s, k) = {} BY <2>1, <2>2 DEF has, setTo
    <2>5. Meant(g[0], f, 0) BY <2>1, <2>2, <2>3, <2>4 DEF Meant
    <2> QED BY <1>1, <2>5
<1>4. ASSUME NEW n \in 0 .. Len(f), n \in P, n # Len(f) PROVE n + 1 \in P
    <2>1. n + 1 \in 1 .. Len(f) /\ n + 1 \in 0 .. Len(f) /\ (n + 1) - 1 = n /\ n \in Nat
        <3> HIDE DEF P
        <3> QED BY <1>1, <1>4
    <2>2. Reader(f, g[n]) /\ g[n + 1] = loadLine(g[n], f[n + 1]) BY <1>2, <2>1 DEF Loads
    <2>3. Meant(loadLine(g[n], f[n + 1]), f, n + 1) BY <1>4, <2>1, <2>2, MeantNext
    <2> QED BY <2>1, <2>2, <2>3
<1>5. Len(f) \in P
    <2> HIDE DEF P
    <2>1. \A n \in 0 .. Len(f) : n \in P BY <1>1, <1>3, <1>4, EveryRound
    <2> QED BY <1>1, <2>1
<1>6. Meant(c, f, Len(f)) BY <1>2, <1>5
<1> HIDE DEF c, P
<1>7. HeadlessTo(f, Len(f)) <=> Headless(f) BY <1>0 DEF HeadlessTo, Headless
<1>8. \A s, k : setTo(f, Len(f), s, k) = setAt(f, s, k) BY <1>0 DEF setTo, setAt
<1>9. c.crashed <=> Headless(f) BY <1>6, <1>7 DEF Meant
<1>10. ASSUME ~c.crashed, NEW s, NEW k, has(c, s, k)
       PROVE  setAt(f, s, k) # {} /\ \A d : c.map_[s][k] = Meaning(f, s, k, d)
    <2>. DEFINE L == setAt(f, s, k)
                last == CHOOSE i \in L : \A j \in L : j <= i
    <2>1. \E i \in setTo(f, Len(f), s, k) : /\ \A j \in setTo(f, Len(f), s, k) : j <= i
                                            /\ c.map_[s][k] = valueOf(f[i])
        BY <1>6, <1>10 DEF Meant
    <2>2. PICK i \in L : (\A j \in L : j <= i) /\ c.map_[s][k] = valueOf(f[i]) BY <1>8, <2>1
    <2>3. L \subseteq Nat BY <1>0 DEF setAt
    <2> HIDE DEF L
    <2>4. last \in L /\ \A j \in L : j <= last BY <2>2
    <2>5. last = i
        <3>1. last <= i /\ i <= last /\ last \in Nat /\ i \in Nat BY <2>2, <2>3, <2>4
        <3> HIDE DEF last
        <3> QED BY <3>1
    <2>6. \A d : Meaning(f, s, k, d) = valueOf(f[last])
        <3>1. L # {} BY <2>2
        <3> QED BY <3>1 DEF Meaning, L
    <2> HIDE DEF last
    <2> QED BY <2>2, <2>5, <2>6 DEF L
<1>11. \A s, k : ~c.crashed /\ ~has(c, s, k) => setAt(f, s, k) = {} BY <1>6, <1>8 DEF Meant
<1> QED BY <1>9, <1>10, <1>11 DEF c

\* The file is there only between reading it and using it.
ConfigInv ==
    /\ ConfiguredServer
    /\ pc = "configured" => program = "version2"
    /\ file # <<>> => program = "version2" /\ pc \in {"configured", "crashed"}

\* What main makes of its configuration.
LEMMA ReadConfigured ==
    ASSUME ReadConfig PROVE ConfigInv'
<1>1. PICK f \in Files :
        /\ file' = f
        /\ target' = [ip   |-> getString(setPath(f).map_, <<"client">>, <<"server_addr">>, Server.ip),
                      port |-> port16(getNumber(setPath(f).map_, <<"client">>, <<"server_port">>, 20000))]
        /\ pc' = IF setPath(f).crashed THEN "crashed" ELSE "configured"
        /\ program = "version2" /\ program' = program
    BY DEF ReadConfig, goto, At2
<1>. DEFINE c == load(f)
            cl == <<"client">>
            addr == <<"server_addr">>
            prt == <<"server_port">>
            dflt == <<"20000">>
<1>2. f \in Seq(Seq(STRING)) BY FilesAssumption DEF FilesAssumption
<1>3. /\ c.crashed <=> Headless(f)
      /\ ~c.crashed =>
            \A s, k : /\ ~has(c, s, k) => setAt(f, s, k) = {}
                      /\ has(c, s, k) =>
                            /\ setAt(f, s, k) # {}
                            /\ \A d : c.map_[s][k] = Meaning(f, s, k, d)
    BY <1>2, LoadMeans
<1>4. setPath(f) = c BY DEF setPath
<1>5. /\ target'.ip = getString(c.map_, cl, addr, Server.ip)
      /\ target'.port = port16(getNumber(c.map_, cl, prt, 20000))
      /\ pc' = IF c.crashed THEN "crashed" ELSE "configured"
    BY <1>1, <1>4
<1> HIDE DEF c, cl, addr, prt, dflt
<1>6. \A s, k, d : setAt(f, s, k) = {} => Meaning(f, s, k, d) = d BY DEF Meaning
<1>7. ASSUME ~c.crashed PROVE target'.ip = Meaning(f, cl, addr, Server.ip)
    <2>1. CASE has(c, cl, addr)
        <3>1. target'.ip = c.map_[cl][addr] BY <1>5, <2>1 DEF getString, has
        <3> QED BY <1>3, <1>7, <2>1, <3>1
    <2>2. CASE ~has(c, cl, addr)
        <3>1. target'.ip = Server.ip BY <1>5, <2>2 DEF getString, has
        <3> QED BY <1>3, <1>6, <1>7, <2>2, <3>1
    <2> QED BY <2>1, <2>2
<1>8. ASSUME ~c.crashed
      PROVE  target'.port = 20000 <=> Meaning(f, cl, prt, dflt) \in {<<"20000">>, <<"85536">>}
    <2>1. CASE has(c, cl, prt)
        <3>. DEFINE v == Meaning(f, cl, prt, dflt)
        <3>1. c.map_[cl][prt] = v BY <1>3, <1>8, <2>1
        <3> HIDE DEF v
        <3>2. target'.port = port16(parseNumber(v)) BY <1>5, <2>1, <3>1 DEF getNumber, has
        <3>3. CASE v = <<"20000">> BY <3>2, <3>3 DEF parseNumber, port16, v
        <3>4. CASE v = <<"85536">> BY <3>2, <3>4 DEF parseNumber, port16, v
        <3>5. CASE v # <<"20000">> /\ v # <<"85536">> BY <3>2, <3>5 DEF parseNumber, port16, v
        <3> QED BY <3>3, <3>4, <3>5
    <2>2. CASE ~has(c, cl, prt)
        <3>1. target'.port = port16(20000) BY <1>5, <2>2 DEF getNumber, has
        <3>2. port16(20000) = 20000 BY DEF port16
        <3>3. Meaning(f, cl, prt, dflt) = dflt BY <1>3, <1>6, <1>8, <2>2
        <3> QED BY <3>1, <3>2, <3>3 DEF dflt
    <2> QED BY <2>1, <2>2
<1>9. (ConfiguredServer)' <=>
        /\ pc' = "configured" =>
              /\ ~Headless(f)
              /\ target'.ip = Meaning(f, cl, addr, Server.ip)
              /\ target'.port = 20000 <=> Meaning(f, cl, prt, dflt) \in {<<"20000">>, <<"85536">>}
        /\ pc' = "crashed" /\ f # <<>> => Headless(f)
    BY <1>1 DEF ConfiguredServer, cl, addr, prt, dflt
<1>10. ConfiguredServer' BY <1>3, <1>5, <1>7, <1>8, <1>9
<1>11. pc' \in {"configured", "crashed"} BY <1>5
<1> QED BY <1>1, <1>10, <1>11 DEF ConfigInv

\* The steps that do not read the configuration.
LEMMA ConfigKept ==
    ASSUME ConfigInv, Next, ~ReadConfig PROVE ConfigInv'
<1>. USE DEF goto
<1>1. CASE NetworkStep
    <2>1. UNCHANGED <<program, pc, target, file>> BY <1>1 DEF NetworkStep, Network, v2vars
    <2> QED BY <2>1 DEF ConfigInv, ConfiguredServer
<1>2. CASE Construct
    <2>1. file' = <<>> /\ pc' \in {"connect", "crashed"}
        BY <1>2 DEF Construct, createNonblockingOrDie, Fatal
    <2> QED BY <2>1 DEF ConfigInv, ConfiguredServer
<1>3. ASSUME V2Step, ~Construct PROVE ConfigInv'
    <2>1. /\ program = "version2" /\ file' = file
          /\ pc \in {"connect", "check", "poll", "recv", "return"} /\ pc' # "configured"
        BY <1>3 DEF V2Step, AsyncConnect, afterConnect, isConnectSucc, CheckReceivedData, closeFd,
                    RecvData, onReceived, Return2, Fatal, At2
    <2>2. file' = <<>> BY <2>1 DEF ConfigInv
    <2> QED BY <2>1, <2>2 DEF ConfigInv, ConfiguredServer
<1>4. CASE V1Step /\ UNCHANGED v2vars
    <2>1. program = "version1" /\ file' = file /\ pc' # "configured"
        BY <1>4 DEF v2vars, V1Step, At1, initSocket, setNonblock, connectServer, isConnectSucc1,
                    closeFailed, getMsg, Return1
    <2>2. file' = <<>> BY <2>1 DEF ConfigInv
    <2> QED BY <2>1, <2>2 DEF ConfigInv, ConfiguredServer
<1>5. CASE YxsStep /\ UNCHANGED v2vars
    <2>1. program = "yxs" /\ file' = file /\ pc' # "configured"
        BY <1>5 DEF v2vars, YxsStep, AtY, Start_TCP, joinUnset, Initsocket, initialised, ConnectInits,
                    Connect, Connected, Close, handlerMsg_TCP, afterHandler, DataRw
    <2>2. file' = <<>> BY <2>1 DEF ConfigInv
    <2> QED BY <2>1, <2>2 DEF ConfigInv, ConfiguredServer
<1>6. CASE TestsStep /\ UNCHANGED v2vars
    <2>1. program \in {"yxstest", "yxstest_v1"} /\ file' = file /\ pc' # "configured"
        BY <1>6 DEF v2vars, TestsStep, AtT, AtTV, unblock_connect, waitConnected, closeUnconnected,
                    sendAfterShutdown, connectOrExit, loop, break
    <2>2. file' = <<>> BY <2>1 DEF ConfigInv
    <2> QED BY <2>1, <2>2 DEF ConfigInv, ConfiguredServer
<1> QED BY <1>1, <1>2, <1>3, <1>4, <1>5, <1>6 DEF Next, ClientStep

\* Version 2 goes where its configuration says, for every file: sections may be opened again,
\* settings repeated, lines malformed; and a file without a section above a setting ends it.
THEOREM ConfigurationCorrect == Spec => []ConfiguredServer
<1>1. Init => ConfigInv BY DEF Init, ConfigInv, ConfiguredServer
<1>2. ConfigInv /\ [Next]_vars => ConfigInv'
    <2> SUFFICES ASSUME ConfigInv, [Next]_vars PROVE ConfigInv' OBVIOUS
    <2>1. CASE Next BY <2>1, ReadConfigured, ConfigKept
    <2>2. CASE UNCHANGED vars BY <2>2 DEF vars, svars, v2vars, ConfigInv, ConfiguredServer
    <2> QED BY <2>1, <2>2
<1>3. ConfigInv => ConfiguredServer BY DEF ConfigInv
<1> QED BY <1>1, <1>2, <1>3, PTL DEF Spec
=============================================================================
