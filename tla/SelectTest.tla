----------------------------- MODULE SelectTest -----------------------------
(***************************************************************************)
(* select_test.cpp: a server with a table of MAXCLINE client slots and one *)
(* select() loop.  A slot that is not in use holds zero.                   *)
(***************************************************************************)
EXTENDS SelectKernel

CONSTANT MAXCLINE  \* slots (5)

ASSUME SlotAssumption == MAXCLINE \in Nat \ {0}

VARIABLES fd,            \* fd[], the descriptors in the slots
          conn_amount, maxsock,
          fdsr,          \* what select left in fdsr
          i,             \* the loop variable over the slots
          pc             \* "select", "serve", "accept" or "exit"

serverVars == <<fd, conn_amount, maxsock, fdsr, i, pc>>
vars == <<serverVars, kernelVars>>

Slot == 0 .. MAXCLINE - 1

used == {s \in Slot : fd[s] # 0}

Init ==
    /\ fd = [s \in Slot |-> 0]
    /\ conn_amount = 0
    /\ maxsock = sock_fd
    /\ fdsr = {}
    /\ i = 0
    /\ pc = "select"
    /\ KernelInit

(***************************************************************************)
(* One round of the loop: select, the slots, the listening socket.         *)
(***************************************************************************)
watched == {sock_fd} \cup {fd[s] : s \in used}

\* select(maxsock + 1, ...) looks at no descriptor above maxsock.
selected == {f \in watched : f <= maxsock /\ readable(f)}

\* A round of select that times out changes nothing and is not a step here.
Select ==
    /\ pc = "select"
    /\ selected # {}
    /\ fdsr' = selected
    /\ i' = 0
    /\ pc' = "serve"
    /\ UNCHANGED <<fd, conn_amount, maxsock, kernelVars>>

\* A signal interrupts select: the loop ends, and with it the process.
SelectFails ==
    /\ pc = "select"
    /\ pc' = "exit"
    /\ UNCHANGED <<fd, conn_amount, maxsock, fdsr, i, kernelVars>>

\* The bound of the loop is conn_amount, not the number of slots, and it shrinks with
\* every client closed on the way.
slotsLeft == i < conn_amount

\* Mutant of CloseClient: the client is not counted out.
CloseClientCounted ==
    /\ pc = "serve"
    /\ slotsLeft
    /\ fd[i] \in fdsr
    /\ incoming[fd[i]] = "closed"
    /\ closes(fd[i])
    /\ fdsr' = fdsr \ {fd[i]}
    /\ fd' = [fd EXCEPT ![i] = 0]
    /\ i' = i + 1
    /\ UNCHANGED <<conn_amount, maxsock, pc>>

\* recv returns zero or an error: the peer is gone.
CloseClient ==
    /\ pc = "serve"
    /\ slotsLeft
    /\ fd[i] \in fdsr
    /\ incoming[fd[i]] = "closed"
    /\ closes(fd[i])
    /\ fdsr' = fdsr \ {fd[i]}
    /\ fd' = [fd EXCEPT ![i] = 0]
    /\ conn_amount' = conn_amount - 1
    /\ i' = i + 1
    /\ UNCHANGED <<maxsock, pc>>

ReadClient ==
    /\ pc = "serve"
    /\ slotsLeft
    /\ fd[i] \in fdsr
    /\ receives(fd[i])
    /\ i' = i + 1
    /\ UNCHANGED <<fd, conn_amount, maxsock, fdsr, pc>>

\* FD_ISSET is false, also of an empty slot: descriptor 0 is never watched.
SkipSlot ==
    /\ pc = "serve"
    /\ slotsLeft
    /\ fd[i] \notin fdsr
    /\ i' = i + 1
    /\ UNCHANGED <<fd, conn_amount, maxsock, fdsr, pc, kernelVars>>

SlotsDone ==
    /\ pc = "serve"
    /\ ~slotsLeft
    /\ pc' = IF sock_fd \in fdsr THEN "accept" ELSE "select"
    /\ UNCHANGED <<fd, conn_amount, maxsock, fdsr, i, kernelVars>>

\* The slot a new client gets.
firstFree(s) == fd[s] = 0 /\ \A r \in Slot : r < s => fd[r] # 0

storeClient(f) == fd' = [s \in Slot |-> IF firstFree(s) THEN f ELSE fd[s]]

\* Mutant of keepClient: a full table takes one more.
keepClientOver(f) ==
    IF conn_amount <= MAXCLINE
      THEN /\ storeClient(f)
           /\ conn_amount' = conn_amount + 1
           /\ maxsock' = IF f > maxsock THEN f ELSE maxsock
      ELSE UNCHANGED <<fd, conn_amount, maxsock>>

\* With the table full the new descriptor is neither stored nor closed.
keepClient(f) ==
    IF conn_amount < MAXCLINE
      THEN /\ storeClient(f)
           /\ conn_amount' = conn_amount + 1
           /\ maxsock' = IF f > maxsock THEN f ELSE maxsock
      ELSE UNCHANGED <<fd, conn_amount, maxsock>>

Accept ==
    /\ pc = "accept"
    /\ pc' = "select"
    /\ \E f \in ClientFd : accepts(f) /\ keepClient(f)
    /\ UNCHANGED <<fdsr, i>>

AcceptFails ==
    /\ pc = "accept"
    /\ pc' = "select"
    /\ acceptFails
    /\ UNCHANGED <<fd, conn_amount, maxsock, fdsr, i>>

Clients ==
    /\ pc # "exit"
    /\ ClientConnects \/ ClientSends \/ ClientCloses
    /\ UNCHANGED serverVars

Server ==
    \/ Select \/ CloseClient \/ ReadClient \/ SkipSlot \/ SlotsDone \/ Accept \/ AcceptFails

Next == Server \/ SelectFails \/ Clients

Spec == Init /\ [][Next]_vars

(***************************************************************************)
(* Properties.                                                             *)
(***************************************************************************)
TypeOK ==
    /\ fd \in [Slot -> ClientFd \cup {0}]
    /\ conn_amount \in 0 .. MAXCLINE
    /\ maxsock \in {sock_fd} \cup ClientFd
    /\ fdsr \subseteq {sock_fd} \cup ClientFd
    /\ i \in 0 .. MAXCLINE
    /\ pc \in {"select", "serve", "accept", "exit"}
    /\ KernelTypes

\* conn_amount counts the slots in use.  The test before a client is stored relies on
\* it (select_test.cpp:115): were the count too low, a new client would be counted but
\* stored nowhere.
SlotsCounted == conn_amount = Cardinality(used)

\* A slot in use holds the descriptor of an open connection, no two the same one, and
\* select looks at all of them.
SlotsHoldConnections ==
    /\ \A s \in used : fd[s] \in open /\ fd[s] <= maxsock
    /\ \A s, r \in used : fd[s] = fd[r] => s = r

\* recv and accept are called only when they have something to return: the loop blocks
\* in select and nowhere else.
NeverBlocks ==
    /\ pc = "serve" => \A s \in used : s >= i /\ fd[s] \in fdsr => readable(fd[s])
    /\ pc = "serve" /\ sock_fd \in fdsr => pending > 0
    /\ pc = "accept" => pending > 0

\* A client that has gone is noticed in every slot that conn_amount reaches, though the
\* bound shrinks while the loop runs (select_test.cpp:90, 98).  It always reaches the first
\* slot, by SlotsCounted.  Of a slot beyond it the loop promises nothing: once a client in a
\* lower slot has left, nobody reads the last one and select returns at once, until
\* another client comes.
CountedSlotsFreed ==
    \A s \in Slot, f \in ClientFd :
        (fd[s] = f /\ incoming[f] = "closed")
            ~> (pc = "exit" \/ fd[s] # f \/ conn_amount <= s)
=============================================================================
