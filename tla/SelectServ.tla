----------------------------- MODULE SelectServ -----------------------------
(***************************************************************************)
(* select_serv.cpp: a server with a vector of client descriptors and one   *)
(* select() loop.  A round accepts one client or reads all that are ready, *)
(* never both; an entry is set to INVALID_FD when its client has left and  *)
(* is not used again.                                                      *)
(***************************************************************************)
EXTENDS SelectKernel, Sequences

CONSTANT MaxClients   \* bound: connections in a run, since the vector never shrinks

ASSUME ServAssumption == MaxClients \in Nat

VARIABLES clientfds,
          readset,     \* what select left in it
          at,          \* "select", "accept", "read", "closing" or "exit"
          place        \* the loop variable over the vector, from 1

servVars == <<clientfds, readset, at, place>>

INVALID_FD == -1

ServInit ==
    /\ clientfds = <<>> /\ readset = {}
    /\ at = "select" /\ place = 1
    /\ KernelInit

(***************************************************************************)
(* select: the vector is watched anew in each round.                       *)
(***************************************************************************)
fdsOf(places) == {clientfds[k] : k \in places} \ {INVALID_FD}
sockets == {sock_fd} \cup fdsOf(DOMAIN clientfds)

\* Mutant of maxfd: it is not raised in the loop over the vector.
maxfdFirst == sock_fd
maxfd == CHOOSE f \in sockets : \A g \in sockets : g <= f

ready == {f \in sockets : f <= maxfd /\ readable(f)}

\* Mutant of ServSelect: readset is not cleared at the start of the round.
ServSelectKeeps ==
    /\ at = "select" /\ ready # {}
    /\ readset' = readset \cup ready /\ place' = 1
    /\ at' = IF sock_fd \in readset' THEN "accept" ELSE "read"
    /\ UNCHANGED <<clientfds, kernelVars>>

\* A round that times out or is interrupted changes nothing and is not a step here.
ServSelect ==
    /\ at = "select" /\ ready # {}
    /\ readset' = ready /\ place' = 1
    /\ at' = IF sock_fd \in ready THEN "accept" ELSE "read"
    /\ UNCHANGED <<clientfds, kernelVars>>

breaks == at' = "closing" /\ place' = 1 /\ UNCHANGED <<clientfds, readset>>

\* Another error than an interruption ends the loop,
ServSelectFails == at = "select" /\ breaks /\ UNCHANGED kernelVars

ServAccept ==
    /\ at = "accept" /\ at' = "select"
    /\ \E f \in ClientFd : accepts(f) /\ clientfds' = Append(clientfds, f)
    /\ UNCHANGED <<readset, place>>

\* and so does accept, whatever its error was.
ServAcceptFails == at = "accept" /\ acceptFails /\ breaks

(***************************************************************************)
(* The loop over the vector.                                               *)
(***************************************************************************)
here == clientfds[place]
isReady == at = "read" /\ place <= Len(clientfds) /\ here # INVALID_FD /\ here \in readset

ServRead ==
    /\ isReady /\ receives(here) /\ place' = place + 1
    /\ UNCHANGED <<clientfds, readset, at>>

\* Mutant of ServDrop: the entry keeps the descriptor.
ServDropKeeps ==
    /\ isReady /\ incoming[here] = "closed" /\ closes(here)
    /\ place' = place + 1
    /\ UNCHANGED <<clientfds, readset, at>>

ServDrop ==
    /\ isReady /\ incoming[here] = "closed" /\ closes(here)
    /\ clientfds' = [clientfds EXCEPT ![place] = INVALID_FD]
    /\ place' = place + 1
    /\ UNCHANGED <<readset, at>>

ServSkip ==
    /\ at = "read" /\ place <= Len(clientfds) /\ ~isReady /\ place' = place + 1
    /\ UNCHANGED <<clientfds, readset, at, kernelVars>>

ServRoundDone ==
    /\ at = "read" /\ place > Len(clientfds) /\ at' = "select"
    /\ UNCHANGED <<clientfds, readset, place, kernelVars>>

(***************************************************************************)
(* After the loop everything is closed, the listening socket last.         *)
(***************************************************************************)
closesHere == IF here # INVALID_FD THEN closes(here) ELSE UNCHANGED kernelVars

ServCloses ==
    /\ at = "closing" /\ place <= Len(clientfds) /\ closesHere /\ place' = place + 1
    /\ UNCHANGED <<clientfds, readset, at>>

ServExits ==
    /\ at = "closing" /\ place > Len(clientfds) /\ at' = "exit"
    /\ UNCHANGED <<clientfds, readset, place, kernelVars>>

ServClients ==
    /\ at # "exit"
    /\ \/ Len(clientfds) + pending < MaxClients /\ ClientConnects
       \/ ClientSends
       \/ ClientCloses
    /\ UNCHANGED servVars

Serves == \/ ServSelect \/ ServAccept \/ ServAcceptFails \/ ServRead \/ ServDrop \/ ServSkip
          \/ ServRoundDone \/ ServCloses \/ ServExits

ServNext == Serves \/ ServSelectFails \/ ServClients

ServSpec == ServInit /\ [][ServNext]_<<servVars, kernelVars>>

(***************************************************************************)
(* Properties.                                                             *)
(***************************************************************************)
ServTypeOK ==
    /\ clientfds \in Seq(ClientFd \cup {INVALID_FD}) /\ Len(clientfds) + pending <= MaxClients
    /\ readset \subseteq {sock_fd} \cup ClientFd
    /\ at \in {"select", "accept", "read", "closing", "exit"}
    /\ place \in 1 .. Len(clientfds) + 1
    /\ KernelTypes

\* The entries that the closing loop has still to visit.
unclosed == IF at \in {"closing", "exit"} THEN place .. Len(clientfds) ELSE DOMAIN clientfds

\* Every open connection has exactly one entry and every valid entry is open, also
\* when the kernel gives a closed descriptor to the next client; so the loop of
\* select_serv.cpp:98 closes each of them once and the program ends with none.
OpenHeldOnce ==
    /\ open = fdsOf(unclosed)
    /\ \A j, k \in unclosed : clientfds[j] = clientfds[k] /\ clientfds[j] # INVALID_FD => j = k
    /\ at = "exit" => open = {}

\* accept and recv (select_serv.cpp:70, 83) are called only when they have something to
\* return: a server that blocked there would serve nobody.
ServNeverBlocks ==
    /\ at = "accept" => pending > 0
    /\ isReady => readable(here)

\* A client that has left is noticed in every place of the vector, as long as the
\* connections are finitely many: while one is waiting (select_serv.cpp:67) none is read.
LeaverDropped ==
    \A f \in ClientFd : (f \in open /\ incoming[f] = "closed") ~> (f \notin open \/ at = "exit")
=============================================================================
