---------------------------- MODULE SelectKernel ----------------------------
(***************************************************************************)
(* What the two select() servers, select_test.cpp and select_serv.cpp, use *)
(* of the operating system: a listening socket, the descriptors of the     *)
(* accepted connections, and clients that connect, send and close when     *)
(* they like.                                                              *)
(*                                                                         *)
(* Descriptors are numbers, given out by the kernel lowest first.          *)
(***************************************************************************)
EXTENDS Integers, FiniteSets

CONSTANTS sock_fd,   \* the listening socket
          MaxFd,     \* bound: the process's last descriptor
          Backlog    \* bound: connections waiting to be accepted

ASSUME KernelAssumption == sock_fd \in Nat \ {0} /\ MaxFd \in Nat /\ Backlog \in Nat

VARIABLES open,      \* descriptors of accepted connections
          incoming,  \* what recv would find on each of them
          pending    \* connections waiting to be accepted

kernelVars == <<open, incoming, pending>>

ClientFd == sock_fd + 1 .. MaxFd
Incoming == {"quiet", "data", "closed", "data_closed"}

KernelInit ==
    /\ open = {}
    /\ incoming = [f \in ClientFd |-> "quiet"]
    /\ pending = 0

KernelTypes ==
    /\ open \subseteq ClientFd
    /\ incoming \in [ClientFd -> Incoming]
    /\ pending \in 0 .. Backlog

(***************************************************************************)
(* The calls.                                                              *)
(***************************************************************************)
readable(f) == IF f = sock_fd THEN pending > 0 ELSE incoming[f] # "quiet"

\* The descriptor accept returns.
lowestUnused(f) == f \notin open /\ \A g \in ClientFd : g < f => g \in open

accepts(f) ==
    /\ f \in ClientFd /\ lowestUnused(f)
    /\ open' = open \cup {f}
    /\ pending' = pending - 1
    /\ UNCHANGED incoming

\* No descriptor is left, or the connection was aborted.
acceptFails ==
    /\ pending' \in IF ClientFd \subseteq open THEN {pending} ELSE {pending - 1}
    /\ UNCHANGED <<open, incoming>>

\* recv takes what fits into the buffer; more may be left.
receives(f) ==
    /\ incoming[f] \in {"data", "data_closed"}
    /\ \E rest \in {incoming[f], IF incoming[f] = "data" THEN "quiet" ELSE "closed"} :
         incoming' = [incoming EXCEPT ![f] = rest]
    /\ UNCHANGED <<open, pending>>

closes(f) ==
    /\ open' = open \ {f}
    /\ incoming' = [incoming EXCEPT ![f] = "quiet"]
    /\ UNCHANGED pending

(***************************************************************************)
(* The clients.                                                            *)
(***************************************************************************)
ClientConnects ==
    /\ pending < Backlog
    /\ pending' = pending + 1
    /\ UNCHANGED <<open, incoming>>

ClientSends ==
    /\ \E f \in open : incoming[f] = "quiet" /\ incoming' = [incoming EXCEPT ![f] = "data"]
    /\ UNCHANGED <<open, pending>>

ClientCloses ==
    /\ \E f \in open :
         /\ incoming[f] \in {"quiet", "data"}
         /\ incoming' = [incoming EXCEPT ![f] = IF incoming[f] = "quiet" THEN "closed"
                                                ELSE "data_closed"]
    /\ UNCHANGED <<open, pending>>
=============================================================================
