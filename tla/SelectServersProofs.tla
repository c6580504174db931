------------------------- MODULE SelectServersProofs -------------------------
(***************************************************************************)
(* Proofs about the two select() servers for every number of slots and     *)
(* descriptors: the table of clients agrees with its counter and with the  *)
(* open connections, and the loops call recv and accept only when they     *)
(* have something to return.                                               *)
(***************************************************************************)
EXTENDS SelectServers, FiniteSetTheorems, SequenceTheorems, WellFoundedInduction,
        TLAPS

\* Every set of naturals that is not empty has a least element.
LEMMA LeastNatural ==
  ASSUME NEW T, T \subseteq Nat, T # {}
  PROVE  \E x \in T : \A y \in T : ~(y < x)
<1>. DEFINE R == {ss \in Nat \X Nat : ss[1] < ss[2]}
<1>1. IsWellFoundedOn(R, Nat)
  BY NatLessThanWellFounded DEF OpToRel
<1>2. PICK x \in T : \A y \in T : <<y, x>> \notin R
  <2>. HIDE DEF R
  <2>. QED  BY <1>1, WFMin
<1>. QED  BY <1>2

\* Descriptors of clients are positive and differ from the listening one.
LEMMA ClientFdFacts ==
  /\ \A f \in ClientFd : f \in Nat /\ f > sock_fd /\ f # 0 /\ f # sock_fd
  /\ sock_fd \in Nat /\ sock_fd # 0
BY KernelAssumption DEF ClientFd

-----------------------------------------------------------------------------
(* What the calls and the clients do to the kernel's state. *)

\* No connection and nothing to read.
LEMMA InitKernel == KernelInit => KernelTypes
BY KernelAssumption DEF KernelInit, KernelTypes, Incoming

\* The types stay when nothing is called.
LEMMA NoCall == KernelTypes /\ UNCHANGED kernelVars => KernelTypes'
BY DEF KernelTypes, kernelVars

\* accept opens a descriptor that was not open; nothing was sent to it yet.
LEMMA AcceptKernel ==
  ASSUME KernelTypes, pending > 0, NEW f \in ClientFd, accepts(f)
  PROVE  /\ KernelTypes'
         /\ f \notin open /\ open' = open \cup {f} /\ pending' = pending - 1
         /\ incoming' = incoming
<1>1. pending' \in 0 .. Backlog
  BY KernelAssumption DEF accepts, KernelTypes
<1>. QED  BY <1>1 DEF accepts, lowestUnused, KernelTypes

\* accept without a result takes at most a connection that was given up.
LEMMA AcceptFailsKernel ==
  ASSUME KernelTypes, pending > 0, acceptFails
  PROVE  KernelTypes' /\ open' = open /\ pending' <= pending
<1>1. pending' \in 0 .. Backlog /\ pending' <= pending
  BY KernelAssumption DEF acceptFails, KernelTypes
<1>. QED  BY <1>1 DEF acceptFails, KernelTypes

\* recv and close concern one descriptor.
LEMMA OneDescriptor ==
  ASSUME KernelTypes, NEW f \in ClientFd, receives(f) \/ closes(f)
  PROVE  /\ KernelTypes' /\ pending' = pending
         /\ \A g \in ClientFd : g # f => incoming'[g] = incoming[g]
<1>1. PICK rest \in Incoming : incoming' = [incoming EXCEPT ![f] = rest]
  <2>1. CASE receives(f)
    BY <2>1 DEF receives, Incoming
  <2>2. CASE closes(f)
    <3>1. "quiet" \in Incoming /\ incoming' = [incoming EXCEPT ![f] = "quiet"]
      BY <2>2 DEF closes, Incoming
    <3>. QED  BY <3>1
  <2>. QED  BY <2>1, <2>2
<1>2. incoming' \in [ClientFd -> Incoming] /\ \A g \in ClientFd : g # f => incoming'[g] = incoming[g]
  BY <1>1 DEF KernelTypes
<1>3. open' \subseteq ClientFd /\ pending' = pending
  BY DEF receives, closes, KernelTypes
<1>. QED  BY <1>2, <1>3 DEF KernelTypes

\* What the clients do only adds to what recv and accept can return.
LEMMA ClientsKernel ==
  ASSUME KernelTypes, ClientConnects \/ ClientSends \/ ClientCloses
  PROVE  /\ KernelTypes' /\ open' = open
         /\ \A f \in ClientFd \cup {sock_fd} : readable(f) => readable(f)'
         /\ pending' = pending \/ (ClientConnects /\ pending' = pending + 1)
<1>1. CASE ClientConnects
  <2>1. pending' \in 0 .. Backlog /\ (pending > 0 => pending' > 0)
    BY <1>1, KernelAssumption DEF ClientConnects, KernelTypes
  <2>. QED  BY <1>1, <2>1 DEF ClientConnects, KernelTypes, readable
<1>2. CASE ClientSends \/ ClientCloses
  <2>1. PICK f \in open, d \in {"data", "closed", "data_closed"} :
             incoming' = [incoming EXCEPT ![f] = d]
    <3>1. CASE ClientSends
      <4>1. PICK f \in open : incoming' = [incoming EXCEPT ![f] = "data"]
        BY <3>1 DEF ClientSends
      <4>. QED  BY <4>1
    <3>2. CASE ClientCloses
      BY <3>2 DEF ClientCloses
    <3>. QED  BY <1>2, <3>1, <3>2
  <2>2. f \in ClientFd /\ d \in Incoming /\ d # "quiet"
    BY <2>1 DEF KernelTypes, Incoming
  <2>3. /\ incoming' \in [ClientFd -> Incoming]
        /\ \A g \in ClientFd : incoming[g] # "quiet" => incoming'[g] # "quiet"
    BY <2>1, <2>2 DEF KernelTypes
  <2>4. open' = open /\ pending' = pending
    BY <1>2 DEF ClientSends, ClientCloses
  <2>5. KernelTypes'
    BY <2>3, <2>4 DEF KernelTypes
  <2>6. \A g \in ClientFd \cup {sock_fd} : readable(g) => readable(g)'
    BY <2>3, <2>4, ClientFdFacts DEF readable
  <2>. QED  BY <2>4, <2>5, <2>6
<1>. QED  BY <1>1, <1>2

-----------------------------------------------------------------------------
(* select_test.cpp *)

\* Together the invariants are inductive: recv has something to return only because no
\* two slots hold the same descriptor, and a slot for the new client exists only because
\* conn_amount counts the slots in use.
IInv == TypeOK /\ SlotsCounted /\ SlotsHoldConnections /\ NeverBlocks

\* There are MAXCLINE slots, and the slots in use are finitely many.
LEMMA SlotFacts ==
  /\ IsFiniteSet(Slot) /\ Cardinality(Slot) = MAXCLINE
  /\ used \subseteq Slot /\ IsFiniteSet(used)
<1>1. IsFiniteSet(Slot) /\ Cardinality(Slot) = MAXCLINE
  BY SlotAssumption, FS_Interval DEF Slot
<1>2. used \subseteq Slot
  BY DEF used
<1>. QED  BY <1>1, <1>2, FS_Subset

\* While conn_amount is below MAXCLINE there is exactly one first free slot.
LEMMA FirstFreeExists ==
  ASSUME TypeOK, SlotsCounted, conn_amount < MAXCLINE
  PROVE  \E s \in Slot : \A r \in Slot : firstFree(r) <=> r = s
<1>. DEFINE free == Slot \ used
<1>1. free # {}
  <2>1. SUFFICES ASSUME free = {} PROVE FALSE
    OBVIOUS
  <2>2. used = Slot
    BY <2>1, SlotFacts
  <2>. QED  BY <2>2, SlotFacts, SlotAssumption DEF SlotsCounted, TypeOK
<1>2. free \subseteq Nat
  BY SlotAssumption DEF Slot
<1>3. PICK s \in free : \A r \in free : ~(r < s)
  <2>. HIDE DEF free
  <2>. QED  BY <1>1, <1>2, LeastNatural
<1>4. \A r \in Slot : fd[r] = 0 <=> r \in free
  BY DEF used
<1>5. s \in Slot /\ Slot \subseteq Int
  BY SlotAssumption DEF Slot
<1>6. firstFree(s)
  BY <1>3, <1>4, <1>5 DEF firstFree
<1>7. ASSUME NEW r \in Slot, firstFree(r) PROVE r = s
  <2>1. r \in free /\ ~(r < s)
    BY <1>3, <1>4, <1>7 DEF firstFree
  <2>2. ~(s < r)
    BY <1>4, <1>5, <1>7 DEF firstFree
  <2>. QED  BY <2>1, <2>2, <1>5
<1>. QED  BY <1>5, <1>6, <1>7

\* The empty table satisfies the invariant.
LEMMA InitIInv == Init => IInv
<1>. SUFFICES ASSUME Init PROVE IInv
  OBVIOUS
<1>1. used = {}
  BY DEF Init, used
<1>2. TypeOK
  BY SlotAssumption, ClientFdFacts, InitKernel DEF Init, TypeOK
<1>3. SlotsCounted
  BY <1>1, FS_EmptySet DEF Init, SlotsCounted
<1>. QED
  BY <1>1, <1>2, <1>3 DEF Init, IInv, SlotsHoldConnections, NeverBlocks

-----------------------------------------------------------------------------
(* The server's steps *)

\* select reports the descriptors that can be read, and no others.
LEMMA SelectStep ==
  ASSUME IInv, Select
  PROVE  IInv'
<1>1. TypeOK'
  <2>1. selected \subseteq {sock_fd} \cup ClientFd
    BY DEF IInv, TypeOK, selected, watched, used, Slot
  <2>. QED  BY <2>1, SlotAssumption, NoCall DEF IInv, TypeOK, Select
<1>2. SlotsCounted' /\ SlotsHoldConnections'
  BY DEF IInv, SlotsCounted, SlotsHoldConnections, used, Select, kernelVars
<1>3. NeverBlocks'
  BY DEF Select, selected, readable, NeverBlocks, used, kernelVars
<1>. QED  BY <1>1, <1>2, <1>3 DEF IInv

\* A closed client's slot is emptied and counted out.
LEMMA CloseStep ==
  ASSUME IInv, CloseClient
  PROVE  IInv'
<1>1. i \in Slot /\ conn_amount \in 1 .. MAXCLINE /\ i + 1 \in 0 .. MAXCLINE
  BY SlotAssumption DEF IInv, TypeOK, CloseClient, slotsLeft, Slot
<1>2. fd[i] \in ClientFd /\ fd[i] # 0 /\ i \in used
  <2>2. fd[i] \in ClientFd \cup {0} /\ fd[i] \in {sock_fd} \cup ClientFd
    BY <1>1 DEF IInv, TypeOK, CloseClient
  <2>3. fd[i] \in ClientFd
    BY <2>2, ClientFdFacts
  <2>. QED  BY <2>3, <1>1, ClientFdFacts DEF used
<1>3. TypeOK'
  <2>1. fd' \in [Slot -> ClientFd \cup {0}]
    BY <1>1 DEF IInv, TypeOK, CloseClient
  <2>2. conn_amount' \in 0 .. MAXCLINE /\ i' \in 0 .. MAXCLINE
    BY <1>1, SlotAssumption DEF CloseClient
  <2>3. KernelTypes'
    BY <1>2, OneDescriptor DEF IInv, TypeOK, CloseClient
  <2>. QED  BY <2>1, <2>2, <2>3 DEF IInv, TypeOK, CloseClient
<1>4. used' = used \ {i}
  BY <1>1 DEF IInv, TypeOK, CloseClient, used
<1>5. SlotsCounted'
  BY <1>2, <1>4, SlotFacts, FS_RemoveElement DEF IInv, SlotsCounted, CloseClient
<1>6. SlotsHoldConnections'
  <2>1. \A s \in used' : s \in used /\ s # i /\ fd'[s] = fd[s]
    BY <1>4 DEF CloseClient, IInv, TypeOK, used
  <2>2. \A s \in used' : fd'[s] # fd[i]
    BY <2>1, <1>2 DEF IInv, SlotsHoldConnections
  <2>. QED  BY <2>1, <2>2 DEF IInv, SlotsHoldConnections, CloseClient, closes
<1>7. NeverBlocks'
  <2>1. \A s \in used' : s \in used /\ s # i /\ fd'[s] = fd[s] /\ s \in Int
    BY <1>4, SlotAssumption DEF CloseClient, IInv, TypeOK, used, Slot
  <2>2. ASSUME NEW s \in used', s >= i + 1, fd'[s] \in fdsr'
        PROVE  readable(fd[s])'
    <3>1. s \in used /\ s >= i /\ fd[s] \in fdsr /\ fd'[s] = fd[s] /\ fd[s] # fd[i]
      BY <2>1, <2>2, <1>1 DEF CloseClient, IInv, TypeOK
    <3>2. readable(fd[s]) /\ fd[s] \in ClientFd
      BY <3>1, ClientFdFacts DEF IInv, NeverBlocks, CloseClient, TypeOK, used
    <3>3. incoming'[fd[s]] = incoming[fd[s]] /\ pending' = pending
      BY <1>2, <3>1, <3>2, OneDescriptor DEF CloseClient, IInv, TypeOK
    <3>. QED  BY <3>1, <3>2, <3>3 DEF readable
  <2>3. pending' = pending /\ (sock_fd \in fdsr' => sock_fd \in fdsr)
    BY <1>2, OneDescriptor DEF CloseClient, IInv, TypeOK
  <2>. QED  BY <2>1, <2>2, <2>3 DEF CloseClient, IInv, NeverBlocks
<1>. QED  BY <1>3, <1>5, <1>6, <1>7 DEF IInv

\* Reading one client leaves what the others have sent.
LEMMA ReadStep ==
  ASSUME IInv, ReadClient
  PROVE  IInv'
<1>1. i \in Slot /\ i + 1 \in 0 .. MAXCLINE
  BY SlotAssumption DEF IInv, TypeOK, ReadClient, slotsLeft, Slot
<1>2. fd[i] \in ClientFd /\ i \in used
  <2>1. fd[i] \in ClientFd \cup {0} /\ fd[i] \in {sock_fd} \cup ClientFd
    BY <1>1 DEF IInv, TypeOK, ReadClient
  <2>2. fd[i] \in ClientFd
    BY <2>1, ClientFdFacts
  <2>. QED  BY <2>2, <1>1, ClientFdFacts DEF used
<1>3. /\ KernelTypes' /\ open' = open /\ pending' = pending
      /\ \A g \in ClientFd : g # fd[i] => incoming'[g] = incoming[g]
  BY <1>2, OneDescriptor DEF IInv, TypeOK, ReadClient, receives
<1>4. TypeOK'
  BY <1>1, <1>3 DEF IInv, TypeOK, ReadClient
<1>5. SlotsCounted' /\ SlotsHoldConnections'
  BY <1>3 DEF IInv, SlotsCounted, SlotsHoldConnections, used, ReadClient
<1>6. NeverBlocks'
  <2>1. used' = used
    BY DEF used, ReadClient
  <2>2. ASSUME NEW s \in used, s >= i + 1, fd[s] \in fdsr
        PROVE  readable(fd[s])'
    <3>1. s \in Int /\ s >= i /\ s # i
      BY <2>2, <1>1, SlotAssumption DEF used, Slot
    <3>2. fd[s] # fd[i]
      BY <3>1, <1>2 DEF IInv, SlotsHoldConnections
    <3>3. readable(fd[s]) /\ fd[s] \in ClientFd
      BY <3>1, <2>2 DEF IInv, NeverBlocks, ReadClient, TypeOK, used
    <3>4. fd'[s] = fd[s] /\ incoming'[fd[s]] = incoming[fd[s]]
      BY <1>3, <3>2, <3>3 DEF ReadClient
    <3>. QED  BY <1>3, <3>3, <3>4 DEF readable
  <2>. QED  BY <1>3, <2>1, <2>2 DEF ReadClient, IInv, NeverBlocks
<1>. QED  BY <1>4, <1>5, <1>6 DEF IInv

\* Passing a slot by, and leaving the slots behind.
LEMMA PassStep ==
  ASSUME IInv, SkipSlot \/ SlotsDone
  PROVE  IInv'
<1>1. TypeOK'
  <2>1. i' \in 0 .. MAXCLINE
    BY SlotAssumption DEF IInv, TypeOK, SkipSlot, SlotsDone, slotsLeft
  <2>2. pc' \in {"select", "serve", "accept", "exit"}
    BY DEF IInv, TypeOK, SkipSlot, SlotsDone
  <2>. QED  BY <2>1, <2>2, NoCall DEF IInv, TypeOK, SkipSlot, SlotsDone
<1>2. SlotsCounted' /\ SlotsHoldConnections'
  BY DEF IInv, SlotsCounted, SlotsHoldConnections, used, SkipSlot, SlotsDone, kernelVars
<1>3. NeverBlocks'
  <2>1. used \subseteq Int /\ i \in Int
    BY SlotAssumption DEF used, Slot, IInv, TypeOK
  <2>. QED
    BY <2>1 DEF IInv, NeverBlocks, readable, used, SkipSlot, SlotsDone, kernelVars
<1>. QED  BY <1>1, <1>2, <1>3 DEF IInv

\* A new client gets the first free slot, or none if the table is full.
LEMMA AcceptStep ==
  ASSUME IInv, Accept
  PROVE  IInv'
<1>1. PICK f \in ClientFd : accepts(f) /\ keepClient(f)
  BY DEF Accept
<1>2. f \notin open /\ f \in Nat /\ f # 0 /\ open' = open \cup {f}
  BY <1>1, ClientFdFacts, AcceptKernel DEF IInv, TypeOK, NeverBlocks, Accept
<1>3. KernelTypes'
  BY <1>1, AcceptKernel DEF IInv, TypeOK, NeverBlocks, Accept
<1>4. NeverBlocks'
  BY DEF Accept, NeverBlocks
<1>5. CASE conn_amount < MAXCLINE
  <2>1. PICK s \in Slot : \A r \in Slot : firstFree(r) <=> r = s
    BY <1>5, FirstFreeExists DEF IInv
  <2>2. fd' = [fd EXCEPT ![s] = f] /\ fd[s] = 0
    BY <1>1, <1>5, <2>1 DEF keepClient, storeClient, firstFree, IInv, TypeOK
  <2>3. TypeOK'
    <3>1. fd' \in [Slot -> ClientFd \cup {0}]
      BY <2>1, <2>2 DEF IInv, TypeOK
    <3>2. conn_amount' \in 0 .. MAXCLINE
      BY <1>1, <1>5, SlotAssumption DEF IInv, TypeOK, keepClient
    <3>3. maxsock' \in {sock_fd} \cup ClientFd
      BY <1>1, <1>5 DEF IInv, TypeOK, keepClient
    <3>. QED  BY <3>1, <3>2, <3>3, <1>1, <1>3 DEF IInv, TypeOK, Accept
  <2>4. used' = used \cup {s} /\ s \notin used
    BY <1>2, <2>1, <2>2 DEF used, IInv, TypeOK
  <2>5. SlotsCounted'
    <3>1. conn_amount' = conn_amount + 1
      BY <1>1, <1>5 DEF keepClient
    <3>2. Cardinality(used') = Cardinality(used) + 1
      BY <2>4, SlotFacts, FS_AddElement
    <3>. QED  BY <3>1, <3>2 DEF IInv, SlotsCounted
  <2>6. SlotsHoldConnections'
    <3>1. maxsock \in Nat /\ f <= maxsock' /\ maxsock <= maxsock' /\ maxsock' \in Nat
      <4>1. maxsock' = IF f > maxsock THEN f ELSE maxsock
        BY <1>1, <1>5 DEF keepClient
      <4>2. maxsock \in Nat
        BY ClientFdFacts DEF IInv, TypeOK
      <4>. QED  BY <1>2, <4>1, <4>2
    <3>2. \A r \in used : fd'[r] = fd[r] /\ fd'[r] # f /\ fd[r] \in Nat
      <4>1. \A r \in used : r # s /\ r \in Slot /\ fd[r] \in ClientFd /\ fd[r] \in open
        BY <2>4 DEF IInv, TypeOK, SlotsHoldConnections, used
      <4>2. \A r \in Slot : r # s => fd'[r] = fd[r]
        BY <2>2 DEF IInv, TypeOK
      <4>. QED  BY <1>2, <4>1, <4>2, ClientFdFacts
    <3>3. fd'[s] = f
      BY <2>1, <2>2 DEF IInv, TypeOK
    <3>4. \A r \in used' : fd'[r] \in open' /\ fd'[r] <= maxsock'
      BY <3>1, <3>2, <3>3, <2>4, <1>2 DEF IInv, SlotsHoldConnections
    <3>5. \A r, t \in used' : fd'[r] = fd'[t] => r = t
      BY <3>2, <3>3, <2>4 DEF IInv, SlotsHoldConnections
    <3>. QED  BY <3>4, <3>5 DEF SlotsHoldConnections
  <2>. QED  BY <1>4, <2>3, <2>5, <2>6 DEF IInv
<1>6. CASE ~(conn_amount < MAXCLINE)
  <2>1. UNCHANGED <<fd, conn_amount, maxsock>>
    BY <1>1, <1>6 DEF keepClient
  <2>2. TypeOK'
    BY <1>1, <1>3, <2>1 DEF IInv, TypeOK, Accept
  <2>3. SlotsCounted' /\ SlotsHoldConnections'
    BY <1>2, <2>1 DEF IInv, SlotsCounted, SlotsHoldConnections, used
  <2>. QED  BY <1>4, <2>2, <2>3 DEF IInv
<1>. QED  BY <1>5, <1>6

\* accept without a result, and the end of the loop.
LEMMA FailStep ==
  ASSUME IInv, AcceptFails \/ SelectFails
  PROVE  IInv'
<1>1. KernelTypes' /\ open' = open
  <2>1. CASE AcceptFails
    BY <2>1, AcceptFailsKernel DEF IInv, TypeOK, NeverBlocks, AcceptFails
  <2>2. CASE SelectFails
    BY <2>2, NoCall DEF IInv, TypeOK, SelectFails, kernelVars
  <2>. QED  BY <2>1, <2>2
<1>2. TypeOK'
  BY <1>1 DEF IInv, TypeOK, AcceptFails, SelectFails
<1>3. SlotsCounted' /\ SlotsHoldConnections'
  BY <1>1 DEF IInv, SlotsCounted, SlotsHoldConnections, used, AcceptFails, SelectFails
<1>4. NeverBlocks'
  BY DEF NeverBlocks, AcceptFails, SelectFails
<1>. QED  BY <1>2, <1>3, <1>4 DEF IInv

\* Nor do the clients disturb the server's table.
LEMMA ClientsStep ==
  ASSUME IInv, Clients
  PROVE  IInv'
<1>1. KernelTypes /\ UNCHANGED serverVars /\ (ClientConnects \/ ClientSends \/ ClientCloses)
  BY DEF Clients, IInv, TypeOK
<1>2. /\ KernelTypes' /\ open' = open
      /\ \A f \in ClientFd \cup {sock_fd} : readable(f) => readable(f)'
  BY <1>1, ClientsKernel
<1>3. TypeOK'
  BY <1>1, <1>2 DEF IInv, TypeOK, serverVars
<1>4. SlotsCounted' /\ SlotsHoldConnections'
  BY <1>1, <1>2 DEF IInv, SlotsCounted, SlotsHoldConnections, used, serverVars
<1>5. NeverBlocks'
  <2>1. \A s \in used : readable(fd[s]) => readable(fd[s])'
    <3>1. \A s \in used : fd[s] \in ClientFd
      BY DEF IInv, TypeOK, used
    <3>. QED  BY <1>1, <1>2, <3>1 DEF serverVars
  <2>2. used' = used
    BY <1>1 DEF used, serverVars
  <2>3. pending > 0 => pending' > 0
    BY <1>2 DEF readable
  <2>. QED  BY <1>1, <2>1, <2>2, <2>3 DEF IInv, NeverBlocks, serverVars
<1>. QED  BY <1>3, <1>4, <1>5 DEF IInv

-----------------------------------------------------------------------------
\* Every step of the program and of its clients keeps the invariant.
LEMMA StepIInv == IInv /\ [Next]_vars => IInv'
<1>. SUFFICES ASSUME IInv, [Next]_vars PROVE IInv'
  OBVIOUS
<1>1. CASE Select  BY <1>1, SelectStep
<1>2. CASE CloseClient  BY <1>2, CloseStep
<1>3. CASE ReadClient  BY <1>3, ReadStep
<1>4. CASE SkipSlot \/ SlotsDone  BY <1>4, PassStep
<1>5. CASE Accept  BY <1>5, AcceptStep
<1>6. CASE AcceptFails \/ SelectFails  BY <1>6, FailStep
<1>7. CASE Clients  BY <1>7, ClientsStep
<1>8. CASE UNCHANGED vars
  BY <1>8, NoCall DEF vars, serverVars, kernelVars, IInv, TypeOK, SlotsCounted,
                      SlotsHoldConnections, NeverBlocks, used, readable
<1>. QED
  BY <1>1, <1>2, <1>3, <1>4, <1>5, <1>6, <1>7, <1>8 DEF Next, Server

\* select_test.cpp keeps the invariant in every reachable state.
THEOREM Invariance == Spec => []IInv
BY InitIInv, StepIInv, PTL DEF Spec

-----------------------------------------------------------------------------
(* select_serv.cpp *)

\* What select reported stays readable until the loop comes to it: only because no two
\* entries hold the same descriptor, so that no earlier entry has read or closed it.
ReadyKept ==
  at = "read" => \A k \in place .. Len(clientfds) :
                    clientfds[k] # INVALID_FD /\ clientfds[k] \in readset => readable(clientfds[k])

AcceptHasOne == at = "accept" => pending > 0

ServIInv == ServTypeOK /\ OpenHeldOnce /\ ReadyKept /\ AcceptHasOne

\* The vector's entries are descriptors of clients or INVALID_FD, which is none.
LEMMA VectorFacts ==
  ASSUME ServTypeOK
  PROVE  /\ Len(clientfds) \in Nat /\ DOMAIN clientfds = 1 .. Len(clientfds)
         /\ \A k \in 1 .. Len(clientfds) : clientfds[k] \in ClientFd \cup {INVALID_FD}
         /\ INVALID_FD \notin ClientFd
         /\ place \in Nat /\ place >= 1 /\ place <= Len(clientfds) + 1
<1>1. clientfds \in Seq(ClientFd \cup {INVALID_FD})
  BY DEF ServTypeOK
<1>2. Len(clientfds) \in Nat /\ DOMAIN clientfds = 1 .. Len(clientfds)
  BY <1>1, LenProperties
<1>3. \A k \in 1 .. Len(clientfds) : clientfds[k] \in ClientFd \cup {INVALID_FD}
  BY <1>1, ElementOfSeq
<1>4. INVALID_FD \notin ClientFd
  BY ClientFdFacts DEF INVALID_FD
<1>5. place \in Nat /\ place >= 1 /\ place <= Len(clientfds) + 1
  BY <1>2 DEF ServTypeOK
<1>. QED  BY <1>2, <1>3, <1>4, <1>5

\* The descriptors held by some entries.
LEMMA FdsOf ==
  \A places, f : f \in fdsOf(places) <=> f # INVALID_FD /\ \E k \in places : clientfds[k] = f
BY DEF fdsOf

\* The empty vector satisfies the invariant.
LEMMA ServInitIInv == ServInit => ServIInv
<1>. SUFFICES ASSUME ServInit PROVE ServIInv
  OBVIOUS
<1>1. clientfds = <<>> /\ Len(clientfds) = 0 /\ DOMAIN clientfds = {}
  BY DEF ServInit
<1>2. clientfds \in Seq(ClientFd \cup {INVALID_FD})
  BY <1>1
<1>3. ServTypeOK
  <2>1. readset = {} /\ at = "select" /\ place = 1 /\ pending = 0
    BY DEF ServInit, KernelInit
  <2>2. place \in 1 .. Len(clientfds) + 1 /\ Len(clientfds) + pending <= MaxClients
    BY <1>1, <2>1, ServAssumption
  <2>3. KernelTypes
    BY InitKernel DEF ServInit
  <2>. QED  BY <1>2, <2>1, <2>2, <2>3 DEF ServTypeOK
<1>4. OpenHeldOnce
  BY <1>1 DEF ServInit, KernelInit, OpenHeldOnce, unclosed, fdsOf
<1>. QED  BY <1>3, <1>4 DEF ServInit, ServIInv, ReadyKept, AcceptHasOne

\* While vector, open connections and the part to be closed stay, so does what is held.
LEMMA SameHeld ==
  ASSUME OpenHeldOnce, clientfds' = clientfds, open' = open, unclosed' = unclosed,
         at' = "exit" => open = {}
  PROVE  OpenHeldOnce'
BY DEF OpenHeldOnce, fdsOf

\* select reports what can be read.
LEMMA ServSelectStep ==
  ASSUME ServIInv, ServSelect
  PROVE  ServIInv'
<1>1. /\ at = "select" /\ at' \in {"accept", "read"} /\ (at' = "accept" => sock_fd \in ready)
      /\ readset' = ready /\ place' = 1
      /\ UNCHANGED <<clientfds, open, incoming, pending>>
  BY DEF ServSelect, kernelVars
<1>2. ready \subseteq {sock_fd} \cup ClientFd /\ \A f \in ready : readable(f)
  <2>1. fdsOf(DOMAIN clientfds) \subseteq ClientFd
    BY FdsOf, VectorFacts DEF ServIInv
  <2>. QED  BY <2>1 DEF ready, sockets
<1>3. ServTypeOK'
  <2>1. place' \in 1 .. Len(clientfds) + 1
    BY <1>1, VectorFacts DEF ServIInv
  <2>2. KernelTypes'
    BY <1>1, NoCall DEF ServIInv, ServTypeOK, kernelVars
  <2>. QED  BY <1>1, <1>2, <2>1, <2>2 DEF ServIInv, ServTypeOK
<1>4. OpenHeldOnce'
  <2>1. unclosed' = unclosed /\ at' # "exit"
    BY <1>1 DEF unclosed
  <2>. QED  BY <1>1, <2>1, SameHeld DEF ServIInv
<1>5. ReadyKept' /\ AcceptHasOne'
  BY <1>1, <1>2 DEF ReadyKept, AcceptHasOne, readable
<1>. QED  BY <1>3, <1>4, <1>5 DEF ServIInv

\* The loop is left: every entry has still to be closed.
LEMMA BreakStep ==
  ASSUME ServIInv, ServSelectFails \/ ServAcceptFails
  PROVE  ServIInv'
<1>1. /\ at \in {"select", "accept"} /\ at' = "closing" /\ place' = 1
      /\ UNCHANGED <<clientfds, readset>>
  BY DEF ServSelectFails, ServAcceptFails, breaks
<1>2. KernelTypes' /\ open' = open /\ pending' <= pending
  <2>1. CASE ServSelectFails
    <3>1. pending \in Int
      BY KernelAssumption DEF ServIInv, ServTypeOK, KernelTypes
    <3>2. UNCHANGED kernelVars /\ KernelTypes
      BY <2>1 DEF ServSelectFails, ServIInv, ServTypeOK
    <3>. QED  BY <3>1, <3>2, NoCall DEF kernelVars
  <2>2. CASE ServAcceptFails
    BY <2>2, AcceptFailsKernel DEF ServAcceptFails, ServIInv, ServTypeOK, AcceptHasOne
  <2>. QED  BY <2>1, <2>2
<1>3. ServTypeOK'
  <2>1. place' \in 1 .. Len(clientfds) + 1
    BY <1>1, VectorFacts DEF ServIInv
  <2>2. Len(clientfds) + pending' <= MaxClients
    <3>1. Len(clientfds) \in Int /\ pending \in Int /\ pending' \in Int /\ MaxClients \in Int
      BY <1>2, VectorFacts, ServAssumption, KernelAssumption DEF ServIInv, ServTypeOK, KernelTypes
    <3>2. Len(clientfds) + pending <= MaxClients
      BY DEF ServIInv, ServTypeOK
    <3>. QED  BY <1>2, <3>1, <3>2
  <2>. QED  BY <1>1, <1>2, <2>1, <2>2 DEF ServIInv, ServTypeOK
<1>4. OpenHeldOnce'
  <2>1. unclosed = 1 .. Len(clientfds) /\ unclosed' = 1 .. Len(clientfds)
    BY <1>1, VectorFacts DEF unclosed, ServIInv
  <2>. QED  BY <1>1, <1>2, <2>1, SameHeld DEF ServIInv
<1>. QED  BY <1>1, <1>3, <1>4 DEF ServIInv, ReadyKept, AcceptHasOne

\* A new client gets an entry of its own: its descriptor was not open.
LEMMA ServAcceptStep ==
  ASSUME ServIInv, ServAccept
  PROVE  ServIInv'
<1> DEFINE E == ClientFd \cup {INVALID_FD}
<1>0. PICK len \in Nat : len = Len(clientfds)
  BY VectorFacts DEF ServIInv
<1>1. PICK f \in ClientFd : accepts(f) /\ clientfds' = Append(clientfds, f)
  BY DEF ServAccept
<1>2. at = "accept" /\ at' = "select" /\ UNCHANGED <<readset, place>> /\ pending > 0
  BY DEF ServAccept, ServIInv, AcceptHasOne
<1>3. /\ KernelTypes' /\ f \notin open /\ open' = open \cup {f} /\ pending' = pending - 1
  BY <1>1, <1>2, AcceptKernel DEF ServIInv, ServTypeOK
<1>4. /\ clientfds \in Seq(E) /\ len \in Nat /\ DOMAIN clientfds = 1 .. len /\ f \in E
      /\ f # INVALID_FD
  BY <1>0, VectorFacts DEF ServIInv, ServTypeOK
<1>5. /\ clientfds' \in Seq(E) /\ Len(clientfds') = len + 1 /\ DOMAIN clientfds' = 1 .. len + 1
      /\ \A k \in 1 .. len : clientfds'[k] = clientfds[k]
      /\ clientfds'[len + 1] = f
  <2>1. clientfds' \in Seq(E) /\ Len(clientfds') = len + 1
    BY <1>0, <1>1, <1>4, AppendProperties
  <2>. QED  BY <1>0, <1>1, <1>4, <2>1, AppendProperties, LenProperties
<1> HIDE DEF E
<1>6. 1 .. len + 1 = (1 .. len) \cup {len + 1}
  BY <1>4
<1>7. ServTypeOK'
  <2>1. place \in Nat /\ place >= 1 /\ place <= len + 1
    BY <1>0, VectorFacts DEF ServIInv
  <2>2. place' \in 1 .. Len(clientfds') + 1
    BY <1>2, <1>4, <1>5, <2>1
  <2>3. Len(clientfds') + pending' <= MaxClients
    <3>1. pending \in Int /\ MaxClients \in Int
      BY KernelAssumption, ServAssumption DEF ServIInv, ServTypeOK, KernelTypes
    <3>2. len + pending <= MaxClients
      BY <1>0 DEF ServIInv, ServTypeOK
    <3>. QED  BY <1>3, <1>4, <1>5, <3>1, <3>2
  <2>. QED  BY <1>2, <1>3, <1>5, <2>2, <2>3 DEF ServIInv, ServTypeOK, E
<1>8. OpenHeldOnce'
  <2>1. unclosed = 1 .. len /\ unclosed' = 1 .. len + 1
    BY <1>2, <1>4, <1>5 DEF unclosed
  <2>2. /\ open = fdsOf(1 .. len)
        /\ \A j, k \in 1 .. len : clientfds[j] = clientfds[k] /\ clientfds[j] # INVALID_FD => j = k
    BY <2>1 DEF ServIInv, OpenHeldOnce
  <2>3. \A k \in 1 .. len : clientfds[k] # f
    BY <1>3, <1>4, <2>2, FdsOf
  <2>4. open' = {clientfds'[k] : k \in 1 .. len + 1} \ {INVALID_FD}
    <3>1. open' = fdsOf(1 .. len) \cup {f}
      BY <1>3, <2>2
    <3>. QED  BY <1>4, <1>5, <1>6, <3>1 DEF fdsOf
  <2>5. ASSUME NEW j \in 1 .. len + 1, NEW k \in 1 .. len + 1,
               clientfds'[j] = clientfds'[k], clientfds'[j] # INVALID_FD
        PROVE  j = k
    BY <1>5, <1>6, <2>2, <2>3, <2>5
  <2>. QED  BY <1>2, <2>1, <2>4, <2>5 DEF OpenHeldOnce, fdsOf
<1>. QED  BY <1>2, <1>7, <1>8 DEF ServIInv, ReadyKept, AcceptHasOne

\* The entry of the loop variable, where the loop reads or closes.
LEMMA HereFacts ==
  ASSUME ServIInv, place \in 1 .. Len(clientfds), here # INVALID_FD, at # "exit"
  PROVE  /\ here \in ClientFd /\ place \in unclosed
         /\ \A k \in unclosed : k # place => clientfds[k] # here
<1>1. here \in ClientFd
  BY VectorFacts DEF ServIInv, here
<1>2. place \in unclosed
  BY VectorFacts DEF ServIInv, unclosed
<1>3. \A k \in unclosed : k # place => clientfds[k] # here
  BY <1>2 DEF ServIInv, OpenHeldOnce, here
<1>. QED  BY <1>1, <1>2, <1>3

\* The loop goes on to the next entry with what select reported of it still there.
LEMMA StillReady ==
  ASSUME ServIInv, at = "read", place \in 1 .. Len(clientfds), place' = place + 1,
         readset' = readset,
         \A k \in place + 1 .. Len(clientfds) :
            clientfds[k] # INVALID_FD =>
              clientfds'[k] = clientfds[k] /\ incoming'[clientfds[k]] = incoming[clientfds[k]],
         \A k \in place + 1 .. Len(clientfds) :
            clientfds[k] = INVALID_FD => clientfds'[k] = INVALID_FD,
         Len(clientfds') = Len(clientfds)
  PROVE  ReadyKept'
<1>1. ASSUME NEW k \in place + 1 .. Len(clientfds), clientfds'[k] # INVALID_FD,
             clientfds'[k] \in readset
      PROVE  readable(clientfds[k])'
  <2>1. Len(clientfds) \in Nat /\ place \in Nat
    BY VectorFacts DEF ServIInv
  <2>2. k \in place .. Len(clientfds) /\ k \in 1 .. Len(clientfds)
    BY <2>1
  <2>3. clientfds[k] # INVALID_FD
    BY <1>1
  <2>4. clientfds'[k] = clientfds[k] /\ incoming'[clientfds[k]] = incoming[clientfds[k]]
    BY <2>3
  <2>5. clientfds[k] \in ClientFd /\ clientfds[k] # sock_fd
    BY <2>2, <2>3, VectorFacts, ClientFdFacts DEF ServIInv
  <2>6. readable(clientfds[k])
    BY <1>1, <2>2, <2>3, <2>4 DEF ServIInv, ReadyKept
  <2>. QED  BY <2>4, <2>5, <2>6 DEF readable
<1>. QED  BY <1>1 DEF ReadyKept

\* recv has something; the other entries have other descriptors.
LEMMA ServReadStep ==
  ASSUME ServIInv, ServRead
  PROVE  ServIInv'
<1>1. /\ at = "read" /\ place <= Len(clientfds) /\ here # INVALID_FD
      /\ place' = place + 1 /\ UNCHANGED <<clientfds, readset, at>> /\ receives(here)
  BY DEF ServRead, isReady
<1>2. place \in 1 .. Len(clientfds)
  BY <1>1, VectorFacts DEF ServIInv
<1>3. here \in ClientFd /\ \A k \in unclosed : k # place => clientfds[k] # here
  BY <1>1, <1>2, HereFacts
<1>4. /\ KernelTypes' /\ open' = open /\ pending' = pending
      /\ \A g \in ClientFd : g # here => incoming'[g] = incoming[g]
  BY <1>1, <1>3, OneDescriptor DEF receives, ServIInv, ServTypeOK
<1>5. ServTypeOK'
  <2>1. place' \in 1 .. Len(clientfds) + 1
    BY <1>1, VectorFacts DEF ServIInv
  <2>. QED  BY <1>1, <1>4, <2>1 DEF ServIInv, ServTypeOK
<1>6. OpenHeldOnce'
  <2>1. unclosed' = unclosed /\ at' # "exit"
    BY <1>1 DEF unclosed
  <2>. QED  BY <1>1, <1>4, <2>1, SameHeld DEF ServIInv
<1>7. ReadyKept'
  <2>1. ASSUME NEW k \in place + 1 .. Len(clientfds), clientfds[k] # INVALID_FD
        PROVE  incoming'[clientfds[k]] = incoming[clientfds[k]]
    <3>1. Len(clientfds) \in Nat /\ place \in Nat
      BY VectorFacts DEF ServIInv
    <3>2. k \in 1 .. Len(clientfds) /\ k # place
      BY <1>2, <3>1
    <3>3. k \in unclosed /\ clientfds[k] \in ClientFd
      BY <1>1, <2>1, <3>2, VectorFacts DEF ServIInv, unclosed
    <3>. QED  BY <1>3, <1>4, <3>2, <3>3
  <2>2. clientfds' = clientfds
    BY <1>1
  <2>. QED  BY <1>1, <1>2, <2>1, <2>2, StillReady
<1>. QED  BY <1>1, <1>5, <1>6, <1>7 DEF ServIInv, AcceptHasOne

\* A client that has left loses its entry and its descriptor together.
LEMMA ServDropStep ==
  ASSUME ServIInv, ServDrop
  PROVE  ServIInv'
<1> DEFINE E == ClientFd \cup {INVALID_FD}
<1>0. PICK len \in Nat : len = Len(clientfds)
  BY VectorFacts DEF ServIInv
<1>1. /\ at = "read" /\ place <= len /\ here # INVALID_FD
      /\ place' = place + 1 /\ UNCHANGED <<readset, at>> /\ closes(here)
      /\ clientfds' = [clientfds EXCEPT ![place] = INVALID_FD]
  BY <1>0 DEF ServDrop, isReady
<1>2. place \in 1 .. len /\ place + 1 \in 1 .. len + 1
  BY <1>0, <1>1, VectorFacts DEF ServIInv
<1>3. here \in ClientFd /\ \A k \in unclosed : k # place => clientfds[k] # here
  BY <1>0, <1>1, <1>2, HereFacts
<1>4. /\ KernelTypes' /\ open' = open \ {here} /\ pending' = pending
      /\ \A g \in ClientFd : g # here => incoming'[g] = incoming[g]
  BY <1>1, <1>3, OneDescriptor DEF closes, ServIInv, ServTypeOK
<1>5. /\ clientfds' \in Seq(E) /\ Len(clientfds') = len /\ DOMAIN clientfds' = 1 .. len
      /\ \A k \in 1 .. len : clientfds'[k] = IF k = place THEN INVALID_FD ELSE clientfds[k]
  <2>1. clientfds \in Seq(E) /\ INVALID_FD \in E
    BY DEF ServIInv, ServTypeOK
  <2>2. /\ clientfds' \in Seq(E) /\ Len(clientfds') = len
        /\ \A k \in 1 .. len : clientfds'[k] = IF k = place THEN INVALID_FD ELSE clientfds[k]
    BY <1>0, <1>1, <1>2, <2>1, ExceptSeq
  <2>. QED  BY <2>2, LenProperties
<1> HIDE DEF E
<1>6. ServTypeOK'
  <2>1. place' \in 1 .. Len(clientfds') + 1 /\ Len(clientfds') + pending' <= MaxClients
    BY <1>0, <1>1, <1>2, <1>4, <1>5 DEF ServIInv, ServTypeOK
  <2>. QED  BY <1>1, <1>4, <1>5, <2>1 DEF ServIInv, ServTypeOK, E
<1>7. /\ unclosed = 1 .. len /\ unclosed' = 1 .. len
  BY <1>0, <1>1, <1>5, VectorFacts DEF unclosed, ServIInv
<1>8. OpenHeldOnce'
  <2>1. /\ open = {clientfds[k] : k \in 1 .. len} \ {INVALID_FD}
        /\ \A j, k \in 1 .. len : clientfds[j] = clientfds[k] /\ clientfds[j] # INVALID_FD => j = k
    BY <1>7 DEF ServIInv, OpenHeldOnce, fdsOf
  <2>2. open' = {clientfds'[k] : k \in 1 .. len} \ {INVALID_FD}
    <3>1. \A k \in 1 .. len : k # place => clientfds[k] # here
      BY <1>3, <1>7
    <3>2. clientfds[place] = here
      BY DEF here
    <3>3. ASSUME NEW f PROVE f \in open' <=> f # INVALID_FD /\ \E k \in 1 .. len : clientfds'[k] = f
      <4>1. f \in open' <=> f # here /\ f # INVALID_FD /\ \E k \in 1 .. len : clientfds[k] = f
        BY <1>4, <2>1
      <4>. QED  BY <1>2, <1>5, <3>1, <3>2, <4>1
    <3>. QED  BY <3>3
  <2>3. ASSUME NEW j \in 1 .. len, NEW k \in 1 .. len,
               clientfds'[j] = clientfds'[k], clientfds'[j] # INVALID_FD
        PROVE  j = k
    BY <1>5, <2>1, <2>3
  <2>. QED  BY <1>1, <1>7, <2>2, <2>3 DEF OpenHeldOnce, fdsOf
<1>9. ReadyKept'
  <2>1. ASSUME NEW k \in place + 1 .. Len(clientfds)
        PROVE  /\ clientfds'[k] = clientfds[k]
               /\ clientfds[k] # INVALID_FD => incoming'[clientfds[k]] = incoming[clientfds[k]]
    <3>1. k \in 1 .. len /\ k # place
      BY <1>0, <1>2
    <3>2. clientfds[k] \in ClientFd \cup {INVALID_FD} /\ clientfds[k] # here
      BY <1>0, <1>3, <1>7, <3>1, VectorFacts DEF ServIInv
    <3>. QED  BY <1>4, <1>5, <3>1, <3>2
  <2>. QED  BY <1>0, <1>1, <1>2, <1>5, <2>1, StillReady
<1>. QED  BY <1>1, <1>6, <1>8, <1>9 DEF ServIInv, AcceptHasOne

\* An entry that is not read, and the end of the round.
LEMMA ServPassStep ==
  ASSUME ServIInv, ServSkip \/ ServRoundDone
  PROVE  ServIInv'
<1>1. /\ at = "read" /\ at' \in {"read", "select"}
      /\ UNCHANGED <<clientfds, readset, open, incoming, pending>>
      /\ \/ place <= Len(clientfds) /\ place' = place + 1
         \/ at' = "select" /\ place' = place
  BY DEF ServSkip, ServRoundDone, kernelVars
<1>2. Len(clientfds) \in Nat /\ place \in Nat /\ place >= 1 /\ place <= Len(clientfds) + 1
  BY VectorFacts DEF ServIInv
<1>3. place' \in 1 .. Len(clientfds) + 1 /\ place' \in Nat /\ place' >= place
  BY <1>1, <1>2
<1>4. ServTypeOK'
  <2>1. KernelTypes'
    BY <1>1, NoCall DEF ServIInv, ServTypeOK, kernelVars
  <2>. QED  BY <1>1, <1>3, <2>1 DEF ServIInv, ServTypeOK
<1>5. OpenHeldOnce'
  <2>1. unclosed' = unclosed /\ at' # "exit"
    BY <1>1 DEF unclosed
  <2>. QED  BY <1>1, <2>1, SameHeld DEF ServIInv
<1>6. ReadyKept'
  <2>1. \A k \in place' .. Len(clientfds) : k \in place .. Len(clientfds)
    BY <1>2, <1>3
  <2>. QED  BY <1>1, <2>1 DEF ServIInv, ReadyKept, readable
<1>. QED  BY <1>1, <1>4, <1>5, <1>6 DEF ServIInv, AcceptHasOne

\* The closing loop closes the entry that it leaves behind.
LEMMA ServCloseStep ==
  ASSUME ServIInv, ServCloses
  PROVE  ServIInv'
<1>0. PICK len \in Nat : len = Len(clientfds)
  BY VectorFacts DEF ServIInv
<1>1. /\ at = "closing" /\ at' = "closing" /\ place \in 1 .. len /\ place' = place + 1
      /\ UNCHANGED <<clientfds, readset>> /\ closesHere
  BY <1>0, VectorFacts DEF ServCloses, ServIInv
<1>2. /\ KernelTypes' /\ pending' = pending
      /\ open' = open \ ({here} \ {INVALID_FD})
      /\ \A k \in place + 1 .. len : clientfds[k] # here \/ here = INVALID_FD
  <2>1. CASE here # INVALID_FD
    <3>1. here \in ClientFd /\ \A k \in unclosed : k # place => clientfds[k] # here
      BY <1>0, <1>1, <2>1, HereFacts
    <3>2. \A k \in place + 1 .. len : k \in unclosed /\ k # place
      BY <1>0, <1>1 DEF unclosed
    <3>. QED  BY <1>1, <2>1, <3>1, <3>2, OneDescriptor DEF closesHere, closes, ServIInv, ServTypeOK
  <2>2. CASE here = INVALID_FD
    BY <1>1, <2>2, NoCall DEF closesHere, kernelVars, ServIInv, ServTypeOK
  <2>. QED  BY <2>1, <2>2
<1>3. ServTypeOK'
  <2>1. place' \in 1 .. Len(clientfds) + 1
    BY <1>0, <1>1
  <2>. QED  BY <1>1, <1>2, <2>1 DEF ServIInv, ServTypeOK
<1>4. OpenHeldOnce'
  <2>1. unclosed = place .. len /\ unclosed' = place + 1 .. len
    BY <1>0, <1>1 DEF unclosed
  <2>2. place .. len = {place} \cup (place + 1 .. len)
    BY <1>1
  <2>3. /\ open = {clientfds[k] : k \in place .. len} \ {INVALID_FD}
        /\ \A j, k \in place .. len :
              clientfds[j] = clientfds[k] /\ clientfds[j] # INVALID_FD => j = k
    BY <2>1 DEF ServIInv, OpenHeldOnce, fdsOf
  <2>4. open' = {clientfds[k] : k \in place + 1 .. len} \ {INVALID_FD}
    <3>1. clientfds[place] = here
      BY DEF here
    <3>2. ASSUME NEW f
          PROVE  f \in open' <=> f # INVALID_FD /\ \E k \in place + 1 .. len : clientfds[k] = f
      <4>1. f \in open' <=> /\ f # INVALID_FD /\ f # here
                            /\ \E k \in place .. len : clientfds[k] = f
        BY <1>2, <2>3
      <4>. QED  BY <1>2, <2>2, <3>1, <4>1
    <3>. QED  BY <3>2
  <2>. QED  BY <1>1, <2>1, <2>2, <2>3, <2>4 DEF OpenHeldOnce, fdsOf
<1>. QED  BY <1>1, <1>3, <1>4 DEF ServIInv, ReadyKept, AcceptHasOne

\* When the closing loop has come to the end, nothing is left to close.
LEMMA ServExitStep ==
  ASSUME ServIInv, ServExits
  PROVE  ServIInv'
<1>1. /\ at = "closing" /\ at' = "exit" /\ place > Len(clientfds)
      /\ UNCHANGED <<clientfds, readset, place, open, incoming, pending>>
  BY DEF ServExits, kernelVars
<1>2. ServTypeOK'
  <2>1. KernelTypes'
    BY <1>1, NoCall DEF ServIInv, ServTypeOK, kernelVars
  <2>. QED  BY <1>1, <2>1 DEF ServIInv, ServTypeOK
<1>3. unclosed = {} /\ unclosed' = unclosed
  <2>1. place .. Len(clientfds) = {}
    BY <1>1, VectorFacts DEF ServIInv
  <2>. QED  BY <1>1, <2>1 DEF unclosed
<1>4. open = {}
  BY <1>3 DEF ServIInv, OpenHeldOnce, fdsOf
<1>. QED  BY <1>1, <1>2, <1>3, <1>4, SameHeld DEF ServIInv, ReadyKept, AcceptHasOne

\* Clients take nothing away that select has reported.
LEMMA ServClientsStep ==
  ASSUME ServIInv, ServClients
  PROVE  ServIInv'
<1>1. /\ KernelTypes /\ UNCHANGED <<clientfds, readset, at, place>> /\ at # "exit"
      /\ ClientConnects => Len(clientfds) + pending < MaxClients \/ pending' = pending
      /\ ClientConnects \/ ClientSends \/ ClientCloses
  BY DEF ServClients, servVars, ServIInv, ServTypeOK, ClientSends, ClientCloses
<1>2. /\ KernelTypes' /\ open' = open
      /\ \A f \in ClientFd \cup {sock_fd} : readable(f) => readable(f)'
      /\ pending' = pending \/ (ClientConnects /\ pending' = pending + 1)
  BY <1>1, ClientsKernel
<1>3. ServTypeOK'
  <2>1. Len(clientfds) \in Int /\ pending \in Int /\ MaxClients \in Int
    BY <1>1, VectorFacts, ServAssumption, KernelAssumption DEF ServIInv, KernelTypes
  <2>2. Len(clientfds) + pending <= MaxClients
    BY DEF ServIInv, ServTypeOK
  <2>3. Len(clientfds) + pending' <= MaxClients
    <3>1. CASE pending' = pending
      BY <2>2, <3>1
    <3>2. CASE pending' # pending
      <4>1. Len(clientfds) + pending < MaxClients /\ pending' = pending + 1
        BY <1>1, <1>2, <3>2
      <4>. QED  BY <2>1, <4>1
    <3>. QED  BY <3>1, <3>2
  <2>. QED  BY <1>1, <1>2, <2>3 DEF ServIInv, ServTypeOK
<1>4. OpenHeldOnce'
  <2>1. unclosed' = unclosed /\ at' # "exit"
    BY <1>1 DEF unclosed
  <2>. QED  BY <1>1, <1>2, <2>1, SameHeld DEF ServIInv
<1>5. ReadyKept'
  <2>1. ASSUME NEW k \in place .. Len(clientfds), clientfds[k] # INVALID_FD,
               readable(clientfds[k])
        PROVE  readable(clientfds[k])'
    <3>1. k \in 1 .. Len(clientfds)
      BY VectorFacts DEF ServIInv
    <3>2. clientfds[k] \in ClientFd /\ clientfds'[k] = clientfds[k]
      BY <1>1, <2>1, <3>1, VectorFacts DEF ServIInv
    <3>. QED  BY <1>2, <2>1, <3>2
  <2>. QED  BY <1>1, <2>1 DEF ServIInv, ReadyKept
<1>6. AcceptHasOne'
  BY <1>1, <1>2 DEF ServIInv, AcceptHasOne, readable
<1>. QED  BY <1>3, <1>4, <1>5, <1>6 DEF ServIInv

\* Every step of the program and of its clients keeps the invariant.
LEMMA ServStepIInv == ServIInv /\ [ServNext]_<<servVars, kernelVars>> => ServIInv'
<1>. SUFFICES ASSUME ServIInv, [ServNext]_<<servVars, kernelVars>> PROVE ServIInv'
  OBVIOUS
<1>1. CASE ServSelect  BY <1>1, ServSelectStep
<1>2. CASE ServSelectFails \/ ServAcceptFails  BY <1>2, BreakStep
<1>3. CASE ServAccept  BY <1>3, ServAcceptStep
<1>4. CASE ServRead  BY <1>4, ServReadStep
<1>5. CASE ServDrop  BY <1>5, ServDropStep
<1>6. CASE ServSkip \/ ServRoundDone  BY <1>6, ServPassStep
<1>7. CASE ServCloses  BY <1>7, ServCloseStep
<1>8. CASE ServExits  BY <1>8, ServExitStep
<1>9. CASE ServClients  BY <1>9, ServClientsStep
<1>10. CASE UNCHANGED <<servVars, kernelVars>>
  <2>1. UNCHANGED <<clientfds, readset, at, place, open, incoming, pending>>
    BY <1>10 DEF servVars, kernelVars
  <2>2. ServTypeOK'
    <3>1. KernelTypes'
      BY <2>1, NoCall DEF ServIInv, ServTypeOK, kernelVars
    <3>. QED  BY <2>1, <3>1 DEF ServIInv, ServTypeOK
  <2>3. OpenHeldOnce'
    <3>1. unclosed' = unclosed /\ (at' = "exit" => open = {})
      BY <2>1 DEF unclosed, ServIInv, OpenHeldOnce
    <3>. QED  BY <2>1, <3>1, SameHeld DEF ServIInv
  <2>4. ReadyKept' /\ AcceptHasOne'
    BY <2>1 DEF ServIInv, ReadyKept, AcceptHasOne, readable
  <2>. QED  BY <2>2, <2>3, <2>4 DEF ServIInv
<1>. QED
  BY <1>1, <1>2, <1>3, <1>4, <1>5, <1>6, <1>7, <1>8, <1>9, <1>10 DEF ServNext, Serves

\* select_serv.cpp keeps its invariant in every reachable state.
THEOREM ServInvariance == ServSpec => []ServIInv
BY ServInitIInv, ServStepIInv, PTL DEF ServSpec

\* What the invariant says of the calls: recv and accept have something to return.
LEMMA ServCallsReturn ==
  ASSUME ServIInv
  PROVE  ServNeverBlocks
<1>1. ASSUME isReady PROVE readable(here)
  <2>1. place \in place .. Len(clientfds) /\ at = "read"
    BY <1>1, VectorFacts DEF isReady, ServIInv
  <2>. QED  BY <1>1, <2>1 DEF ServIInv, ReadyKept, isReady, here
<1>. QED  BY <1>1 DEF ServIInv, AcceptHasOne, ServNeverBlocks

-----------------------------------------------------------------------------
(* Whichever of the two programs runs *)

ServersIInv ==
    \/ program = "select_test" /\ IInv /\ servRests
    \/ program = "select_serv" /\ ServIInv /\ testRests

LEMMA ServersInit_IInv == ServersInit => ServersIInv
BY InitIInv, ServInitIInv DEF ServersInit, ServersIInv, Init, ServInit, servRests, testRests

\* A step of one program keeps its invariant, and the other one's variables rest.
LEMMA ServersStepIInv == ServersIInv /\ [ServersNext]_serversVars => ServersIInv'
<1>. SUFFICES ASSUME ServersIInv, [ServersNext]_serversVars PROVE ServersIInv'
  OBVIOUS
<1>1. CASE testRuns /\ Next
  <2>1. IInv /\ servRests /\ program = "select_test"
    BY <1>1 DEF ServersIInv, testRuns
  <2>2. IInv'
    BY <1>1, <2>1, StepIInv
  <2>3. servRests' /\ program' = "select_test"
    BY <1>1, <2>1 DEF testRuns, servRests, servVars
  <2>. QED  BY <2>2, <2>3 DEF ServersIInv
<1>2. CASE servRuns /\ ServNext
  <2>1. ServIInv /\ testRests /\ program = "select_serv"
    BY <1>2 DEF ServersIInv, servRuns
  <2>2. ServIInv'
    BY <1>2, <2>1, ServStepIInv
  <2>3. testRests' /\ program' = "select_serv"
    BY <1>2, <2>1 DEF servRuns, testRests, serverVars
  <2>. QED  BY <2>2, <2>3 DEF ServersIInv
<1>3. CASE UNCHANGED serversVars
  <2>1. UNCHANGED vars /\ UNCHANGED <<servVars, kernelVars>> /\ program' = program
    BY <1>3 DEF serversVars, vars
  <2>2. CASE program = "select_test"
    <3>1. IInv /\ servRests
      BY <2>2 DEF ServersIInv
    <3>2. IInv'
      BY <2>1, <3>1, StepIInv
    <3>3. servRests'
      BY <2>1, <3>1 DEF servRests, servVars
    <3>. QED  BY <2>1, <2>2, <3>2, <3>3 DEF ServersIInv
  <2>3. CASE program = "select_serv"
    <3>1. ServIInv /\ testRests
      BY <2>3 DEF ServersIInv
    <3>2. ServIInv'
      BY <2>1, <3>1, ServStepIInv
    <3>3. testRests'
      BY <2>1, <3>1 DEF testRests, vars, serverVars
    <3>. QED  BY <2>1, <2>3, <3>2, <3>3 DEF ServersIInv
  <2>. QED  BY <2>2, <2>3 DEF ServersIInv
<1>. QED  BY <1>1, <1>2, <1>3 DEF ServersNext

\* The invariant of the program that runs holds in every reachable state.
THEOREM ServersInvariance == ServersSpec => []ServersIInv
BY ServersInit_IInv, ServersStepIInv, PTL DEF ServersSpec

\* The variables have their types; counter and loop variable stay in the table of
\* select_test.cpp, the loop variable of select_serv.cpp passes its vector by one at most.
THEOREM TypeCorrect == ServersSpec => []ServersTypeOK
<1>1. ServersIInv => ServersTypeOK
  BY DEF ServersIInv, ServersTypeOK, IInv, ServIInv
<1>. QED  BY <1>1, ServersInvariance, PTL

\* conn_amount is the number of slots in use (select_test.cpp:98, 122).
THEOREM CountCorrect == ServersSpec => []SlotsCounted
<1>1. ServersIInv => SlotsCounted
  <2>. SUFFICES ASSUME testRests PROVE SlotsCounted
    BY DEF ServersIInv, IInv
  <2>1. used = {}
    BY DEF testRests, used
  <2>. QED  BY <2>1, FS_EmptySet DEF testRests, SlotsCounted
<1>. QED  BY <1>1, ServersInvariance, PTL

\* The slots hold different open descriptors up to maxsock (select_test.cpp:95-97,
\* 118-125); the vector holds each open connection once, and when the program has left its
\* loop (select_serv.cpp:98) it ends with none open.
THEOREM TablesCorrect == ServersSpec => []HeldOnce
<1>1. ServersIInv => HeldOnce
  BY DEF ServersIInv, HeldOnce, IInv, ServIInv
<1>. QED  BY <1>1, ServersInvariance, PTL

\* recv and accept never block a loop (select_test.cpp:90-109, select_serv.cpp:70, 83).
THEOREM LoopsNeverBlock == ServersSpec => []BlocksInSelect
<1>1. ServersIInv => BlocksInSelect
  <2>1. ASSUME IInv, servRests PROVE BlocksInSelect
    BY <2>1 DEF IInv, BlocksInSelect, servRests, ServNeverBlocks, isReady
  <2>2. ASSUME ServIInv, testRests PROVE BlocksInSelect
    BY <2>2, ServCallsReturn DEF BlocksInSelect, testRests, NeverBlocks
  <2>. QED  BY <2>1, <2>2 DEF ServersIInv
<1>. QED  BY <1>1, ServersInvariance, PTL
=============================================================================
