------------------------- MODULE MysqlThreadProofs -------------------------
(***************************************************************************)
(* The invariants of MysqlThread, for any set of tasks, any size of the    *)
(* rings and any number of starts.                                         *)
(***************************************************************************)
EXTENDS MysqlThread, SequenceLemmas, FiniteSetTheorems

(***************************************************************************)
(* Lemmas about rings.                                                     *)
(***************************************************************************)
\* A ring holds no more than its slots were given.
IsRing(r) == r \in Rings /\ r.held <= Len(r.slots)

\* A ring's slots are a sequence of bounded length.
LEMMA Slots ==
    ASSUME NEW s
    PROVE  s \in UNION {[1 .. n -> Task] : n \in 0 .. MAX_TASK_NUM}
              <=> s \in Seq(Task) /\ Len(s) <= MAX_TASK_NUM
<1>1. ASSUME NEW n \in 0 .. MAX_TASK_NUM, s \in [1 .. n -> Task]
      PROVE  s \in Seq(Task) /\ Len(s) <= MAX_TASK_NUM
    <2>1. n \in Nat BY RingAssumption
    <2> QED BY <1>1, <2>1, SeqDef, LenProperties
<1>2. ASSUME s \in Seq(Task), Len(s) <= MAX_TASK_NUM
      PROVE  Len(s) \in 0 .. MAX_TASK_NUM /\ s \in [1 .. Len(s) -> Task]
    BY <1>2, LenProperties, RingAssumption
<1> QED BY <1>1, <1>2

\* A ring is its slots and a count.
LEMMA RingParts ==
    ASSUME NEW r, IsRing(r)
    PROVE  /\ r = [slots |-> r.slots, held |-> r.held]
           /\ r.slots \in Seq(Task) /\ Len(r.slots) \in 0 .. MAX_TASK_NUM
           /\ r.held \in 0 .. MAX_TASK_NUM - 1 /\ r.held <= Len(r.slots)
    BY Slots, LenProperties, RingAssumption DEF IsRing, Rings

\* What a ring holds, oldest first.
LEMMA QueuedSeq ==
    ASSUME NEW r, IsRing(r)
    PROVE  /\ queued(r) \in Seq(Task) /\ Len(queued(r)) = r.held
           /\ \A i \in 1 .. r.held : queued(r)[i] = r.slots[Len(r.slots) - r.held + i]
<1>. DEFINE L == Len(r.slots)
            first == L - r.held + 1
<1>0. /\ L \in Nat /\ r.held \in Nat /\ r.held <= L
      /\ r.slots \in Seq(Task)
    BY RingParts, RingAssumption
<1>1. /\ first \in Int /\ L - first + 1 = r.held /\ (first <= L <=> r.held > 0)
      /\ \A i \in first .. L : r.slots[i] \in Task
    BY <1>0, ElementOfSeq
<1>2. /\ SubSeq(r.slots, first, L) \in Seq(Task)
      /\ Len(SubSeq(r.slots, first, L)) = IF first <= L THEN L - first + 1 ELSE 0
      /\ \A i \in 1 .. L - first + 1 : SubSeq(r.slots, first, L)[i] = r.slots[first + i - 1]
    <2> HIDE DEF L, first
    <2> QED BY <1>0, <1>1, SubSeqProperties
<1>3. ASSUME NEW i \in 1 .. r.held
      PROVE  SubSeq(r.slots, first, L)[i] = r.slots[L - r.held + i]
    <2>1. i \in 1 .. L - first + 1 BY <1>1
    <2>2. i \in Int BY <1>0
    <2>3. first + i - 1 = L - r.held + i BY <1>0, <2>2
    <2> QED BY <1>2, <2>1, <2>3
<1>4. queued(r) = SubSeq(r.slots, first, L) BY DEF queued
<1>5. (IF first <= L THEN L - first + 1 ELSE 0) = r.held BY <1>0, <1>1
<1> QED BY <1>2, <1>3, <1>4, <1>5

\* push appends, also when it overwrites a slot of the lap before.
LEMMA PushedRing ==
    ASSUME NEW r, IsRing(r), ~isFull(r), NEW t \in Task
    PROVE  /\ IsRing(pushed(r, t))
           /\ queued(pushed(r, t)) = Append(queued(r), t)
<1>. DEFINE kept == IF Len(r.slots) = MAX_TASK_NUM THEN Tail(r.slots) ELSE r.slots
            p == pushed(r, t)
<1>1. /\ r.slots \in Seq(Task) /\ Len(r.slots) \in 0 .. MAX_TASK_NUM
      /\ r.held \in 0 .. MAX_TASK_NUM - 2 /\ r.held <= Len(r.slots)
    BY RingParts, RingAssumption DEF isFull
<1>2. /\ kept \in Seq(Task) /\ Len(kept) \in 0 .. MAX_TASK_NUM - 1 /\ r.held <= Len(kept)
      /\ \A i \in 1 .. r.held : kept[Len(kept) - r.held + i]
                                  = r.slots[Len(r.slots) - r.held + i]
    <2>1. CASE Len(r.slots) = MAX_TASK_NUM
        <3>1. r.slots # <<>> BY <1>1, <2>1, RingAssumption, EmptySeq
        <3>2. /\ kept = Tail(r.slots) /\ kept \in Seq(Task)
              /\ Len(kept) = Len(r.slots) - 1
              /\ \A i \in 1 .. Len(kept) : kept[i] = r.slots[i + 1]
            BY <1>1, <2>1, <3>1, HeadTailProperties
        <3> HIDE DEF kept
        <3>3. ASSUME NEW i \in 1 .. r.held
              PROVE  kept[Len(kept) - r.held + i] = r.slots[Len(r.slots) - r.held + i]
            <4>1. Len(kept) - r.held + i \in 1 .. Len(kept)
                BY <1>1, <2>1, <3>2, RingAssumption
            <4>2. Len(kept) - r.held + i + 1 = Len(r.slots) - r.held + i
                <5>1. Len(r.slots) \in Int /\ r.held \in Int /\ i \in Int
                    BY <1>1, RingAssumption
                <5> QED BY <3>2, <5>1
            <4> QED BY <3>2, <4>1, <4>2
        <3> QED BY <1>1, <2>1, <3>2, <3>3, RingAssumption
    <2>2. CASE Len(r.slots) # MAX_TASK_NUM
        BY <1>1, <2>2, RingAssumption
    <2> QED BY <2>1, <2>2
<1>3. p.slots = Append(kept, t) /\ p.held = r.held + 1 /\ p = [slots |-> p.slots, held |-> p.held]
    BY DEF pushed
<1>4. /\ p.slots \in Seq(Task) /\ Len(p.slots) = Len(kept) + 1
      /\ \A i \in 1 .. Len(kept) : p.slots[i] = kept[i]
      /\ p.slots[Len(kept) + 1] = t
    <2> HIDE DEF kept, p
    <2> QED BY <1>2, <1>3, AppendProperties
<1>5. IsRing(p)
    <2> HIDE DEF kept, p
    <2>1. Len(p.slots) <= MAX_TASK_NUM /\ p.held \in 0 .. MAX_TASK_NUM - 1
        BY <1>1, <1>2, <1>3, <1>4, RingAssumption
    <2>2. p.slots \in UNION {[1 .. n -> Task] : n \in 0 .. MAX_TASK_NUM}
        BY <1>4, <2>1, Slots
    <2>3. p \in Rings BY <1>3, <2>1, <2>2 DEF Rings
    <2>4. p.held <= Len(p.slots) BY <1>1, <1>2, <1>3, <1>4
    <2> QED BY <2>3, <2>4 DEF IsRing
<1>6. queued(p) = Append(queued(r), t)
    <2> HIDE DEF p
    <2>1. /\ queued(p) \in Seq(Task) /\ Len(queued(p)) = r.held + 1
          /\ \A i \in 1 .. r.held + 1 : queued(p)[i] = p.slots[Len(p.slots) - (r.held + 1) + i]
        <3>1. /\ queued(p) \in Seq(Task) /\ Len(queued(p)) = p.held
              /\ \A i \in 1 .. p.held : queued(p)[i] = p.slots[Len(p.slots) - p.held + i]
            BY <1>5, QueuedSeq
        <3> QED BY <1>3, <3>1
    <2>2. /\ queued(r) \in Seq(Task) /\ Len(queued(r)) = r.held
          /\ \A i \in 1 .. r.held : queued(r)[i] = r.slots[Len(r.slots) - r.held + i]
        BY QueuedSeq
    <2>3. /\ Append(queued(r), t) \in Seq(Task) /\ Len(Append(queued(r), t)) = r.held + 1
          /\ \A i \in 1 .. r.held : Append(queued(r), t)[i] = queued(r)[i]
          /\ Append(queued(r), t)[r.held + 1] = t
        BY <2>2, AppendProperties
    <2> HIDE DEF kept
    <2>4. ASSUME NEW i \in 1 .. r.held + 1 PROVE queued(p)[i] = Append(queued(r), t)[i]
        <3>0. /\ Len(kept) \in Nat /\ r.held \in Nat /\ i \in Nat
              /\ Len(p.slots) = Len(kept) + 1 /\ r.held <= Len(kept)
            BY <1>1, <1>2, <1>4, RingAssumption
        <3>1. Len(p.slots) - (r.held + 1) + i = Len(kept) - r.held + i
            BY <3>0
        <3>2. queued(p)[i] = p.slots[Len(kept) - r.held + i] BY <2>1, <3>1
        <3>3. CASE i = r.held + 1
            <4>1. Len(kept) - r.held + i = Len(kept) + 1 BY <3>0, <3>3
            <4> QED BY <1>4, <2>3, <3>2, <3>3, <4>1
        <3>4. CASE i # r.held + 1
            <4>1. i \in 1 .. r.held /\ Len(kept) - r.held + i \in 1 .. Len(kept)
                BY <3>0, <3>4
            <4>2. p.slots[Len(kept) - r.held + i] = kept[Len(kept) - r.held + i] BY <1>4, <4>1
            <4>3. kept[Len(kept) - r.held + i] = r.slots[Len(r.slots) - r.held + i]
                BY <1>2, <4>1
            <4> QED BY <2>2, <2>3, <3>2, <4>1, <4>2, <4>3
        <3> QED BY <3>3, <3>4
    <2> QED BY <2>1, <2>3, <2>4, SeqEqual
<1> QED BY <1>5, <1>6

\* pop takes the oldest task.
LEMMA PoppedRing ==
    ASSUME NEW r, IsRing(r), r.held # 0
    PROVE  /\ IsRing(popped(r))
           /\ queued(r) \in Seq(Task) /\ queued(r) # <<>>
           /\ queued(popped(r)) = Tail(queued(r))
<1>. DEFINE p == popped(r)
<1>1. /\ r = [slots |-> r.slots, held |-> r.held]
      /\ r.slots \in Seq(Task) /\ Len(r.slots) \in 0 .. MAX_TASK_NUM
      /\ r.held \in 1 .. MAX_TASK_NUM - 1 /\ r.held <= Len(r.slots)
    BY RingParts, RingAssumption
<1>2. p = [slots |-> r.slots, held |-> r.held - 1]
    BY <1>1 DEF popped
<1>3. p.slots = r.slots /\ p.held = r.held - 1 BY <1>2
<1>4. IsRing(p)
    <2>1. r.slots \in UNION {[1 .. n -> Task] : n \in 0 .. MAX_TASK_NUM}
        BY <1>1, Slots
    <2>2. r.held - 1 \in 0 .. MAX_TASK_NUM - 1 BY <1>1, RingAssumption
    <2>3. p \in Rings BY <1>2, <2>1, <2>2 DEF Rings
    <2> HIDE DEF p
    <2> QED BY <1>1, <1>3, <2>3, RingAssumption DEF IsRing
<1>5. /\ queued(r) \in Seq(Task) /\ Len(queued(r)) = r.held
      /\ \A i \in 1 .. r.held : queued(r)[i] = r.slots[Len(r.slots) - r.held + i]
    BY QueuedSeq
<1>6. queued(r) # <<>> BY <1>1, <1>5, EmptySeq
<1>7. /\ queued(p) \in Seq(Task) /\ Len(queued(p)) = r.held - 1
      /\ \A i \in 1 .. r.held - 1 : queued(p)[i] = r.slots[Len(r.slots) - (r.held - 1) + i]
    <2> HIDE DEF p
    <2> QED BY <1>3, <1>4, QueuedSeq
<1>8. /\ Tail(queued(r)) \in Seq(Task) /\ Len(Tail(queued(r))) = r.held - 1
      /\ \A i \in 1 .. r.held - 1 : Tail(queued(r))[i] = queued(r)[i + 1]
    BY <1>5, <1>6, HeadTailProperties
<1>9. ASSUME NEW i \in 1 .. r.held - 1 PROVE queued(p)[i] = Tail(queued(r))[i]
    <2>1. i + 1 \in 1 .. r.held
          /\ Len(r.slots) - (r.held - 1) + i = Len(r.slots) - r.held + (i + 1)
        BY <1>1
    <2> QED BY <1>5, <1>7, <1>8, <2>1
<1> HIDE DEF p
<1>10. queued(p) = Tail(queued(r)) BY <1>7, <1>8, <1>9, SeqEqual
<1> QED BY <1>4, <1>5, <1>6, <1>10 DEF p

(***************************************************************************)
(* The inductive invariant: the two threads' handshake and the rings.      *)
(***************************************************************************)
LifeTypes ==
    /\ is_start \in BOOLEAN /\ is_terminate \in BOOLEAN
    /\ thread \in {"none", "joinable", "joined"}
    /\ conn \in {"none", "new", "open"}
    /\ mutex \in {"free", "owner", "worker"}
    /\ waiting \in BOOLEAN
    /\ owner \in {"idle", "initialize", "init", "lock", "test", "sleep", "wait", "join", "gone"}
    /\ start_ret \in {"none", "true", "false"}
    /\ worker \in {"unborn", "begin", "lock", "notify", "top", "pop", "sleep", "execute",
                   "reply", "done"}
    /\ starts \in 0 .. MaxStarts
    /\ fault \in {"none", "null thread", "double delete", "terminate", "freed handle"}

\* start() returns to its caller only when the worker it created has raised the flag.
Handshake ==
    /\ is_start <=> worker \notin {"unborn", "begin"}
    /\ thread = "none" <=> worker = "unborn"
    /\ owner \in {"idle", "initialize", "init", "join"} => worker # "begin"
    /\ owner \in {"lock", "test", "sleep", "wait"} => worker # "unborn"

\* Between the test of the flag and the wait the owner holds the mutex, so that the
\* worker, which was not up when the flag was tested, has not notified yet.
Locking ==
    /\ owner # "gone" => (mutex = "owner" <=> owner \in {"test", "sleep"})
    /\ mutex = "worker" <=> worker = "notify"
    /\ owner = "sleep" => worker \in {"begin", "lock"}

\* The worker is made by a start() whose initialize succeeded, and only another start() can
\* replace the connection: it is at initialize, or it has failed there.
Connected ==
    /\ owner \in {"init", "lock", "test", "sleep", "wait"} => conn = "open"
    /\ worker # "unborn" => \/ conn = "open" \/ owner \in {"initialize", "gone"}
                            \/ start_ret = "false"

LifeInv == LifeTypes /\ Handshake /\ Locking /\ NoLostWakeup /\ Connected

QueueTypes ==
    /\ IsRing(tasks) /\ IsRing(reply_tasks)
    /\ current \in Task \cup {NULL}
    /\ mine \subseteq Task /\ lost \subseteq Task
    /\ backlog \in 0 .. Cardinality(Task)

\* OnePlaceEach, with the places as sets.
Placed ==
    /\ IsInjective(queued(tasks)) /\ IsInjective(queued(reply_tasks))
    /\ ToSet(queued(tasks)) \cap ToSet(queued(reply_tasks)) = {}
    /\ current \notin ToSet(queued(tasks)) \cup ToSet(queued(reply_tasks))
    /\ ToSet(queued(tasks)) \cup ToSet(queued(reply_tasks)) \cup ({current} \ {NULL})
         = underway
    /\ lost \cap mine = {}

Counted == Cardinality(underway) <= backlog /\ LossNeedsBacklog

Executing == current # NULL <=> worker \in {"execute", "reply"}

QueueInv == QueueTypes /\ Placed /\ Counted /\ Executing

IInv == LifeInv /\ QueueInv

(***************************************************************************)
(* The handshake.                                                          *)
(***************************************************************************)
\* start(), init() and the wait for the flag.
LEMMA StartKeepsLife ==
    ASSUME LifeInv, Live, StartCall \/ OwnerReturns \/ InitWakes
    PROVE  LifeInv'
<1> USE ThreadAssumption DEF Live, LifeInv, LifeTypes, Handshake, Locking, NoLostWakeup,
                             Connected, lifeVars
<1>1. CASE StartCall BY <1>1 DEF StartCall
<1>2. CASE InitializeSucceeds BY <1>2 DEF InitializeSucceeds
<1>3. CASE InitializeFails BY <1>3 DEF InitializeFails
<1>4. CASE InitSkips BY <1>4 DEF InitSkips
<1>5. CASE InitSpawns BY <1>5 DEF InitSpawns
<1>6. CASE InitLocks BY <1>6 DEF InitLocks
<1>7. CASE InitTests BY <1>7 DEF InitTests
<1>8. CASE InitSleeps BY <1>8 DEF InitSleeps
<1>9. CASE InitWakes
    <2>1. LifeTypes' BY <1>9 DEF InitWakes
    <2>2. Handshake' /\ Connected' BY <1>9 DEF InitWakes
    <2>3. Locking' BY <1>9 DEF InitWakes
    <2>4. NoLostWakeup' BY <1>9 DEF InitWakes
    <2> QED BY <2>1, <2>2, <2>3, <2>4
<1>10. CASE StopJoins BY <1>10 DEF StopJoins
<1> QED BY <1>1, <1>2, <1>3, <1>4, <1>5, <1>6, <1>7, <1>8, <1>9, <1>10 DEF OwnerReturns

\* mainLoop().
LEMMA WorkerKeepsLife ==
    ASSUME LifeInv, Live, Worker
    PROVE  LifeInv'
<1> USE DEF Live, LifeInv, LifeTypes, Handshake, Locking, NoLostWakeup, Connected,
            lifeVars, ownerVars
<1>1. CASE WorkerBegins BY <1>1 DEF WorkerBegins
<1>2. CASE WorkerLocks BY <1>2 DEF WorkerLocks
<1>3. CASE WorkerNotifies BY <1>3 DEF WorkerNotifies
<1>4. CASE WorkerTop BY <1>4 DEF WorkerTop
<1>5. CASE WorkerPops BY <1>5 DEF WorkerPops
<1>6. CASE WorkerSlept BY <1>6 DEF WorkerSlept
<1>7. CASE WorkerExecutes BY <1>7 DEF WorkerExecutes
<1>8. CASE WorkerReplies BY <1>8 DEF WorkerReplies
<1> QED BY <1>1, <1>2, <1>3, <1>4, <1>5, <1>6, <1>7, <1>8 DEF Worker

\* The object, or the process, is gone.
LEMMA GoneKeepsLife ==
    ASSUME LifeInv, Live, owner' = "gone",
           fault' \in {"none", "terminate", "double delete", "freed handle"},
           UNCHANGED <<lifeVars, start_ret, starts, mutex, waiting, worker>>
    PROVE  LifeInv'
<1>0. /\ is_start' = is_start /\ worker' = worker /\ thread' = thread /\ conn' = conn
      /\ mutex' = mutex /\ starts' = starts /\ waiting' = waiting /\ start_ret' = start_ret
      /\ LifeTypes /\ Handshake /\ Locking /\ NoLostWakeup /\ Connected
    BY DEF LifeInv, lifeVars
<1>1. LifeTypes' BY <1>0 DEF LifeTypes, lifeVars
<1>2. Handshake' BY <1>0 DEF Handshake
<1>3. Locking' /\ NoLostWakeup' BY <1>0 DEF Locking, NoLostWakeup
<1>4. Connected' BY <1>0 DEF Connected
<1> QED BY <1>1, <1>2, <1>3, <1>4 DEF LifeInv

\* The calls between start() and stop(), stop() itself, and the ends of the process.
LEMMA CallsKeepLife ==
    ASSUME LifeInv, Live,
           (\E t \in Task : AddTask(t)) \/ GetReplyTask \/ StopCall \/ Destroy \/ HandleFaults
    PROVE  LifeInv'
<1> USE DEF Live, LifeInv, LifeTypes, Handshake, Locking, NoLostWakeup, Connected, lifeVars
<1>1. ASSUME NEW t \in Task, AddTask(t) PROVE LifeInv' BY <1>1 DEF AddTask
<1>2. CASE GetReplyTask BY <1>2 DEF GetReplyTask
<1>3. CASE StopCall BY <1>3 DEF StopCall
<1>4. CASE Destroy
    <2>1. fault' \in {"none", "terminate", "double delete"} BY <1>4 DEF Destroy
    <2> QED BY <1>4, <2>1, GoneKeepsLife DEF Destroy
<1>5. CASE HandleFaults BY <1>5, GoneKeepsLife DEF HandleFaults
<1> QED BY <1>1, <1>2, <1>3, <1>4, <1>5

(***************************************************************************)
(* The rings.                                                              *)
(***************************************************************************)
\* Steps that touch no task.
LEMMA OthersKeepQueues ==
    ASSUME QueueInv, Handshake,
           \/ StartCall \/ OwnerReturns \/ InitWakes \/ StopCall \/ Destroy \/ HandleFaults
           \/ WorkerBegins \/ WorkerLocks \/ WorkerNotifies \/ WorkerTop \/ WorkerSlept
           \/ WorkerExecutes
    PROVE  QueueInv'
<1>1. UNCHANGED <<tasks, reply_tasks, current, lost, mine, backlog>>
    BY DEF StartCall, OwnerReturns, InitializeSucceeds, InitializeFails, InitSkips,
           InitSpawns, InitLocks, InitTests, InitSleeps, InitWakes, StopCall, StopJoins,
           Destroy, HandleFaults, WorkerBegins, WorkerLocks, WorkerNotifies, WorkerTop,
           WorkerSlept, WorkerExecutes, queueVars, ownerVars
<1>2. worker \in {"execute", "reply"} <=> worker' \in {"execute", "reply"}
    BY DEF Handshake, StartCall, OwnerReturns, InitializeSucceeds, InitializeFails, InitSkips,
           InitSpawns, InitLocks, InitTests, InitSleeps, InitWakes, StopCall, StopJoins,
           Destroy, HandleFaults, WorkerBegins, WorkerLocks, WorkerNotifies, WorkerTop,
           WorkerSlept, WorkerExecutes
<1>3. QueueTypes' /\ Placed' /\ Counted'
    BY <1>1 DEF QueueInv, QueueTypes, IsRing, Placed, Counted, underway, LossNeedsBacklog, queued
<1>4. Executing' BY <1>1, <1>2 DEF QueueInv, Executing
<1> QED BY <1>3, <1>4 DEF QueueInv

\* addTask: a task of the owner's goes to the end of tasks_.
LEMMA AddTaskKeepsQueues ==
    ASSUME QueueInv, NEW t \in Task, AddTask(t)
    PROVE  QueueInv'
<1> USE DEF QueueInv
<1>1. UNCHANGED <<reply_tasks, current, lost, worker>> /\ t \in mine
    BY DEF AddTask, lifeVars
<1>2. Executing' BY <1>1 DEF Executing
<1>3. CASE isFull(tasks)
    <2>1. UNCHANGED <<tasks, mine, backlog>> BY <1>3 DEF AddTask
    <2> QED BY <1>1, <1>2, <2>1
        DEF QueueTypes, IsRing, Placed, Counted, underway, LossNeedsBacklog, queued
<1>4. CASE ~isFull(tasks)
    <2>1. /\ tasks' = pushed(tasks, t) /\ mine' = mine \ {t}
          /\ backlog' = IF Cardinality(underway) + 1 > backlog
                          THEN Cardinality(underway) + 1 ELSE backlog
        BY <1>4 DEF AddTask
    <2>2. t \notin underway /\ t \notin lost /\ underway' = underway \cup {t}
        BY <1>1, <2>1 DEF underway, Placed, QueueTypes
    <2>3. queued(tasks) \in Seq(Task) /\ IsRing(tasks)' /\ queued(tasks)' = Append(queued(tasks), t)
        <3>1. IsRing(tasks) BY DEF QueueTypes
        <3>2. /\ IsRing(pushed(tasks, t)) /\ queued(tasks) \in Seq(Task)
              /\ queued(pushed(tasks, t)) = Append(queued(tasks), t)
            BY <1>4, <3>1, PushedRing, QueuedSeq
        <3> QED BY <2>1, <3>2 DEF IsRing, Rings, queued
    <2>4. /\ ToSet(queued(tasks)') = ToSet(queued(tasks)) \cup {t}
          /\ t \notin ToSet(queued(tasks)) => IsInjective(queued(tasks)')
        BY <2>3, AppendHolds DEF Placed
    <2>5. t \notin ToSet(queued(tasks)) \cup ToSet(queued(reply_tasks)) \cup {current}
        BY <2>2, ThreadAssumption DEF Placed
    <2>6. queued(reply_tasks)' = queued(reply_tasks) BY <1>1 DEF queued
    <2>7. Placed'
        <3>1. lost' \cap mine' = {} BY <1>1, <2>1 DEF Placed
        <3> HIDE DEF QueueInv
        <3>2. Placed BY DEF QueueInv
        <3> QED BY <1>1, <2>2, <2>3, <2>4, <2>5, <2>6, <3>1, <3>2 DEF Placed
    <2>8. IsFiniteSet(Task) /\ underway \subseteq Task /\ underway' \subseteq Task
        BY ThreadAssumption DEF underway
    <2>9. /\ Cardinality(underway') = Cardinality(underway) + 1
          /\ Cardinality(underway) \in Nat /\ Cardinality(Task) \in Nat
          /\ Cardinality(underway') <= Cardinality(Task)
        BY <2>2, <2>8, FS_Subset, FS_AddElement, FS_CardinalityType
    <2>10. backlog' \in 0 .. Cardinality(Task) /\ backlog' >= backlog
           /\ Cardinality(underway') <= backlog'
        BY <2>1, <2>9 DEF QueueTypes, Counted
    <2>11. Counted'
        BY <1>1, <2>9, <2>10, RingAssumption DEF Counted, LossNeedsBacklog, QueueTypes
    <2>12. QueueTypes'
        <3>1. IsRing(reply_tasks)' BY <1>1 DEF QueueTypes, IsRing, Rings
        <3> QED BY <1>1, <2>1, <2>3, <2>10, <3>1 DEF QueueTypes
    <2> QED BY <1>2, <2>7, <2>11, <2>12
<1> QED BY <1>3, <1>4

\* pop: the oldest task of tasks_ becomes the current one.
LEMMA PopKeepsQueues ==
    ASSUME QueueInv, WorkerPops
    PROVE  QueueInv'
<1>1. /\ UNCHANGED <<reply_tasks, lost, mine, backlog>> /\ current = NULL
      /\ IsRing(tasks) /\ IsRing(reply_tasks)
    BY DEF WorkerPops, ownerVars, QueueInv, Executing, QueueTypes
<1>2. queued(reply_tasks)' = queued(reply_tasks) /\ underway' = underway
    BY <1>1 DEF queued, underway
<1>3. CASE tasks.held = 0
    <2>1. UNCHANGED <<tasks, current>> /\ worker' = "sleep" /\ worker = "pop"
        BY <1>3 DEF WorkerPops
    <2> QED BY <1>1, <2>1 DEF QueueInv, QueueTypes, IsRing, Placed, Counted, Executing,
                              underway, LossNeedsBacklog, queued
<1>4. CASE tasks.held # 0
    <2>1. /\ tasks' = popped(tasks) /\ current' = Head(queued(tasks)) /\ worker' = "execute"
        BY <1>4 DEF WorkerPops
    <2>2. /\ IsRing(tasks)' /\ queued(tasks)' = Tail(queued(tasks))
          /\ queued(tasks) \in Seq(Task) /\ queued(tasks) # <<>>
        BY <1>1, <1>4, <2>1, PoppedRing DEF IsRing, Rings, queued
    <2>3. /\ current' \in Task /\ current' # NULL
          /\ ToSet(queued(tasks)) = ToSet(queued(tasks)') \cup {current'}
          /\ current' \in ToSet(queued(tasks))
          /\ IsInjective(queued(tasks)') /\ current' \notin ToSet(queued(tasks)')
        BY <2>1, <2>2, TailHolds, ThreadAssumption DEF QueueInv, Placed
    <2>4. Placed' BY <1>1, <1>2, <2>3 DEF QueueInv, Placed
    <2>5. Executing' BY <2>1, <2>3 DEF Executing
    <2>6. Counted' BY <1>1, <1>2 DEF QueueInv, Counted, LossNeedsBacklog
    <2>7. QueueTypes'
        BY <1>1, <2>2, <2>3 DEF QueueInv, QueueTypes, IsRing, Rings
    <2> QED BY <2>4, <2>5, <2>6, <2>7 DEF QueueInv
<1> QED BY <1>3, <1>4

\* A full reply ring and the task that does not fit are all under way.
LEMMA FullRingCounts ==
    ASSUME QueueInv, current # NULL, isFull(reply_tasks)
    PROVE  Cardinality(underway) >= MAX_TASK_NUM
<1>. DEFINE s == Append(queued(reply_tasks), current)
<1>1. /\ queued(reply_tasks) \in Seq(Task) /\ Len(queued(reply_tasks)) = MAX_TASK_NUM - 1
      /\ current \in Task
    BY QueuedSeq DEF QueueInv, QueueTypes, isFull
<1>2. s \in Seq(Task) /\ Len(s) = MAX_TASK_NUM
    BY <1>1, AppendProperties, RingAssumption
<1>3. /\ ToSet(s) = ToSet(queued(reply_tasks)) \cup {current}
      /\ IsInjective(s)
    BY <1>1, AppendHolds DEF QueueInv, Placed
<1>4. ToSet(s) \subseteq underway
    BY <1>3 DEF QueueInv, Placed
<1> HIDE DEF s
<1>5. s \in Injection(1 .. MAX_TASK_NUM, underway)
    <2>1. DOMAIN s = 1 .. MAX_TASK_NUM /\ s \in [1 .. MAX_TASK_NUM -> Task]
        BY <1>2, LenProperties
    <2>2. \A k \in 1 .. MAX_TASK_NUM : s[k] \in underway BY <1>4, <2>1 DEF ToSet
    <2>3. s \in [1 .. MAX_TASK_NUM -> underway] BY <2>1, <2>2
    <2> QED BY <1>3, <2>3 DEF Injection
<1>6. IsFiniteSet(underway) BY ThreadAssumption, FS_Subset DEF underway
<1>7. Cardinality(1 .. MAX_TASK_NUM) <= Cardinality(underway) BY <1>5, <1>6, FS_Injection
<1>8. Cardinality(1 .. MAX_TASK_NUM) = MAX_TASK_NUM BY FS_Interval, RingAssumption
<1>9. Cardinality(underway) \in Nat BY <1>6, FS_CardinalityType
<1> QED BY <1>7, <1>8, <1>9, RingAssumption

\* push of mainLoop: the executed task goes to the end of reply_tasks_, or is lost.
LEMMA ReplyKeepsQueues ==
    ASSUME QueueInv, WorkerReplies
    PROVE  QueueInv'
<1>1. /\ UNCHANGED <<tasks, mine, backlog>> /\ current' = NULL /\ worker' = "top"
      /\ current \in Task /\ current # NULL
      /\ IsRing(tasks) /\ IsRing(reply_tasks)
      /\ mine \subseteq Task /\ lost \subseteq Task
    BY DEF WorkerReplies, ownerVars, QueueInv, Executing, QueueTypes
<1>2. queued(tasks)' = queued(tasks) BY <1>1 DEF queued
<1>3. Executing' BY <1>1 DEF Executing
<1>4. NULL \notin ToSet(queued(tasks)) \cup ToSet(queued(reply_tasks))
    BY ThreadAssumption DEF QueueInv, Placed, underway
<1>5. /\ IsFiniteSet(underway) /\ Cardinality(underway) \in Nat
      /\ Cardinality(underway \ {current}) <= Cardinality(underway)
      /\ Cardinality(underway \ {current}) \in Nat
    BY ThreadAssumption, FS_Subset, FS_CardinalityType DEF underway
<1>6. backlog \in Nat /\ backlog \in 0 .. Cardinality(Task) /\ Cardinality(underway) <= backlog
    BY ThreadAssumption, FS_CardinalityType DEF QueueInv, QueueTypes, Counted
<1>7. CASE isFull(reply_tasks)
    <2>1. lost' = lost \cup {current} /\ reply_tasks' = reply_tasks
        BY <1>7 DEF WorkerReplies
    <2>2. queued(reply_tasks)' = queued(reply_tasks) /\ underway' = underway \ {current}
        BY <1>1, <2>1 DEF queued, underway
    <2>3. current \in underway BY <1>1 DEF QueueInv, Placed
    <2>4. Placed'
        <3>1. lost' \cap mine' = {} BY <1>1, <2>1, <2>3 DEF QueueInv, Placed, underway
        <3> QED BY <1>1, <1>2, <1>4, <2>2, <3>1 DEF QueueInv, Placed
    <2>5. Counted'
        <3>1. backlog >= MAX_TASK_NUM BY <1>1, <1>5, <1>6, <1>7, FullRingCounts, RingAssumption
        <3> QED BY <1>1, <1>5, <1>6, <2>2, <3>1 DEF Counted, LossNeedsBacklog
    <2>6. QueueTypes' BY <1>1, <1>6, <2>1 DEF QueueInv, QueueTypes, IsRing, Rings
    <2> QED BY <1>3, <2>4, <2>5, <2>6 DEF QueueInv
<1>8. CASE ~isFull(reply_tasks)
    <2>1. lost' = lost /\ reply_tasks' = pushed(reply_tasks, current)
        BY <1>8 DEF WorkerReplies
    <2>2. /\ queued(reply_tasks) \in Seq(Task) /\ IsRing(reply_tasks)'
          /\ queued(reply_tasks)' = Append(queued(reply_tasks), current)
        BY <1>1, <1>8, <2>1, PushedRing, QueuedSeq DEF IsRing, Rings, queued
    <2>3. /\ ToSet(queued(reply_tasks)') = ToSet(queued(reply_tasks)) \cup {current}
          /\ IsInjective(queued(reply_tasks)')
        BY <1>1, <2>2, AppendHolds DEF QueueInv, Placed
    <2>4. underway' = underway BY <1>1, <2>1 DEF underway
    <2>5. Placed' BY <1>1, <1>2, <1>4, <2>1, <2>3, <2>4 DEF QueueInv, Placed
    <2>6. Counted' BY <1>1, <2>1, <2>4 DEF QueueInv, Counted, LossNeedsBacklog
    <2>7. QueueTypes' BY <1>1, <2>1, <2>2 DEF QueueInv, QueueTypes, IsRing, Rings
    <2> QED BY <1>3, <2>5, <2>6, <2>7 DEF QueueInv
<1> QED BY <1>7, <1>8

\* getReplyTask: the oldest executed task is the owner's again.
LEMMA GetReplyKeepsQueues ==
    ASSUME QueueInv, GetReplyTask
    PROVE  QueueInv'
<1>. DEFINE t == Head(queued(reply_tasks))
<1>1. /\ UNCHANGED <<tasks, current, lost, backlog, worker>>
      /\ reply_tasks' = popped(reply_tasks) /\ mine' = mine \cup {t}
      /\ IsRing(tasks) /\ IsRing(reply_tasks) /\ reply_tasks.held # 0
      /\ mine \subseteq Task /\ lost \subseteq Task
    BY DEF GetReplyTask, lifeVars, QueueInv, QueueTypes
<1>2. queued(tasks)' = queued(tasks) BY <1>1 DEF queued
<1>3. /\ IsRing(reply_tasks)' /\ queued(reply_tasks)' = Tail(queued(reply_tasks))
      /\ queued(reply_tasks) \in Seq(Task) /\ queued(reply_tasks) # <<>>
    BY <1>1, PoppedRing DEF IsRing, Rings, queued
<1>4. /\ t \in Task /\ t \in ToSet(queued(reply_tasks))
      /\ ToSet(queued(reply_tasks)) = ToSet(queued(reply_tasks)') \cup {t}
      /\ IsInjective(queued(reply_tasks)') /\ t \notin ToSet(queued(reply_tasks)')
    BY <1>3, TailHolds DEF QueueInv, Placed
<1> HIDE DEF t
<1>5. t \in underway /\ t # current /\ t \notin ToSet(queued(tasks)) /\ underway' = underway \ {t}
    BY <1>1, <1>4 DEF QueueInv, Placed, underway
<1>6. Placed'
    <2>1. lost' \cap mine' = {} BY <1>1, <1>5 DEF QueueInv, Placed, underway
    <2> QED BY <1>1, <1>2, <1>4, <1>5, <2>1 DEF QueueInv, Placed
<1>7. Counted'
    <2>1. /\ Cardinality(underway \ {t}) <= Cardinality(underway)
          /\ Cardinality(underway \ {t}) \in Nat /\ Cardinality(underway) \in Nat
          /\ backlog \in Nat
        BY ThreadAssumption, FS_Subset, FS_CardinalityType DEF underway, QueueInv, QueueTypes
    <2> QED BY <1>1, <1>5, <2>1 DEF QueueInv, Counted, LossNeedsBacklog
<1>8. QueueTypes' BY <1>1, <1>3, <1>4 DEF QueueInv, QueueTypes, IsRing, Rings
<1>9. Executing' BY <1>1 DEF QueueInv, Executing
<1> QED BY <1>6, <1>7, <1>8, <1>9 DEF QueueInv

(***************************************************************************)
(* The theorems.                                                           *)
(***************************************************************************)
\* The invariant holds in every reachable state.
LEMMA Inductive == Spec => []IInv
<1>1. ASSUME Init PROVE IInv
    <2> USE <1>1, ThreadAssumption, RingAssumption DEF Init
    <2>1. LifeInv
        <3>1. LifeTypes
            <4>1. is_start \in BOOLEAN /\ is_terminate \in BOOLEAN /\ waiting \in BOOLEAN
                BY Zenon
            <4>2. starts \in 0 .. MaxStarts OBVIOUS
            <4> QED BY <4>1, <4>2, Zenon DEF LifeTypes
        <3>2. Handshake BY DEF Handshake
        <3>3. Locking BY DEF Locking
        <3>4. NoLostWakeup /\ Connected BY DEF NoLostWakeup, Connected
        <3> QED BY <3>1, <3>2, <3>3, <3>4 DEF LifeInv
    <2>2. IsRing(EmptyRing) /\ queued(EmptyRing) = <<>>
        <3>1. <<>> \in Seq(Task) /\ Len(<<>>) = 0 BY EmptySeq
        <3>2. EmptyRing.slots = <<>> /\ EmptyRing.held = 0 BY DEF EmptyRing
        <3>3. <<>> \in UNION {[1 .. n -> Task] : n \in 0 .. MAX_TASK_NUM} BY <3>1, Slots
        <3>4. EmptyRing \in Rings BY <3>3 DEF EmptyRing, Rings
        <3>5. SubSeq(EmptyRing.slots, 1, 0) = <<>> BY SubSeqEmpty
        <3> QED BY <3>1, <3>2, <3>4, <3>5 DEF IsRing, queued
    <2>3. underway = {} BY DEF underway
    <2>4. QueueTypes
        <3>1. 0 \in 0 .. Cardinality(Task) BY FS_CardinalityType
        <3> QED BY <2>2, <3>1 DEF QueueTypes
    <2>5. Placed BY <2>2, <2>3 DEF Placed, ToSet, IsInjective
    <2>6. Counted BY <2>3, FS_EmptySet DEF Counted, LossNeedsBacklog
    <2>7. Executing BY DEF Executing
    <2> QED BY <2>1, <2>4, <2>5, <2>6, <2>7 DEF IInv, QueueInv
<1>2. IInv /\ [Next]_vars => IInv'
    <2> SUFFICES ASSUME IInv, [Next]_vars PROVE IInv' OBVIOUS
    <2> USE DEF IInv
    <2>1. CASE UNCHANGED vars
        <3> USE <2>1 DEF vars, lifeVars, queueVars, ownerVars
        <3>1. LifeInv'
            <4>0. /\ is_start' = is_start /\ is_terminate' = is_terminate /\ thread' = thread
                  /\ conn' = conn /\ mutex' = mutex /\ waiting' = waiting /\ owner' = owner
                  /\ start_ret' = start_ret /\ worker' = worker /\ starts' = starts
                  /\ fault' = fault
                OBVIOUS
            <4>1. LifeTypes' BY <4>0, Zenon DEF LifeInv, LifeTypes
            <4>2. Handshake' /\ Locking' BY DEF LifeInv, Handshake, Locking
            <4>3. NoLostWakeup' /\ Connected' BY DEF LifeInv, NoLostWakeup, Connected
            <4> QED BY <4>1, <4>2, <4>3 DEF LifeInv
        <3>2. QueueTypes' /\ Executing'
            BY DEF QueueInv, QueueTypes, IsRing, Rings, Executing
        <3>3. Placed' /\ Counted'
            BY DEF QueueInv, Placed, Counted, underway, LossNeedsBacklog, queued
        <3> QED BY <3>1, <3>2, <3>3 DEF QueueInv
    <2>2. CASE Next
        <3>1. LifeInv' BY <2>2, StartKeepsLife, WorkerKeepsLife, CallsKeepLife DEF Next
        <3>2. QueueInv'
            BY <2>2, OthersKeepQueues, AddTaskKeepsQueues, PopKeepsQueues, ReplyKeepsQueues,
               GetReplyKeepsQueues DEF Next, Worker, LifeInv
        <3> QED BY <3>1, <3>2
    <2> QED BY <2>1, <2>2
<1> QED BY <1>1, <1>2, PTL DEF Spec

\* The members of CMysqlThread, its rings and the threads' places keep their types.
THEOREM TypeCorrect == Spec => []TypeOK
<1>1. IInv => TypeOK
    BY DEF IInv, LifeInv, LifeTypes, QueueInv, QueueTypes, IsRing, TypeOK
<1> QED BY <1>1, Inductive, PTL

\* start()'s wait on cond_ is never forgotten, though is_start_ is set and tested
\* without the mutex it should be set under.
THEOREM WakeupCorrect == Spec => []NoLostWakeup
<1>1. IInv => NoLostWakeup BY DEF IInv, LifeInv
<1> QED BY <1>1, Inductive, PTL

\* A task is the owner's, or in one slot of one ring, or being executed, or lost; so
\* that no task is executed twice or answered twice.
THEOREM PlacesCorrect == Spec => []OnePlaceEach
<1>1. ASSUME QueueInv PROVE OnePlaceEach
    <2>. DEFINE a == queued(tasks)
                b == queued(reply_tasks)
    <2>1. /\ a \in Seq(Task) /\ b \in Seq(Task)
          /\ IsInjective(a) /\ IsInjective(b) /\ ToSet(a) \cap ToSet(b) = {}
          /\ current \notin ToSet(a) \cup ToSet(b)
          /\ ToSet(a) \cup ToSet(b) \cup ({current} \ {NULL}) = underway
        BY <1>1, QueuedSeq DEF QueueInv, QueueTypes, Placed
    <2> HIDE DEF a, b
    <2>2. /\ a \o b \in Seq(Task) /\ Len(a) \in Nat /\ Len(b) \in Nat
          /\ DOMAIN a = 1 .. Len(a) /\ DOMAIN b = 1 .. Len(b)
          /\ DOMAIN (a \o b) = 1 .. Len(a) + Len(b)
          /\ \A i \in 1 .. Len(a) : (a \o b)[i] = a[i]
          /\ \A i \in Len(a) + 1 .. Len(a) + Len(b) : (a \o b)[i] = b[i - Len(a)]
        BY <2>1, ConcatProperties, LenProperties
    <2>3. \A i \in DOMAIN (a \o b) :
            \/ i \in DOMAIN a /\ (a \o b)[i] = a[i]
            \/ i - Len(a) \in DOMAIN b /\ i \in Nat /\ (a \o b)[i] = b[i - Len(a)]
        BY <2>2
    <2>4. \A i \in DOMAIN a, j \in DOMAIN b : a[i] # b[j] BY <2>1 DEF ToSet
    <2>5. \A i, j \in DOMAIN (a \o b) : (a \o b)[i] = (a \o b)[j] => i = j
        BY <2>1, <2>2, <2>3, <2>4 DEF IsInjective
    <2>6. ToSet(a \o b) = ToSet(a) \cup ToSet(b)
        <3>1. \A j \in DOMAIN b : j + Len(a) \in Len(a) + 1 .. Len(a) + Len(b)
                                  /\ (j + Len(a)) - Len(a) = j
            BY <2>2
        <3>2. ASSUME NEW j \in DOMAIN b PROVE b[j] \in ToSet(a \o b)
            <4>1. /\ j + Len(a) \in DOMAIN (a \o b)
                  /\ (a \o b)[j + Len(a)] = b[(j + Len(a)) - Len(a)]
                BY <2>2, <3>1, <3>2
            <4> QED BY <3>1, <4>1 DEF ToSet
        <3>3. \A i \in DOMAIN a : a[i] \in ToSet(a \o b) BY <2>2 DEF ToSet
        <3> QED BY <2>3, <3>2, <3>3 DEF ToSet
    <2> QED BY <2>1, <2>5, <2>6 DEF OnePlaceEach, a, b
<1>2. IInv => OnePlaceEach BY <1>1 DEF IInv
<1> QED BY <1>2, Inductive, PTL

\* push of mainLoop drops an executed task only after the owner has had as many tasks
\* under way as the ring has slots.
THEOREM LossCorrect == Spec => []LossNeedsBacklog
<1>1. IInv => LossNeedsBacklog BY DEF IInv, QueueInv, Counted
<1> QED BY <1>1, Inductive, PTL

\* The worker's conn_ is open whenever it calls execute, however many calls of start() there
\* were, unless the last of them is connecting or has failed.
THEOREM ConnectionCorrect == Spec => []ExecutesConnected
<1>1. IInv => ExecutesConnected
    BY DEF IInv, LifeInv, Connected, ExecutesConnected
<1> QED BY <1>1, Inductive, PTL
=============================================================================
