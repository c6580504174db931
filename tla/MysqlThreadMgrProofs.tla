------------------------ MODULE MysqlThreadMgrProofs ------------------------
(***************************************************************************)
(* Proofs about CMysqlThreadMgr with its workers, for any number of        *)
(* threads, any size of their rings and any set of tasks and hash ids: no  *)
(* worker reorders its tasks, no task is in two places, and what the       *)
(* result of processReplyTask says of the tasks it fetched.                *)
(***************************************************************************)
EXTENDS MysqlThreadMgr, SequenceLemmas

\* Who points to the tasks: the owner, a worker's part of the system, or nobody.
Owned ==
    /\ mine \subseteq Task /\ lost \subseteq Task
    /\ order \in [Worker -> Seq(Task)]
    /\ \A w \in Worker : IsInjective(order[w]) /\ ToSet(order[w]) \cap mine = {}
    /\ \A v, w \in Worker : v # w => ToSet(order[v]) \cap ToSet(order[w]) = {}
    /\ \A t \in Task \ (mine \cup lost) : \E w \in Worker : t \in ToSet(order[w])

\* Where they are inside a worker's part.
InOrder == \A w \in Worker : pipeline(w) = order[w]

WorkerTypes ==
    /\ started \subseteq Worker
    /\ tasks \in [Worker -> Queues]
    /\ current \in [Worker -> Task \cup {NULL}]
    /\ reply_tasks \in [Worker -> Queues]

\* processReplyTask's locals; a task is in its hands only inside the while loop.
Locals ==
    /\ pc \in {"idle", "init", "fetch", "loop", "dead"}
    /\ i \in 0 .. thread_count + 1
    /\ pc \in {"init", "fetch", "loop"} => i \in Worker
    /\ task \in Task \cup {NULL}
    /\ pc # "loop" => task = NULL
    /\ process_nbr \in Nat
    /\ count \in Counts \cup {0}

IInv == WorkerTypes /\ Locals /\ Owned /\ InOrder

\* What processReplyTask knows when it leaves a task behind, if its argument is a number
\* of tasks or -1.
Answers ==
    /\ pc = "loop" /\ count \in Nat => process_nbr <= count
    /\ pc \in {"fetch", "loop"} => (dropped => is_result /\ count >= 0)
    /\ pc \in {"idle", "init"} => (dropped => returned /\ count >= 0)

(***************************************************************************)
(* Concatenations: what moves from one part of a pipeline to the next.     *)
(***************************************************************************)
\* An element appended to the last part is appended to the whole.
LEMMA ConcatAppend ==
    ASSUME NEW S, NEW x \in Seq(S), NEW y \in Seq(S), NEW e \in S
    PROVE  x \o Append(y, e) = Append(x \o y, e)
<1>1. <<e>> \in Seq(S) /\ x \o y \in Seq(S) BY ConcatProperties
<1>2. Append(y, e) = y \o <<e>> /\ Append(x \o y, e) = (x \o y) \o <<e>>
    BY <1>1, AppendIsConcat
<1> QED BY <1>1, <1>2, ConcatAssociative

\* A sequence is its head and its tail.
LEMMA HeadAndTail ==
    ASSUME NEW S, NEW s \in Seq(S), s # <<>>
    PROVE  /\ Head(s) \in S /\ Tail(s) \in Seq(S) /\ <<Head(s)>> \in Seq(S)
           /\ <<Head(s)>> \o Tail(s) = s
<1>. DEFINE h == <<Head(s)>>
            r == Tail(s)
            u == h \o r
<1>1. /\ Head(s) \in S /\ r \in Seq(S) /\ Len(r) = Len(s) - 1
      /\ \A k \in 1 .. Len(r) : r[k] = s[k + 1]
      /\ Len(s) \in Nat /\ Head(s) = s[1]
    BY HeadTailProperties, LenProperties
<1>2. h \in Seq(S) /\ Len(h) = 1 /\ h[1] = s[1] BY <1>1
<1> HIDE DEF h, r
<1>3. /\ u \in Seq(S) /\ Len(u) = Len(h) + Len(r)
      /\ \A k \in 1 .. Len(h) + Len(r) : u[k] = IF k <= Len(h) THEN h[k] ELSE r[k - Len(h)]
    <2>1. h \in Seq(S) /\ r \in Seq(S) BY <1>1, <1>2
    <2> QED BY <2>1, ConcatProperties
<1> HIDE DEF u
<1>4. Len(u) = Len(s) BY <1>1, <1>2, <1>3
<1>5. ASSUME NEW k \in 1 .. Len(s) PROVE u[k] = s[k]
    <2>1. CASE k <= 1 BY <1>1, <1>2, <1>3, <2>1
    <2>2. CASE ~(k <= 1)
        <3>1. k - 1 \in 1 .. Len(r) /\ (k - 1) + 1 = k BY <1>1, <2>2
        <3> QED BY <1>1, <1>2, <1>3, <2>2, <3>1
    <2> QED BY <2>1, <2>2
<1>6. u = s BY <1>3, <1>4, <1>5, SeqEqual
<1> QED BY <1>1, <1>2, <1>6 DEF h, r, u

\* The same between two parts.
LEMMA HeadMoves ==
    ASSUME NEW S, NEW x \in Seq(S), NEW s \in Seq(S), s # <<>>
    PROVE  (x \o <<Head(s)>>) \o Tail(s) = x \o s
BY HeadAndTail, ConcatAssociative

\* What is in the middle of a sequence is in it.
LEMMA MiddleIsIn ==
    ASSUME NEW S, NEW a \in Seq(S), NEW b \in Seq(S), NEW e \in S
    PROVE  e \in ToSet((a \o <<e>>) \o b)
<1>. DEFINE c == a \o <<e>>
<1>1. c = Append(a, e) BY AppendIsConcat
<1>2. c \in Seq(S) /\ Len(c) = Len(a) + 1 /\ c[Len(a) + 1] = e
    <2> HIDE DEF c
    <2> QED BY <1>1, AppendProperties
<1> HIDE DEF c
<1>3. Len(a) \in Nat /\ Len(b) \in Nat BY LenProperties
<1>4. /\ c \o b \in Seq(S) /\ Len(c \o b) = Len(c) + Len(b)
      /\ \A k \in 1 .. Len(c) + Len(b) : (c \o b)[k] = IF k <= Len(c) THEN c[k] ELSE b[k - Len(c)]
    BY <1>2, ConcatProperties
<1>. DEFINE s == c \o b
<1>6. Len(c) \in 1 .. Len(c) + Len(b) BY <1>2, <1>3
<1>7. s[Len(c)] = e BY <1>2, <1>4, <1>6
<1>8. Len(c) \in DOMAIN s
    <2>1. DOMAIN s = 1 .. Len(s) BY <1>4, LenProperties
    <2> QED BY <1>4, <1>6, <2>1
<1> HIDE DEF s
<1>9. e \in ToSet(s) BY <1>7, <1>8 DEF ToSet
<1> QED BY <1>9 DEF s, c

(***************************************************************************)
(* The shapes of the queues and of a pipeline.                             *)
(***************************************************************************)
\* A ring's queue is a sequence that is not too long.
LEMMA QueuesAre ==
    ASSUME NEW q
    PROVE  q \in Queues <=> q \in Seq(Task) /\ Len(q) <= Capacity
<1>1. Capacity \in Nat BY MgrAssumption DEF Capacity
<1>2. ASSUME q \in Queues PROVE q \in Seq(Task) /\ Len(q) <= Capacity
    <2>1. PICK n \in 0 .. Capacity : q \in [1 .. n -> Task] BY <1>2 DEF Queues
    <2>2. q \in Seq(Task) /\ Len(q) = n BY <1>1, <2>1
    <2> QED BY <1>1, <2>2
<1>3. ASSUME q \in Seq(Task), Len(q) <= Capacity PROVE q \in Queues
    <2>1. Len(q) \in 0 .. Capacity /\ q \in [1 .. Len(q) -> Task] BY <1>1, <1>3, LenProperties
    <2> QED BY <2>1 DEF Queues
<1> QED BY <1>2, <1>3

\* The task in processReplyTask's hands, if it is one of worker w.
fetched(w) == IF pc = "loop" /\ w = i THEN unless(task) ELSE <<>>

\* A pipeline's parts.
LEMMA Parts ==
    ASSUME WorkerTypes, Locals, NEW w \in Worker
    PROVE  /\ fetched(w) \in Seq(Task) /\ unless(current[w]) \in Seq(Task)
           /\ reply_tasks[w] \in Seq(Task) /\ tasks[w] \in Seq(Task)
           /\ pipeline(w) = ((fetched(w) \o reply_tasks[w]) \o unless(current[w])) \o tasks[w]
           /\ fetched(w) \o reply_tasks[w] \in Seq(Task)
           /\ (fetched(w) \o reply_tasks[w]) \o unless(current[w]) \in Seq(Task)
<1>1. \A t \in Task \cup {NULL} : unless(t) \in Seq(Task) BY DEF unless
<1>2. unless(current[w]) \in Seq(Task) /\ unless(task) \in Seq(Task)
    BY <1>1 DEF WorkerTypes, Locals
<1>3. fetched(w) \in Seq(Task) BY <1>2 DEF fetched
<1>4. reply_tasks[w] \in Seq(Task) /\ tasks[w] \in Seq(Task)
    BY QueuesAre DEF WorkerTypes
<1>5. pipeline(w) = ((fetched(w) \o reply_tasks[w]) \o unless(current[w])) \o tasks[w]
    BY DEF pipeline, fetched
<1> QED BY <1>2, <1>3, <1>4, <1>5, ConcatProperties

(***************************************************************************)
(* Who points to a task.                                                   *)
(***************************************************************************)
\* addTask hands over a task of the owner's.
LEMMA GivenKeepsOwned ==
    ASSUME Owned, NEW w \in Worker, NEW t \in mine,
           order' = [order EXCEPT ![w] = Append(@, t)], mine' = mine \ {t}, lost' = lost
    PROVE  Owned'
<1>1. t \in Task /\ order[w] \in Seq(Task) BY DEF Owned
<1>2. t \notin ToSet(order[w]) BY DEF Owned
<1>3. /\ order'[w] = Append(order[w], t) /\ \A v \in Worker : v # w => order'[v] = order[v]
      /\ order' \in [Worker -> Seq(Task)]
    BY <1>1, AppendProperties DEF Owned
<1>4. ToSet(order'[w]) = ToSet(order[w]) \cup {t} /\ IsInjective(order'[w])
    BY <1>1, <1>2, <1>3, AppendHolds DEF Owned
<1>5. \A v \in Worker : IsInjective(order'[v]) /\ ToSet(order'[v]) \cap mine' = {}
    BY <1>3, <1>4 DEF Owned
<1>6. \A u, v \in Worker : u # v => ToSet(order'[u]) \cap ToSet(order'[v]) = {}
    BY <1>3, <1>4 DEF Owned
<1>7. \A s \in Task \ (mine' \cup lost') : \E v \in Worker : s \in ToSet(order'[v])
    BY <1>3, <1>4 DEF Owned
<1> QED BY <1>3, <1>5, <1>6, <1>7 DEF Owned

\* A task that was answered or lost leaves its worker's part.
LEMMA WithoutKeepsOwned ==
    ASSUME Owned, NEW w \in Worker, NEW t \in Task, t \in ToSet(order[w]),
           order' = [order EXCEPT ![w] = without(@, t)],
           mine' \subseteq mine \cup {t}, mine \subseteq mine', lost' \subseteq Task,
           lost \subseteq lost', t \in mine' \cup lost'
    PROVE  Owned'
<1>1. order[w] \in Seq(Task) /\ IsInjective(order[w]) BY DEF Owned
<1>2. /\ without(order[w], t) \in Seq(Task) /\ IsInjective(without(order[w], t))
      /\ ToSet(without(order[w], t)) = ToSet(order[w]) \ {t}
    BY <1>1, WithoutHolds
<1>3. /\ order'[w] = without(order[w], t) /\ \A v \in Worker : v # w => order'[v] = order[v]
      /\ order' \in [Worker -> Seq(Task)]
    BY <1>2 DEF Owned
<1>4. \A v \in Worker : IsInjective(order'[v]) /\ ToSet(order'[v]) \cap mine' = {}
    BY <1>2, <1>3 DEF Owned
<1>5. \A u, v \in Worker : u # v => ToSet(order'[u]) \cap ToSet(order'[v]) = {}
    BY <1>2, <1>3 DEF Owned
<1>6. \A s \in Task \ (mine' \cup lost') : \E v \in Worker : s \in ToSet(order'[v])
    BY <1>2, <1>3 DEF Owned
<1>7. mine' \subseteq Task BY DEF Owned
<1> QED BY <1>3, <1>4, <1>5, <1>6, <1>7 DEF Owned
(***************************************************************************)
(* The steps that move tasks.                                              *)
(***************************************************************************)
\* Before and after a step a pipeline is its four parts; a worker whose parts and whose
\* order a step leaves alone stays in order.
LEMMA OthersInOrder ==
    ASSUME InOrder, NEW w \in Worker,
           \A v \in Worker : v # w =>
              /\ order'[v] = order[v] /\ tasks'[v] = tasks[v] /\ current'[v] = current[v]
              /\ reply_tasks'[v] = reply_tasks[v] /\ fetched(v)' = fetched(v),
           ((fetched(w)' \o reply_tasks'[w]) \o unless(current'[w])) \o tasks'[w] = order'[w]
    PROVE  InOrder'
<1>1. pipeline(w)' = order'[w] BY DEF pipeline, fetched
<1>2. ASSUME NEW v \in Worker, v # w PROVE pipeline(v)' = order'[v]
    <2>1. pipeline(v) = ((fetched(v) \o reply_tasks[v]) \o unless(current[v])) \o tasks[v]
        BY DEF pipeline, fetched
    <2>2. pipeline(v)' = ((fetched(v)' \o reply_tasks'[v]) \o unless(current'[v])) \o tasks'[v]
        BY DEF pipeline, fetched
    <2>3. unless(current'[v]) = unless(current[v]) BY <1>2 DEF unless
    <2> QED BY <1>2, <2>1, <2>2, <2>3 DEF InOrder
<1> QED BY <1>1, <1>2 DEF InOrder

\* addTask, by hash or not.
LEMMA AddToStep ==
    ASSUME IInv, pc = "idle", NEW w \in Worker, NEW t \in mine, addTo(w, t)
    PROVE  IInv'
<1>. USE DEF IInv
<1>0. UNCHANGED <<started, current, reply_tasks, pc, i, task, process_nbr, count, lost>>
    BY DEF addTo, localVars
<1>1. CASE Len(tasks[w]) = Capacity
    <2>1. UNCHANGED <<tasks, mine, order>> BY <1>1 DEF addTo
    <2> QED BY <1>0, <2>1 DEF WorkerTypes, Locals, Owned, InOrder, pipeline, unless
<1>2. CASE Len(tasks[w]) # Capacity
    <2>1. /\ tasks' = [tasks EXCEPT ![w] = Append(@, t)]
          /\ order' = [order EXCEPT ![w] = Append(@, t)]
          /\ mine' = mine \ {t}
        BY <1>2 DEF addTo
    <2>2. t \in Task /\ Capacity \in Nat BY MgrAssumption DEF Owned, Capacity
    <2>3. tasks[w] \in Seq(Task) /\ Len(tasks[w]) <= Capacity BY QueuesAre DEF WorkerTypes
    <2>4. Append(tasks[w], t) \in Queues
        <3>1. Append(tasks[w], t) \in Seq(Task) /\ Len(Append(tasks[w], t)) = Len(tasks[w]) + 1
            BY <2>2, <2>3, AppendProperties
        <3>2. Len(tasks[w]) + 1 <= Capacity BY <1>2, <2>2, <2>3, LenProperties
        <3> QED BY <3>1, <3>2, QueuesAre
    <2>5. WorkerTypes' BY <1>0, <2>1, <2>4 DEF WorkerTypes
    <2>6. Locals' BY <1>0 DEF Locals
    <2>7. Owned' BY <1>0, <2>1, GivenKeepsOwned
    <2>8. InOrder'
        <3>1. /\ tasks'[w] = Append(tasks[w], t) /\ order'[w] = Append(order[w], t)
              /\ \A v \in Worker : v # w => order'[v] = order[v] /\ tasks'[v] = tasks[v]
            BY <2>1 DEF WorkerTypes, Owned
        <3>2. \A v \in Worker : fetched(v)' = fetched(v) BY <1>0 DEF fetched, unless
        <3>. DEFINE x == (fetched(w) \o reply_tasks[w]) \o unless(current[w])
        <3>3. x \in Seq(Task) /\ order[w] = x \o tasks[w] BY Parts DEF InOrder
        <3>4. ((fetched(w)' \o reply_tasks'[w]) \o unless(current'[w])) = x
            BY <1>0, <3>2 DEF unless
        <3> HIDE DEF x
        <3>5. x \o tasks'[w] = order'[w] BY <2>2, <2>3, <3>1, <3>3, ConcatAppend
        <3> QED BY <1>0, <3>1, <3>2, <3>4, <3>5, OthersInOrder
    <2> QED BY <2>5, <2>6, <2>7, <2>8
<1> QED BY <1>1, <1>2

\* A worker takes the first task of its ring.
LEMMA WorkerTakesStep ==
    ASSUME IInv, NEW w \in Worker, WorkerTakes(w)
    PROVE  IInv'
<1>. USE DEF IInv
<1>0. /\ UNCHANGED <<started, reply_tasks, pc, i, task, process_nbr, count, mine, lost, order>>
      /\ current[w] = NULL /\ tasks[w] # <<>>
      /\ current' = [current EXCEPT ![w] = Head(tasks[w])]
      /\ tasks' = [tasks EXCEPT ![w] = Tail(@)]
    BY DEF WorkerTakes, localVars
<1>1. tasks[w] \in Seq(Task) /\ Len(tasks[w]) <= Capacity BY QueuesAre DEF WorkerTypes
<1>2. Head(tasks[w]) \in Task /\ Tail(tasks[w]) \in Seq(Task) /\ Len(Tail(tasks[w])) <= Capacity
    BY <1>0, <1>1, HeadTailProperties, LenProperties, MgrAssumption DEF Capacity
<1>3. WorkerTypes' BY <1>0, <1>2, QueuesAre DEF WorkerTypes
<1>4. Locals' /\ Owned' BY <1>0 DEF Locals, Owned
<1>5. InOrder'
    <2>1. /\ tasks'[w] = Tail(tasks[w]) /\ current'[w] = Head(tasks[w])
          /\ \A v \in Worker : v # w => current'[v] = current[v] /\ tasks'[v] = tasks[v]
        BY <1>0 DEF WorkerTypes
    <2>2. \A v \in Worker : fetched(v)' = fetched(v) BY <1>0 DEF fetched, unless
    <2>. DEFINE y == fetched(w) \o reply_tasks[w]
    <2>3. y \in Seq(Task) /\ order[w] = (y \o unless(current[w])) \o tasks[w]
        BY Parts DEF InOrder
    <2>4. fetched(w)' \o reply_tasks'[w] = y BY <1>0, <2>2
    <2> HIDE DEF y
    <2>5. unless(current[w]) = <<>> /\ unless(current'[w]) = <<Head(tasks[w])>>
        BY <1>0, <1>2, <2>1, MgrAssumption DEF unless
    <2>6. order[w] = y \o tasks[w] BY <2>3, <2>5, ConcatEmptySeq
    <2>7. (y \o unless(current'[w])) \o tasks'[w] = order'[w]
        <3>1. (y \o <<Head(tasks[w])>>) \o Tail(tasks[w]) = y \o tasks[w]
            BY <1>0, <1>1, <2>3, HeadMoves
        <3> QED BY <1>0, <2>1, <2>5, <2>6, <3>1, Zenon
    <2> QED BY <1>0, <2>1, <2>2, <2>4, <2>7, OthersInOrder
<1> QED BY <1>3, <1>4, <1>5
\* A worker replies, or its reply ring is full and the task is lost.
LEMMA WorkerRepliesStep ==
    ASSUME IInv, NEW w \in Worker, WorkerReplies(w)
    PROVE  IInv'
<1>. USE DEF IInv
<1>0. /\ UNCHANGED <<started, tasks, pc, i, task, process_nbr, count, mine>>
      /\ current[w] # NULL /\ current' = [current EXCEPT ![w] = NULL]
    BY DEF WorkerReplies, localVars
<1>. DEFINE c == current[w]
            f == fetched(w)
            x == f \o reply_tasks[w]
<1>1. c \in Task BY <1>0 DEF WorkerTypes
<1>2. current'[w] = NULL /\ \A v \in Worker : v # w => current'[v] = current[v]
    BY <1>0 DEF WorkerTypes
<1>3. \A v \in Worker : fetched(v)' = fetched(v) BY <1>0 DEF fetched, unless
<1>4. /\ f \in Seq(Task) /\ reply_tasks[w] \in Seq(Task) /\ x \in Seq(Task)
      /\ tasks[w] \in Seq(Task) /\ order[w] = (x \o unless(c)) \o tasks[w]
    BY Parts DEF InOrder
<1>5. unless(c) = <<c>> /\ unless(current'[w]) = <<>>
    BY <1>0, <1>2 DEF unless
<1>6. order[w] = (x \o <<c>>) \o tasks[w] BY <1>4, <1>5
<1>7. IsInjective(order[w]) BY DEF Owned
<1>8. Locals' BY <1>0 DEF Locals
<1>9. CASE Len(reply_tasks[w]) = Capacity
    <2>1. /\ lost' = lost \cup {c} /\ reply_tasks' = reply_tasks
          /\ order' = [order EXCEPT ![w] = without(@, c)]
        BY <1>9 DEF WorkerReplies
    <2> HIDE DEF c, x, f
    <2>2. c \in ToSet(order[w]) /\ without(order[w], c) = x \o tasks[w]
        <3>1. x \in Seq(Task) /\ tasks[w] \in Seq(Task) BY <1>4
        <3> HIDE DEF IInv
        <3>2. c \in ToSet((x \o <<c>>) \o tasks[w]) BY <1>1, <3>1, MiddleIsIn
        <3>3. without(order[w], c) = x \o tasks[w] BY <1>1, <1>6, <1>7, <3>1, WithoutMiddle
        <3> QED BY <1>6, <3>2, <3>3
    <2>3. /\ mine' \subseteq mine \cup {c} /\ mine \subseteq mine' /\ lost' \subseteq Task
          /\ lost \subseteq lost' /\ c \in mine' \cup lost'
        BY <1>0, <1>1, <2>1 DEF Owned
    <2>4. Owned' BY <1>1, <2>1, <2>2, <2>3, WithoutKeepsOwned
    <2>5. WorkerTypes' BY <1>0, <2>1 DEF WorkerTypes
    <2>6. InOrder'
        <3>1. /\ order'[w] = x \o tasks[w] /\ \A v \in Worker : v # w => order'[v] = order[v]
            BY <2>1, <2>2 DEF Owned
        <3>2. (fetched(w)' \o reply_tasks'[w]) \o unless(current'[w]) = x
            BY <1>3, <1>4, <1>5, <2>1, ConcatEmptySeq DEF x, f
        <3>3. ((fetched(w)' \o reply_tasks'[w]) \o unless(current'[w])) \o tasks'[w] = order'[w]
            BY <1>0, <3>1, <3>2, Zenon
        <3> QED BY <1>0, <1>2, <1>3, <2>1, <3>1, <3>3, OthersInOrder
    <2> QED BY <1>8, <2>4, <2>5, <2>6
<1>10. CASE Len(reply_tasks[w]) # Capacity
    <2>1. /\ UNCHANGED <<lost, order>>
          /\ reply_tasks' = [reply_tasks EXCEPT ![w] = Append(@, c)]
        BY <1>10 DEF WorkerReplies
    <2> HIDE DEF c, x, f
    <2>2. Append(reply_tasks[w], c) \in Queues
        <3>1. /\ Append(reply_tasks[w], c) \in Seq(Task)
              /\ Len(Append(reply_tasks[w], c)) = Len(reply_tasks[w]) + 1
            BY <1>1, <1>4, AppendProperties
        <3>2. Len(reply_tasks[w]) <= Capacity /\ Capacity \in Nat
            BY QueuesAre, MgrAssumption DEF WorkerTypes, Capacity
        <3>3. Len(reply_tasks[w]) + 1 <= Capacity BY <1>4, <1>10, <3>2, LenProperties
        <3> QED BY <3>1, <3>3, QueuesAre
    <2>3. WorkerTypes' BY <1>0, <2>1, <2>2 DEF WorkerTypes
    <2>4. Owned' BY <1>0, <2>1 DEF Owned
    <2>5. InOrder'
        <3>1. /\ reply_tasks'[w] = Append(reply_tasks[w], c)
              /\ \A v \in Worker : v # w => reply_tasks'[v] = reply_tasks[v]
            BY <2>1 DEF WorkerTypes
        <3>2. f \o Append(reply_tasks[w], c) = x \o <<c>>
            <4>1. f \o Append(reply_tasks[w], c) = Append(f \o reply_tasks[w], c)
                BY <1>1, <1>4, ConcatAppend
            <4>2. Append(x, c) = x \o <<c>> BY <1>1, <1>4, AppendIsConcat
            <4> QED BY <4>1, <4>2 DEF x
        <3>3. x \o <<c>> \in Seq(Task) BY <1>1, <1>4, AppendIsConcat, AppendProperties
        <3>4. (fetched(w)' \o reply_tasks'[w]) \o unless(current'[w]) = x \o <<c>>
            BY <1>3, <1>5, <3>1, <3>2, <3>3, ConcatEmptySeq DEF f
        <3>5. ((fetched(w)' \o reply_tasks'[w]) \o unless(current'[w])) \o tasks'[w] = order'[w]
            BY <1>0, <1>6, <2>1, <3>4
        <3> QED BY <1>0, <1>2, <1>3, <2>1, <3>1, <3>5, OthersInOrder
    <2> QED BY <1>8, <2>3, <2>4, <2>5
<1> QED BY <1>9, <1>10
\* getReplyTask moves the first reply, if there is one, into `task'.
LEMMA GetReplyTaskMoves ==
    ASSUME WorkerTypes, NEW w \in Worker, getReplyTask(w)
    PROVE  /\ task' \in Task \cup {NULL} /\ reply_tasks' \in [Worker -> Queues]
           /\ \A v \in Worker : v # w => reply_tasks'[v] = reply_tasks[v]
           /\ unless(task') \o reply_tasks'[w] = reply_tasks[w]
<1>1. reply_tasks[w] \in Seq(Task) /\ Len(reply_tasks[w]) <= Capacity
    BY QueuesAre DEF WorkerTypes
<1>2. CASE reply_tasks[w] = <<>>
    <2>1. task' = NULL /\ reply_tasks' = reply_tasks BY <1>2 DEF getReplyTask
    <2>2. unless(task') \o reply_tasks'[w] = reply_tasks[w]
        BY <1>1, <2>1, ConcatEmptySeq DEF unless
    <2> QED BY <2>1, <2>2 DEF WorkerTypes
<1>3. CASE reply_tasks[w] # <<>>
    <2>1. task' = Head(reply_tasks[w]) /\ reply_tasks' = [reply_tasks EXCEPT ![w] = Tail(@)]
        BY <1>3 DEF getReplyTask
    <2>2. /\ Head(reply_tasks[w]) \in Task /\ Tail(reply_tasks[w]) \in Seq(Task)
          /\ Len(Tail(reply_tasks[w])) <= Capacity
        BY <1>1, <1>3, HeadTailProperties, LenProperties, MgrAssumption DEF Capacity
    <2>3. Tail(reply_tasks[w]) \in Queues BY <2>2, QueuesAre
    <2>4. reply_tasks'[w] = Tail(reply_tasks[w]) BY <2>1 DEF WorkerTypes
    <2>5. unless(task') = <<Head(reply_tasks[w])>>
        BY <2>1, <2>2, MgrAssumption DEF unless
    <2>6. unless(task') \o reply_tasks'[w] = reply_tasks[w]
        BY <1>1, <1>3, <2>4, <2>5, HeadAndTail
    <2> QED BY <2>1, <2>2, <2>3, <2>6 DEF WorkerTypes
<1> QED BY <1>2, <1>3

\* The task in processReplyTask's hands is the first of its worker, and without it the
\* others follow in their order.
LEMMA WithoutFirst ==
    ASSUME NEW S, NEW x \in Seq(S), NEW y \in Seq(S), NEW z \in Seq(S), NEW e \in S,
           IsInjective(((<<e>> \o x) \o y) \o z)
    PROVE  without(((<<e>> \o x) \o y) \o z, e) = (x \o y) \o z
<1>. DEFINE rest == (x \o y) \o z
            s == ((<<e>> \o x) \o y) \o z
<1>1. <<e>> \in Seq(S) /\ x \o y \in Seq(S) /\ rest \in Seq(S) BY ConcatProperties
<1>2. (<<e>> \o x) \o y = <<e>> \o (x \o y) BY <1>1, ConcatAssociative
<1>3. s = <<e>> \o rest BY <1>1, <1>2, ConcatAssociative
<1>4. IsInjective(s) OBVIOUS
<1> HIDE DEF rest, s
<1>5. <<>> \in Seq(S) /\ <<>> \o <<e>> = <<e>> /\ <<>> \o rest = rest
    BY <1>1, ConcatEmptySeq
<1>6. s = (<<>> \o <<e>>) \o rest BY <1>3, <1>5
<1>7. IsInjective((<<>> \o <<e>>) \o rest) BY <1>4, <1>6
<1>8. without((<<>> \o <<e>>) \o rest, e) = <<>> \o rest BY <1>1, <1>5, <1>7, WithoutMiddle
<1>9. without(s, e) = rest BY <1>5, <1>6, <1>8
<1> QED BY <1>9 DEF rest, s

\* And it is one of them.
LEMMA FirstIsIn ==
    ASSUME NEW S, NEW x \in Seq(S), NEW y \in Seq(S), NEW z \in Seq(S), NEW e \in S
    PROVE  e \in ToSet(((<<e>> \o x) \o y) \o z)
<1>1. <<e>> \in Seq(S) /\ <<e>> \o x \in Seq(S) /\ x \o y \in Seq(S) BY ConcatProperties
<1>2. ((<<e>> \o x) \o y) \o z = (<<e>> \o x) \o (y \o z) /\ y \o z \in Seq(S)
    <2>1. y \o z \in Seq(S) BY ConcatProperties
    <2> QED BY <1>1, <2>1, ConcatAssociative
<1>3. ((<<e>> \o x) \o (y \o z)) = <<e>> \o (x \o (y \o z)) /\ x \o (y \o z) \in Seq(S)
    <2>1. x \o (y \o z) \in Seq(S) BY <1>2, ConcatProperties
    <2> QED BY <1>1, <1>2, <2>1, ConcatAssociative
<1>. DEFINE rest == x \o (y \o z)
<1>4. <<>> \in Seq(S) /\ <<>> \o <<e>> = <<e>> BY <1>1, ConcatEmptySeq
<1> HIDE DEF rest
<1>5. e \in ToSet((<<>> \o <<e>>) \o rest) BY <1>3, <1>4, MiddleIsIn DEF rest
<1> QED BY <1>2, <1>3, <1>4, <1>5 DEF rest

\* The while loop of processReplyTask begins with the first reply of worker i.
LEMMA ProcessFetchStep ==
    ASSUME IInv, ProcessFetch
    PROVE  IInv'
<1>. USE DEF IInv
<1>0. /\ UNCHANGED <<started, tasks, current, i, count, mine, lost, order>>
      /\ pc = "fetch" /\ pc' = "loop" /\ process_nbr' = 0 /\ getReplyTask(i)
      /\ i \in Worker /\ task = NULL
    BY DEF ProcessFetch, Locals
<1>1. /\ task' \in Task \cup {NULL} /\ reply_tasks' \in [Worker -> Queues]
      /\ \A v \in Worker : v # i => reply_tasks'[v] = reply_tasks[v]
      /\ unless(task') \o reply_tasks'[i] = reply_tasks[i]
    BY <1>0, GetReplyTaskMoves
<1>2. WorkerTypes' BY <1>0, <1>1 DEF WorkerTypes
<1>3. Locals' BY <1>0, <1>1 DEF Locals
<1>4. Owned' BY <1>0 DEF Owned
<1>5. InOrder'
    <2>1. fetched(i) = <<>> /\ fetched(i)' = unless(task')
        BY <1>0 DEF fetched, unless
    <2>2. \A v \in Worker : v # i => fetched(v)' = fetched(v) BY <1>0 DEF fetched
    <2>3. reply_tasks[i] \in Seq(Task)
          /\ order[i] = ((fetched(i) \o reply_tasks[i]) \o unless(current[i])) \o tasks[i]
        BY <1>0, Parts DEF InOrder
    <2>4. order[i] = (reply_tasks[i] \o unless(current[i])) \o tasks[i]
        BY <2>1, <2>3, ConcatEmptySeq
    <2>5. ((fetched(i)' \o reply_tasks'[i]) \o unless(current'[i])) \o tasks'[i] = order'[i]
        BY <1>0, <1>1, <2>1, <2>4
    <2> QED BY <1>0, <1>1, <2>2, <2>5, OthersInOrder
<1> QED BY <1>2, <1>3, <1>4, <1>5

\* What a step does that lets go of the task processReplyTask holds, a task of worker i.
LEMMA LetGo ==
    ASSUME IInv, pc = "loop", task # NULL
    PROVE  /\ i \in Worker /\ task \in Task /\ task \in ToSet(order[i])
           /\ without(order[i], task) = (reply_tasks[i] \o unless(current[i])) \o tasks[i]
           /\ \A v \in Worker : v # i => fetched(v) = <<>>
<1>. USE DEF IInv
<1>1. i \in Worker /\ task \in Task BY DEF Locals
<1>2. fetched(i) = <<task>> BY DEF fetched, unless
<1>3. /\ reply_tasks[i] \in Seq(Task) /\ unless(current[i]) \in Seq(Task)
      /\ tasks[i] \in Seq(Task)
      /\ order[i] = ((fetched(i) \o reply_tasks[i]) \o unless(current[i])) \o tasks[i]
    BY <1>1, Parts DEF InOrder
<1>4. IsInjective(order[i]) BY <1>1 DEF Owned
<1>5. /\ task \in ToSet(order[i])
      /\ without(order[i], task) = (reply_tasks[i] \o unless(current[i])) \o tasks[i]
    <2> HIDE DEF IInv
    <2>. DEFINE x == reply_tasks[i]
                y == unless(current[i])
                z == tasks[i]
    <2>1. order[i] = ((<<task>> \o x) \o y) \o z BY <1>2, <1>3
    <2>2. x \in Seq(Task) /\ y \in Seq(Task) /\ z \in Seq(Task) BY <1>3
    <2> HIDE DEF x, y, z
    <2>3. IsInjective(((<<task>> \o x) \o y) \o z) BY <1>4, <2>1
    <2>4. task \in ToSet(((<<task>> \o x) \o y) \o z) BY <1>1, <2>2, FirstIsIn
    <2>5. without(((<<task>> \o x) \o y) \o z, task) = (x \o y) \o z
        BY <1>1, <2>2, <2>3, WithoutFirst
    <2> QED BY <2>1, <2>4, <2>5 DEF x, y, z
<1>6. \A v \in Worker : v # i => fetched(v) = <<>> BY DEF fetched
<1> QED BY <1>1, <1>5, <1>6

\* A reply is given to its task, and the next one fetched.
LEMMA ProcessReplyStep ==
    ASSUME IInv, ProcessReply
    PROVE  IInv'
<1>. USE DEF IInv
<1>0. /\ UNCHANGED <<started, tasks, current, pc, i, count, lost>>
      /\ pc = "loop" /\ task # NULL /\ mine' = mine \cup {task}
      /\ order' = [order EXCEPT ![i] = without(@, task)]
      /\ getReplyTask(i) /\ process_nbr' = process_nbr + 1
    BY DEF ProcessReply
<1>1. /\ i \in Worker /\ task \in Task /\ task \in ToSet(order[i])
      /\ without(order[i], task) = (reply_tasks[i] \o unless(current[i])) \o tasks[i]
      /\ \A v \in Worker : v # i => fetched(v) = <<>>
    BY <1>0, LetGo
<1>2. /\ task' \in Task \cup {NULL} /\ reply_tasks' \in [Worker -> Queues]
      /\ \A v \in Worker : v # i => reply_tasks'[v] = reply_tasks[v]
      /\ unless(task') \o reply_tasks'[i] = reply_tasks[i]
    BY <1>0, <1>1, GetReplyTaskMoves
<1>3. WorkerTypes' BY <1>0, <1>2 DEF WorkerTypes
<1>4. Locals' BY <1>0, <1>2 DEF Locals
<1>5. Owned'
    <2>1. /\ mine' \subseteq mine \cup {task} /\ mine \subseteq mine' /\ lost' \subseteq Task
          /\ lost \subseteq lost' /\ task \in mine' \cup lost'
        BY <1>0 DEF Owned
    <2> QED BY <1>0, <1>1, <2>1, WithoutKeepsOwned
<1>6. InOrder'
    <2>1. /\ order'[i] = without(order[i], task)
          /\ \A v \in Worker : v # i => order'[v] = order[v]
        BY <1>0, <1>1 DEF Owned
    <2>2. fetched(i)' = unless(task') /\ \A v \in Worker : v # i => fetched(v)' = fetched(v)
        BY <1>0, <1>1 DEF fetched, unless
    <2>3. ((fetched(i)' \o reply_tasks'[i]) \o unless(current'[i])) \o tasks'[i] = order'[i]
        BY <1>0, <1>1, <1>2, <2>1, <2>2
    <2> QED BY <1>0, <1>1, <1>2, <2>1, <2>2, <2>3, OthersInOrder
<1> QED BY <1>3, <1>4, <1>5, <1>6
\* The while loop ends; a task it still holds is lost.
LEMMA ProcessNextStep ==
    ASSUME IInv, ProcessNext
    PROVE  IInv'
<1>. USE DEF IInv
<1>0. /\ UNCHANGED <<started, tasks, current, reply_tasks, process_nbr, count, mine>>
      /\ pc = "loop" /\ pc' \in {"idle", "fetch"} /\ task' = NULL /\ i' = i + 1
      /\ i = thread_count => pc' = "idle"
    BY DEF ProcessNext, workerVars
<1>1. i \in Worker /\ thread_count \in Nat BY <1>0, MgrAssumption DEF Locals
<1>. PICK w \in Worker : w = i BY <1>1
<1>2. WorkerTypes' BY <1>0 DEF WorkerTypes
<1>3. Locals'
    <2>1. i' \in 0 .. thread_count + 1 /\ (pc' = "fetch" => i' \in Worker)
        BY <1>0, <1>1 DEF Worker
    <2> QED BY <1>0, <2>1 DEF Locals
<1>4. \A v \in Worker : fetched(v)' = <<>> BY <1>0 DEF fetched
<1>5. CASE task = NULL
    <2>1. UNCHANGED <<lost, order>> BY <1>5 DEF ProcessNext
    <2>2. \A v \in Worker : fetched(v) = <<>> BY <1>5 DEF fetched, unless
    <2>3. Owned' BY <1>0, <2>1 DEF Owned
    <2>4. InOrder'
        <3>1. order[w] = ((fetched(w) \o reply_tasks[w]) \o unless(current[w])) \o tasks[w]
            BY <1>1, Parts DEF InOrder
        <3>2. ((fetched(w)' \o reply_tasks'[w]) \o unless(current'[w])) \o tasks'[w] = order'[w]
            BY <1>0, <1>1, <1>4, <2>1, <2>2, <3>1
        <3> QED BY <1>0, <1>1, <1>4, <2>1, <2>2, <3>2, OthersInOrder
    <2> QED BY <1>2, <1>3, <2>3, <2>4
<1>6. CASE task # NULL
    <2>1. /\ lost' = lost \cup {task} /\ order' = [order EXCEPT ![w] = without(@, task)]
        BY <1>6 DEF ProcessNext
    <2>2. /\ task \in Task /\ task \in ToSet(order[w])
          /\ without(order[w], task) = (reply_tasks[w] \o unless(current[w])) \o tasks[w]
          /\ \A v \in Worker : v # w => fetched(v) = <<>>
        BY <1>0, <1>6, LetGo
    <2>3. Owned'
        <3>1. /\ mine' \subseteq mine \cup {task} /\ mine \subseteq mine' /\ lost' \subseteq Task
              /\ lost \subseteq lost' /\ task \in mine' \cup lost'
            BY <1>0, <2>1, <2>2 DEF Owned
        <3> QED BY <1>1, <2>1, <2>2, <3>1, WithoutKeepsOwned
    <2>4. InOrder'
        <3>1. /\ order'[w] = without(order[w], task)
              /\ \A v \in Worker : v # w => order'[v] = order[v]
            BY <1>1, <2>1 DEF Owned
        <3>2. reply_tasks[w] \in Seq(Task) BY <1>1, Parts
        <3>3. fetched(w)' \o reply_tasks'[w] = reply_tasks[w]
            BY <1>0, <1>1, <1>4, <3>2, ConcatEmptySeq
        <3>4. ((fetched(w)' \o reply_tasks'[w]) \o unless(current'[w])) \o tasks'[w] = order'[w]
            BY <1>0, <2>2, <3>1, <3>3
        <3> QED BY <1>0, <1>1, <1>4, <2>2, <3>1, <3>4, OthersInOrder
    <2> QED BY <1>2, <1>3, <2>3, <2>4
<1> QED BY <1>5, <1>6

\* init, the call of processReplyTask and an access behind the array move no task.
LEMMA QuietStep ==
    ASSUME IInv, InitCall \/ InitStarts \/ InitFails \/ ProcessCall \/ TrapInLoop
                   \/ (pc = "idle" /\ Trap(thread_count)) \/ UNCHANGED vars
    PROVE  IInv'
<1>. USE DEF IInv
<1>1. CASE UNCHANGED vars
    BY <1>1 DEF vars, workerVars, localVars, WorkerTypes, Locals, Owned, InOrder, pipeline, unless
<1>2. CASE ~UNCHANGED vars
    <2>1. /\ UNCHANGED <<tasks, current, reply_tasks, mine, lost, order, task, process_nbr>>
          /\ pc # "loop" /\ pc' # "loop"
        BY <1>2 DEF InitCall, InitStarts, InitFails, ProcessCall, TrapInLoop, Trap, workerVars,
            localVars
    <2>2. thread_count \in Nat /\ Worker = 0 .. thread_count BY MgrAssumption DEF Worker
    <2>3. started' \subseteq Worker
        BY <1>2 DEF InitCall, InitStarts, InitFails, ProcessCall, TrapInLoop, Trap, WorkerTypes,
            Locals
    <2>4. WorkerTypes' BY <2>1, <2>3 DEF WorkerTypes
    <2>5. Locals'
        BY <1>2, <2>1, <2>2 DEF InitCall, InitStarts, InitFails, ProcessCall, TrapInLoop, Trap,
            workerVars, localVars, Locals
    <2>6. Owned' BY <2>1 DEF Owned
    <2>7. InOrder' BY <2>1 DEF InOrder, pipeline, unless
    <2> QED BY <2>4, <2>5, <2>6, <2>7
<1> QED BY <1>1, <1>2

\* Every step keeps the invariant.
LEMMA StepIInv == IInv /\ [Next]_vars => IInv'
<1>. SUFFICES ASSUME IInv, [Next]_vars PROVE IInv'
    OBVIOUS
<1>1. ASSUME NEW t \in Task, AddTask(t) PROVE IInv'
    <2>1. pc = "idle" /\ t \in mine BY <1>1 DEF AddTask
    <2>2. thread_count \in Worker BY MgrAssumption DEF Worker
    <2>3. CASE addTo(thread_count, t) BY <2>1, <2>2, <2>3, AddToStep
    <2>4. CASE Trap(thread_count) BY <2>1, <2>4, QuietStep
    <2> QED BY <1>1, <2>3, <2>4 DEF AddTask
<1>2. ASSUME NEW t \in Task, NEW h \in Hash, AddTaskByHash(h, t) PROVE IInv'
    <2>1. pc = "idle" /\ t \in mine /\ addTo(getTableHashID(h), t) BY <1>2 DEF AddTaskByHash
    <2>2. getTableHashID(h) \in Worker BY MgrAssumption DEF getTableHashID, Worker
    <2> QED BY <2>1, <2>2, AddToStep
<1>3. ASSUME NEW w \in Worker, WorkerTakes(w) \/ WorkerReplies(w) PROVE IInv'
    BY <1>3, WorkerTakesStep, WorkerRepliesStep
<1>4. CASE Process BY <1>4, ProcessFetchStep, ProcessReplyStep, ProcessNextStep DEF Process
<1>5. CASE InitCall \/ InitStarts \/ InitFails \/ ProcessCall \/ TrapInLoop \/ UNCHANGED vars
    BY <1>5, QuietStep
<1> QED BY <1>1, <1>2, <1>3, <1>4, <1>5 DEF Next

(***************************************************************************)
(* The theorems.                                                           *)
(***************************************************************************)
\* The invariant holds in every reachable state.
LEMMA Invariance == Spec => []IInv
<1>1. Init => IInv
    <2>. SUFFICES ASSUME Init PROVE IInv OBVIOUS
    <2>1. thread_count \in Nat /\ Worker = 0 .. thread_count /\ <<>> \in Seq(Task)
        BY MgrAssumption DEF Worker
    <2>2. <<>> \in Queues
        <3>1. Len(<<>>) <= Capacity BY MgrAssumption DEF Capacity
        <3> QED BY <2>1, <3>1, QueuesAre
    <2>3. WorkerTypes BY <2>2 DEF Init, WorkerTypes
    <2>4. Locals BY <2>1 DEF Init, Locals
    <2>5. Owned
        <3>1. ToSet(<<>>) = {} /\ IsInjective(<<>>) BY DEF ToSet, IsInjective
        <3>2. \A w \in Worker : order[w] = <<>> BY DEF Init
        <3>3. mine = Task /\ lost = {} BY DEF Init
        <3>4. order \in [Worker -> Seq(Task)] BY <2>1 DEF Init
        <3> QED BY <3>1, <3>2, <3>3, <3>4 DEF Owned
    <2>6. InOrder
        <3>1. <<>> \o <<>> = <<>> BY <2>1, ConcatEmptySeq
        <3>2. ASSUME NEW w \in Worker PROVE pipeline(w) = order[w]
            <4>1. /\ reply_tasks[w] = <<>> /\ unless(current[w]) = <<>> /\ tasks[w] = <<>>
                  /\ order[w] = <<>> /\ pc = "idle"
                BY DEF Init, unless
            <4> QED BY <3>1, <4>1 DEF pipeline
        <3> QED BY <3>2 DEF InOrder
    <2> QED BY <2>3, <2>4, <2>5, <2>6 DEF IInv
<1> QED BY <1>1, StepIInv, PTL DEF Spec

\* The manager's and the workers' members keep their types: no ring holds more than it can.
THEOREM TypeCorrect == Spec => []TypeOK
<1>1. IInv => TypeOK BY DEF IInv, WorkerTypes, Locals, Owned, TypeOK
<1> QED BY <1>1, Invariance, PTL

\* Each worker's tasks are answered in the order of addTask, whatever number of threads the
\* array has and wherever init, the workers and the fetch loop are, and no task is in two
\* places or nowhere.
THEOREM OrderCorrect == Spec => []AnsweredInOrder
<1>1. IInv => AnsweredInOrder BY DEF IInv, Owned, InOrder, AnsweredInOrder
<1> QED BY <1>1, Invariance, PTL

\* Every caller of processReplyTask whose argument is a number of tasks or -1 can rely on -1
\* and on the result false: no task that was fetched has been left behind.
THEOREM DropCorrect ==
    ASSUME Counts \subseteq Nat \cup {-1}
    PROVE  Spec => []DropIsReported
<1>1. Init => Answers BY DEF Init, Answers
<1>2. IInv /\ Answers /\ [Next]_vars => Answers'
    <2>. SUFFICES ASSUME IInv, Answers, [Next]_vars PROVE Answers'
        OBVIOUS
    <2>1. process_nbr \in Nat /\ count \in Nat \cup {-1} BY DEF IInv, Locals
    <2>2. CASE ProcessNext
        <3>1. /\ pc = "loop"
              /\ ~mayProcess \/ task = NULL
              /\ dropped' = (dropped \/ task # NULL)
              /\ is_result' = (is_result \/ process_nbr = count)
              /\ \/ pc' = "idle" /\ returned' = is_result'
                 \/ pc' = "fetch"
              /\ UNCHANGED <<process_nbr, count>>
            BY <2>2 DEF ProcessNext
        <3>2. ~mayProcess => process_nbr = count /\ count >= 0
            BY <2>1, <3>1 DEF mayProcess, Answers
        <3>3. dropped' => is_result' /\ count' >= 0 BY <3>1, <3>2 DEF Answers
        <3> QED BY <3>1, <3>3 DEF Answers
    <2>3. CASE ProcessFetch
        <3>1. pc = "fetch" /\ pc' = "loop" /\ process_nbr' = 0
              /\ UNCHANGED <<count, is_result, dropped>>
            BY <2>3 DEF ProcessFetch
        <3> QED BY <2>1, <3>1 DEF Answers
    <2>4. CASE ProcessReply
        <3>1. pc = "loop" /\ pc' = "loop" /\ process_nbr' = process_nbr + 1 /\ mayProcess
              /\ UNCHANGED <<count, is_result, dropped>>
            BY <2>4 DEF ProcessReply
        <3> QED BY <2>1, <3>1 DEF Answers, mayProcess
    <2>5. CASE ProcessCall BY <2>5 DEF ProcessCall, Answers
    <2>6. CASE ~Process /\ ~ProcessCall
        <3>1. /\ UNCHANGED <<process_nbr, count, is_result, dropped, returned>>
              /\ pc' = pc \/ (pc \in {"idle", "init"} /\ pc' \in {"idle", "init"}) \/ pc' = "dead"
            BY <2>6 DEF Next, Process, InitCall, InitStarts, InitFails, AddTask, AddTaskByHash,
                addTo, Trap, WorkerTakes, WorkerReplies, TrapInLoop, localVars, vars
        <3> QED BY <3>1 DEF Answers
    <2> QED BY <2>2, <2>3, <2>4, <2>5, <2>6 DEF Process
<1>3. Answers => DropIsReported BY DEF Answers, DropIsReported
<1> QED BY <1>1, <1>2, <1>3, Invariance, PTL DEF Spec
=============================================================================
