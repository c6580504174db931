------------------------------ MODULE CvQueue ------------------------------
(***************************************************************************)
(* The producer and the consumers of c11cv.cpp (std::thread, the task is   *)
(* done under the lock) and of cv_test.cpp (POSIX threads, one consumer,   *)
(* the task is done after the unlock), with a list, a mutex and a          *)
(* condition variable.  The producer notifies after it has unlocked.       *)
(***************************************************************************)
EXTENDS Naturals, Sequences

CONSTANTS Consumers,
          MaxTasks,   \* bound: tasks produced
          MaxSpurious \* bound: wakeups without a notification

ASSUME CvAssumption == Consumers # {} /\ MaxTasks \in Nat /\ MaxSpurious \in Nat

Producer == "producer"
Programs == {"c11cv", "cv_test"}

VARIABLES program,
          tasks,     \* the list
          owner,     \* who holds mymutex, or "nobody"
          pc, pTask, \* of each thread
          taskID,    \* of the producer
          done,      \* history: the tasks done, in order
          spurious

vars == <<program, tasks, owner, pc, pTask, taskID, done, spurious>>

\* cv_test.cpp has one consumer.
consumers == IF program = "c11cv" THEN Consumers ELSE {CHOOSE c \in Consumers : TRUE}

Init ==
    /\ program \in Programs
    /\ tasks = <<>> /\ owner = "nobody" /\ done = <<>>
    /\ pc = [t \in Consumers \cup {Producer} |-> "unlocked"]
    /\ pTask = [c \in Consumers |-> 0]
    /\ taskID = 1 /\ spurious = 0

moves(t, p) == pc' = [pc EXCEPT ![t] = p]

Lock(t) ==
    /\ pc[t] \in {"unlocked", "woken"} /\ owner = "nobody"
    /\ t = Producer => taskID <= MaxTasks
    /\ owner' = t /\ moves(t, "locked")
    /\ UNCHANGED <<program, tasks, pTask, taskID, done, spurious>>

(***************************************************************************)
(* The producer.                                                           *)
(***************************************************************************)
push_back ==
    /\ pc[Producer] = "locked" /\ owner' = "nobody" /\ moves(Producer, "notify")
    /\ tasks' = Append(tasks, taskID)
    /\ UNCHANGED <<program, pTask, taskID, done, spurious>>

waiting == {c \in Consumers : pc[c] = "waiting"}

\* Mutant of notified: a notification is spent on the first task only.
notifiedFirst == IF taskID = 1 THEN waiting ELSE {}
\* Who may be woken.
notified == waiting

notify_one ==
    /\ pc[Producer] = "notify"
    /\ taskID' = taskID + 1
    /\ IF notified = {} THEN moves(Producer, "unlocked")
       ELSE \E c \in notified :
              pc' = [pc EXCEPT ![Producer] = "unlocked", ![c] = "woken"]
    /\ UNCHANGED <<program, tasks, owner, pTask, done, spurious>>

(***************************************************************************)
(* A consumer.                                                             *)
(***************************************************************************)
wait(c) ==
    /\ pc[c] = "locked" /\ tasks = <<>>
    /\ owner' = "nobody" /\ moves(c, "waiting")
    /\ UNCHANGED <<program, tasks, pTask, taskID, done, spurious>>

WakesSpuriously(c) ==
    /\ pc[c] = "waiting" /\ spurious < MaxSpurious
    /\ spurious' = spurious + 1 /\ moves(c, "woken")
    /\ UNCHANGED <<program, tasks, owner, pTask, taskID, done>>

\* cv_test.cpp unlocks before it does the task.
unlocksFirst == program = "cv_test"

pop_front(c) ==
    /\ pc[c] = "locked" /\ tasks # <<>> /\ moves(c, "doTask")
    /\ pTask' = [pTask EXCEPT ![c] = Head(tasks)]
    /\ tasks' = Tail(tasks)
    /\ owner' = IF unlocksFirst THEN "nobody" ELSE owner
    /\ UNCHANGED <<program, taskID, done, spurious>>

\* c11cv.cpp deletes the task and, at the end of the round, unlocks.
doTask(c) ==
    /\ pc[c] = "doTask" /\ moves(c, "unlocked")
    /\ done' = Append(done, pTask[c])
    /\ pTask' = [pTask EXCEPT ![c] = 0]
    /\ owner' = IF owner = c THEN "nobody" ELSE owner
    /\ UNCHANGED <<program, tasks, taskID, spurious>>

Produce == Lock(Producer) \/ push_back \/ notify_one
Consume(c) == Lock(c) \/ wait(c) \/ pop_front(c) \/ doTask(c)

Next == Produce \/ \E c \in consumers : Consume(c) \/ WakesSpuriously(c)

\* Each thread goes on while it can.  Nothing is assumed of the mutex: a consumer that
\* never gets it has others that do the tasks.
Fairness == /\ WF_vars(Produce)
            /\ \A c \in Consumers : WF_vars(c \in consumers /\ Consume(c))

Spec == Init /\ [][Next]_vars /\ Fairness

(***************************************************************************)
(* Properties.                                                             *)
(***************************************************************************)
\* Every task is done, whole and as the one whose turn it is: no notification is lost
\* between the unlock of the producer and the wait of a consumer, whoever takes the mutex
\* between; and the lock over doTask, or the single consumer, keeps the order.
DoneInTurn == \A i \in 1 .. MaxTasks : (taskID >= i) ~> (Len(done) >= i /\ done[i] = i)
==============================================================================
