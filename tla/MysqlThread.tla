---------------------------- MODULE MysqlThread ----------------------------
(***************************************************************************)
(* CMysqlThread (mysqlmgr/MysqlThread.cpp): an owner that starts a worker  *)
(* thread, waits for it to be up, hands it tasks, fetches the executed     *)
(* ones, stops it and destroys the object; and the worker's main loop.     *)
(*                                                                         *)
(* A task is the address of an IMysqlTask.  The owner allocates it, may    *)
(* hand it over, and once it has it back calls reply() and release(), which*)
(* frees the address for a later task.                                     *)
(***************************************************************************)
EXTENDS TaskRing, FiniteSets

CONSTANTS Task,       \* task addresses
          NULL,       \* no task
          MaxStarts   \* bound: how often the owner calls start()

ASSUME ThreadAssumption == NULL \notin Task /\ IsFiniteSet(Task) /\ MaxStarts \in Nat \ {0}

VARIABLES is_start, is_terminate,     \* is_start_, is_terminate_
          thread,       \* thread_: "none", "joinable" or "joined"
          conn,         \* conn_: "none", "new" (not initialized) or "open"
          tasks, reply_tasks,         \* tasks_, reply_tasks_
          mutex,        \* mutex_: who holds it
          waiting,      \* the owner sleeps in cond_.wait and was not notified
          owner,        \* where the owner is
          start_ret,    \* what start() returned last
          worker,       \* where the worker is
          current,      \* mainLoop's local `task'
          starts,       \* history: calls of start()
          mine,         \* history: the tasks the owner may use
          lost,         \* history: the executed tasks nobody points to any more
          backlog,      \* history: the most tasks ever handed over and not fetched
          fault         \* "none", or why the process ended

ownerVars == <<owner, start_ret, starts, mine, backlog>>
lifeVars == <<is_start, is_terminate, thread, conn>>
queueVars == <<tasks, reply_tasks, current, lost>>
vars == <<lifeVars, queueVars, ownerVars, mutex, waiting, worker, fault>>

Init ==
    /\ is_start = FALSE /\ is_terminate = FALSE
    /\ thread = "none" /\ conn = "none"
    /\ tasks = EmptyRing /\ reply_tasks = EmptyRing
    /\ mutex = "free" /\ waiting = FALSE
    /\ owner = "idle" /\ start_ret = "none"
    /\ worker = "unborn" /\ current = NULL
    /\ starts = 0
    /\ mine = Task /\ lost = {} /\ backlog = 0
    /\ fault = "none"

(***************************************************************************)
(* start() and init().                                                     *)
(***************************************************************************)
\* conn_ = new CDatabaseMysql: an older connection object is forgotten.
StartCall ==
    /\ owner = "idle"
    /\ starts < MaxStarts
    /\ starts' = starts + 1
    /\ conn' = "new"
    /\ owner' = "initialize"
    /\ start_ret' = "none"
    /\ UNCHANGED <<is_start, is_terminate, thread, queueVars, mine, backlog, mutex,
                   waiting, worker, fault>>

InitializeSucceeds ==
    /\ owner = "initialize"
    /\ conn' = "open"
    /\ owner' = "init"
    /\ UNCHANGED <<is_start, is_terminate, thread, queueVars, start_ret, starts, mine,
                   backlog, mutex, waiting, worker, fault>>

\* Mutant of InitializeFails: start() goes on to init() without a connection.
InitializeIgnored ==
    /\ owner = "initialize"
    /\ owner' = "init"
    /\ UNCHANGED <<lifeVars, queueVars, start_ret, starts, mine, backlog, mutex, waiting,
                   worker, fault>>

InitializeFails ==
    /\ owner = "initialize"
    /\ owner' = "idle"
    /\ start_ret' = "false"
    /\ UNCHANGED <<lifeVars, queueVars, starts, mine, backlog, mutex, waiting, worker,
                   fault>>

\* CDatabaseMysql::initialize frees the handle it then goes on to use: `set names' there
\* or a task's statements later may end the process.
HandleFaults ==
    /\ owner = "initialize" \/ (worker = "execute" /\ conn = "open")
    /\ fault' = "freed handle"
    /\ owner' = "gone"
    /\ UNCHANGED <<lifeVars, queueVars, start_ret, starts, mine, backlog, mutex, waiting,
                   worker>>

InitSkips ==
    /\ owner = "init"
    /\ is_start
    /\ owner' = "idle"
    /\ start_ret' = "true"
    /\ UNCHANGED <<lifeVars, queueVars, starts, mine, backlog, mutex, waiting, worker,
                   fault>>

InitSpawns ==
    /\ owner = "init"
    /\ ~is_start
    /\ thread' = "joinable"
    /\ worker' = "begin"
    /\ owner' = "lock"
    /\ UNCHANGED <<is_start, is_terminate, conn, queueVars, start_ret, starts, mine,
                   backlog, mutex, waiting, fault>>

InitLocks ==
    /\ owner = "lock"
    /\ mutex = "free"
    /\ mutex' = "owner"
    /\ owner' = "test"
    /\ UNCHANGED <<lifeVars, queueVars, start_ret, starts, mine, backlog, waiting, worker,
                   fault>>

\* The condition of the loop around cond_.wait, under the lock.
InitTests ==
    /\ owner = "test"
    /\ IF is_start THEN owner' = "idle" /\ start_ret' = "true" /\ mutex' = "free"
                   ELSE owner' = "sleep" /\ UNCHANGED <<start_ret, mutex>>
    /\ UNCHANGED <<lifeVars, queueVars, starts, mine, waiting, backlog, worker, fault>>

\* cond_.wait: release the mutex and wait, in one step.
InitSleeps ==
    /\ owner = "sleep"
    /\ mutex' = "free"
    /\ waiting' = TRUE
    /\ owner' = "wait"
    /\ UNCHANGED <<lifeVars, queueVars, start_ret, starts, mine, backlog, worker, fault>>

InitWakes ==
    /\ owner = "wait"
    /\ mutex = "free"
    /\ mutex' = "owner"
    /\ waiting' = FALSE
    /\ owner' = "test"
    /\ UNCHANGED <<lifeVars, queueVars, start_ret, starts, mine, backlog, worker, fault>>

(***************************************************************************)
(* The worker: mainLoop().                                                 *)
(***************************************************************************)
\* is_start_ = true, before and outside the lock.
WorkerBegins ==
    /\ worker = "begin"
    /\ is_start' = TRUE
    /\ worker' = "lock"
    /\ UNCHANGED <<is_terminate, thread, conn, queueVars, ownerVars, mutex, waiting, fault>>

\* Mutant of WorkerLocks: notifies without the lock.
WorkerNoLock ==
    /\ worker = "lock"
    /\ worker' = "notify"
    /\ UNCHANGED <<mutex, lifeVars, queueVars, ownerVars, waiting, fault>>

WorkerLocks ==
    /\ worker = "lock"
    /\ mutex = "free"
    /\ mutex' = "worker"
    /\ worker' = "notify"
    /\ UNCHANGED <<lifeVars, queueVars, ownerVars, waiting, fault>>

\* Mutant of WorkerNotifies: no notify_all.
WorkerSilent ==
    /\ worker = "notify"
    /\ mutex' = "free"
    /\ worker' = "top"
    /\ UNCHANGED <<lifeVars, queueVars, ownerVars, waiting, fault>>

WorkerNotifies ==
    /\ worker = "notify"
    /\ waiting' = FALSE
    /\ mutex' = "free"
    /\ worker' = "top"
    /\ UNCHANGED <<lifeVars, queueVars, ownerVars, fault>>

WorkerTop ==
    /\ worker = "top"
    /\ worker' = IF is_terminate THEN "done" ELSE "pop"
    /\ UNCHANGED <<lifeVars, queueVars, ownerVars, mutex, waiting, fault>>

\* Mutant of WorkerPops: pop leaves the read index where it was.
WorkerPeeks ==
    /\ worker = "pop"
    /\ IF tasks.held = 0
         THEN worker' = "sleep" /\ UNCHANGED current
         ELSE current' = Head(queued(tasks)) /\ worker' = "execute"
    /\ UNCHANGED <<lifeVars, tasks, reply_tasks, lost, ownerVars, mutex, waiting, fault>>

\* Mutant of WorkerPops: the loop ends when there is nothing to do.
WorkerGivesUp ==
    /\ worker = "pop"
    /\ IF tasks.held = 0
         THEN worker' = "done" /\ UNCHANGED <<current, tasks>>
         ELSE /\ current' = Head(queued(tasks))
              /\ tasks' = popped(tasks)
              /\ worker' = "execute"
    /\ UNCHANGED <<lifeVars, reply_tasks, lost, ownerVars, mutex, waiting, fault>>

\* An empty ring sends the worker to sleep for a second.
WorkerPops ==
    /\ worker = "pop"
    /\ IF tasks.held = 0
         THEN worker' = "sleep" /\ UNCHANGED <<current, tasks>>
         ELSE /\ current' = Head(queued(tasks))
              /\ tasks' = popped(tasks)
              /\ worker' = "execute"
    /\ UNCHANGED <<lifeVars, reply_tasks, lost, ownerVars, mutex, waiting, fault>>

WorkerSlept ==
    /\ worker = "sleep"
    /\ worker' = "top"
    /\ UNCHANGED <<lifeVars, queueVars, ownerVars, mutex, waiting, fault>>

\* task->execute(conn_): what it does to the database is the task's affair.
WorkerExecutes ==
    /\ worker = "execute"
    /\ worker' = "reply"
    /\ UNCHANGED <<lifeVars, queueVars, ownerVars, mutex, waiting, fault>>

\* The result of push is ignored: on a full ring the executed task is dropped.
WorkerReplies ==
    /\ worker = "reply"
    /\ IF isFull(reply_tasks)
         THEN lost' = lost \cup {current} /\ UNCHANGED reply_tasks
         ELSE reply_tasks' = pushed(reply_tasks, current) /\ UNCHANGED lost
    /\ current' = NULL
    /\ worker' = "top"
    /\ UNCHANGED <<lifeVars, tasks, ownerVars, mutex, waiting, fault>>

(***************************************************************************)
(* addTask(), getReplyTask(), stop() and the destructor.                   *)
(***************************************************************************)
\* Handed over, and neither fetched nor lost.
underway == (Task \ mine) \ lost

AddTask(t) ==
    /\ owner = "idle"
    /\ t \in mine
    /\ IF isFull(tasks)
         THEN UNCHANGED <<tasks, mine, backlog>>
         ELSE /\ tasks' = pushed(tasks, t)
              /\ mine' = mine \ {t}
              /\ backlog' = IF Cardinality(underway) + 1 > backlog
                              THEN Cardinality(underway) + 1 ELSE backlog
    /\ UNCHANGED <<lifeVars, reply_tasks, current, lost, owner, start_ret, starts, mutex,
                   waiting, worker, fault>>

\* getReplyTask(), then reply() and release().
GetReplyTask ==
    /\ owner = "idle"
    /\ reply_tasks.held > 0
    /\ mine' = mine \cup {Head(queued(reply_tasks))}
    /\ reply_tasks' = popped(reply_tasks)
    /\ UNCHANGED <<lifeVars, tasks, current, lost, owner, start_ret, starts, backlog,
                   mutex, waiting, worker, fault>>

StopCall ==
    /\ owner = "idle"
    /\ ~is_terminate
    /\ is_terminate' = TRUE
    /\ owner' = "join"
    /\ UNCHANGED <<is_start, thread, conn, queueVars, start_ret, starts, mine, backlog,
                   mutex, waiting, worker, fault>>

\* thread_->join(), through a null pointer when no worker was ever started.
StopJoins ==
    /\ owner = "join"
    /\ \/ /\ thread = "none"
          /\ fault' = "null thread"
          /\ owner' = "gone"
          /\ UNCHANGED thread
       \/ /\ thread = "joinable"
          /\ worker = "done"
          /\ thread' = "joined"
          /\ owner' = "idle"
          /\ UNCHANGED fault
    /\ UNCHANGED <<is_start, is_terminate, conn, queueVars, start_ret, starts, mine,
                   backlog, mutex, waiting, worker>>

\* The rings delete what their slots hold.  A pointer in both, or one whose task the
\* owner has back, is deleted once too often.
deletesTwice ==
    \/ ToSet(reply_tasks.slots \o tasks.slots) \cap mine # {}
    \/ ToSet(reply_tasks.slots) \cap ToSet(tasks.slots) # {}
    \/ \E r \in {tasks, reply_tasks} : ~IsInjective(r.slots)

\* The members go in reverse order: reply_tasks_, tasks_, then thread_, whose destructor
\* ends the process while it is joinable.
Destroy ==
    /\ owner = "idle"
    /\ owner' = "gone"
    /\ fault' = IF deletesTwice THEN "double delete"
                ELSE IF thread = "joinable" THEN "terminate" ELSE "none"
    /\ UNCHANGED <<lifeVars, queueVars, start_ret, starts, mine, backlog, mutex, waiting,
                   worker>>

OwnerReturns ==
    \/ InitializeSucceeds \/ InitializeFails \/ InitSkips \/ InitSpawns
    \/ InitLocks \/ InitTests \/ InitSleeps \/ StopJoins

Worker ==
    \/ WorkerBegins \/ WorkerLocks \/ WorkerNotifies \/ WorkerTop \/ WorkerPops
    \/ WorkerSlept \/ WorkerExecutes \/ WorkerReplies

Live == fault = "none" /\ owner # "gone"

Next ==
    Live /\ \/ StartCall \/ OwnerReturns \/ InitWakes \/ Worker
            \/ \E t \in Task : AddTask(t)
            \/ GetReplyTask \/ StopCall \/ Destroy \/ HandleFaults

Spec == Init /\ [][Next]_vars

\* Both threads are scheduled, calls return, and a notified wait wakes up.  A spurious
\* wake-up may happen (InitWakes) but is never relied on.
Fairness ==
    /\ WF_vars(Live /\ Worker)
    /\ WF_vars(Live /\ OwnerReturns)
    /\ WF_vars(Live /\ InitWakes /\ ~waiting)

FairSpec == Spec /\ Fairness

(***************************************************************************)
(* Properties.                                                             *)
(***************************************************************************)
Rings == [slots : UNION {[1 .. n -> Task] : n \in 0 .. MAX_TASK_NUM},
          held : 0 .. MAX_TASK_NUM - 1]

TypeOK ==
    /\ is_start \in BOOLEAN /\ is_terminate \in BOOLEAN
    /\ thread \in {"none", "joinable", "joined"}
    /\ conn \in {"none", "new", "open"}
    /\ tasks \in Rings /\ reply_tasks \in Rings
    /\ mutex \in {"free", "owner", "worker"}
    /\ waiting \in BOOLEAN
    /\ owner \in {"idle", "initialize", "init", "lock", "test", "sleep", "wait", "join", "gone"}
    /\ start_ret \in {"none", "true", "false"}
    /\ worker \in {"unborn", "begin", "lock", "notify", "top", "pop", "sleep", "execute",
                   "reply", "done"}
    /\ current \in Task \cup {NULL}
    /\ starts \in 0 .. MaxStarts
    /\ mine \subseteq Task /\ lost \subseteq Task
    /\ backlog \in 0 .. Cardinality(Task)
    /\ fault \in {"none", "null thread", "double delete", "terminate", "freed handle"}

\* The flag is set outside the lock, yet no wake-up is lost: while the owner sleeps
\* un-notified, the worker has still to take the lock and notify.
NoLostWakeup ==
    owner = "wait" /\ waiting => worker \in {"begin", "lock", "notify"}

\* Every task is in one place: with the owner, queued, being executed, executed and
\* queued, or lost; so none is executed or replied to twice.
OnePlaceEach ==
    LET held == queued(tasks) \o queued(reply_tasks)
    IN  /\ \A i, j \in DOMAIN held : held[i] = held[j] => i = j
        /\ ToSet(held) \cup (IF current = NULL THEN {} ELSE {current}) = underway
        /\ current \notin ToSet(held)

\* The reply ring loses a task only when more were under way than a ring holds: an
\* owner that keeps fewer in flight gets every one back.
LossNeedsBacklog == lost # {} => backlog >= MAX_TASK_NUM

\* The worker executes on a connection that was opened, also when an earlier start() failed
\* and left one that was not (MysqlThread.cpp:28-31).  Only a start() that comes on top of
\* a running worker can take its connection away: while it connects, and when it fails.
ExecutesConnected ==
    worker = "execute" => conn = "open" \/ owner \in {"initialize", "gone"} \/ start_ret = "false"

\* start() does not hang on its handshake and stop() not on its join, which may find
\* the worker asleep; without a worker stop() ends the process.
CallsReturn == (owner \notin {"idle", "gone"}) ~> (owner \in {"idle", "gone"})

\* A queued task is taken by the worker unless it was told to terminate.
TaskIsTaken ==
    \A t \in Task : (is_start /\ t \in ToSet(queued(tasks)))
                      ~> (t \notin ToSet(queued(tasks)) \/ is_terminate \/ owner = "gone")
=============================================================================
