--------------------------- MODULE MysqlThreadMgr ---------------------------
(***************************************************************************)
(* CMysqlThreadMgr (mysqlmgr/MysqlThreadMgr.cpp): tasks are spread over    *)
(* worker threads by a hash, executed there and answered by the owner's    *)
(* thread in processReplyTask.  A worker is MysqlThread's main loop, its   *)
(* two rings are bounded queues (module TaskList).                         *)
(*                                                                         *)
(* The array mysql_threads_ has thread_count elements, but init,           *)
(* processReplyTask and addTask(task) also use the element after the last. *)
(* What that memory holds depends on the build and on where the manager    *)
(* lives: it may be zero, and then behaves as one more worker, or the      *)
(* access may end the process.                                             *)
(***************************************************************************)
EXTENDS Integers, Sequences, FiniteSets, SequencesExt, SelectedSeq

CONSTANTS Task,          \* task addresses
          NULL,          \* no task
          thread_count,  \* thread_count_ (9)
          MAX_TASK_NUM,  \* slots of each ring
          Hash,          \* the hash ids of the tasks
          Counts         \* the arguments processReplyTask is called with

ASSUME MgrAssumption ==
    /\ NULL \notin Task
    /\ thread_count \in Nat \ {0}
    /\ MAX_TASK_NUM \in Nat \ {0, 1}
    /\ Hash \subseteq Nat
    /\ Counts \subseteq Int

VARIABLES tail,      \* what is behind the array: "zeroes" or "trap"
          started,   \* the workers whose start() returned true
          tasks, current, reply_tasks,  \* of each worker
          pc,        \* the owner: "idle", "init", "fetch", "loop", "dead"
          i,         \* the loop variable of init and processReplyTask
          task, process_nbr, count, is_result,   \* processReplyTask's locals
          returned,  \* what the last call of processReplyTask returned
          mine,      \* history: the tasks the owner may use
          lost,      \* history: the executed tasks nobody points to any more
          order,     \* history: a worker's tasks under way, in addTask's order
          dropped,   \* history: this processReplyTask left a fetched task behind
          touched    \* history: the elements of mysql_threads_ that were used

workerVars == <<tasks, current, reply_tasks>>
localVars == <<i, task, process_nbr, count, is_result, returned, dropped>>
vars == <<tail, started, workerVars, pc, localVars, mine, lost, order, touched>>

\* The indices the code uses.
Worker == 0 .. thread_count

Capacity == MAX_TASK_NUM - 1

Init ==
    /\ tail \in {"zeroes", "trap"}
    /\ started = {}
    /\ tasks = [w \in Worker |-> <<>>]
    /\ current = [w \in Worker |-> NULL]
    /\ reply_tasks = [w \in Worker |-> <<>>]
    /\ pc = "idle" /\ i = 0
    /\ task = NULL /\ process_nbr = 0 /\ count = 0
    /\ is_result = FALSE /\ returned = FALSE /\ dropped = FALSE
    /\ mine = Task /\ lost = {}
    /\ order = [w \in Worker |-> <<>>]
    /\ touched = {}

\* mysql_threads_[w] is used.
element(w) == touched' = touched \cup {w}

survives(w) == w < thread_count \/ tail = "zeroes"

\* The access behind the array ends the process.
Trap(w) ==
    /\ ~survives(w)
    /\ element(w)
    /\ pc' = "dead"
    /\ UNCHANGED <<tail, started, workerVars, localVars, mine, lost, order>>

(***************************************************************************)
(* init(): start() of one worker after the other, until one fails.         *)
(***************************************************************************)
InitCall ==
    /\ pc = "idle"
    /\ pc' = "init"
    /\ i' = 0
    /\ UNCHANGED <<tail, started, workerVars, task, process_nbr, count, is_result, returned,
                   dropped, mine, lost, order, touched>>

\* Mutant of InitStarts: one element further.
InitStartsFurther ==
    /\ pc = "init"
    /\ survives(i)
    /\ element(i)
    /\ started' = started \cup {i}
    /\ i' = i + 1
    /\ pc' = IF i > thread_count THEN "idle" ELSE "init"
    /\ UNCHANGED <<tail, workerVars, task, process_nbr, count, is_result, returned, dropped,
                   mine, lost, order>>

InitStarts ==
    /\ pc = "init"
    /\ survives(i)
    /\ element(i)
    /\ started' = started \cup {i}
    /\ i' = i + 1
    /\ pc' = IF i = thread_count THEN "idle" ELSE "init"
    /\ UNCHANGED <<tail, workerVars, task, process_nbr, count, is_result, returned, dropped,
                   mine, lost, order>>

\* Returns false; the workers started so far keep running.
InitFails ==
    /\ pc = "init"
    /\ survives(i)
    /\ element(i)
    /\ pc' = "idle"
    /\ UNCHANGED <<tail, started, workerVars, localVars, mine, lost, order>>

(***************************************************************************)
(* addTask                                                                 *)
(***************************************************************************)
getTableHashID(hash_id) == hash_id % thread_count

\* A full ring refuses the task, and the owner keeps it.
addTo(w, t) ==
    /\ survives(w)
    /\ element(w)
    /\ IF Len(tasks[w]) = Capacity
         THEN UNCHANGED <<tasks, mine, order>>
         ELSE /\ tasks' = [tasks EXCEPT ![w] = Append(@, t)]
              /\ order' = [order EXCEPT ![w] = Append(@, t)]
              /\ mine' = mine \ {t}
    /\ UNCHANGED <<tail, started, current, reply_tasks, pc, localVars, lost>>

\* The test of idx against thread_count_ never fails: idx is a remainder.
AddTaskByHash(hash_id, t) ==
    /\ pc = "idle"
    /\ t \in mine
    /\ LET idx == getTableHashID(hash_id)
       IN  idx < thread_count /\ addTo(idx, t)

AddTask(t) ==
    /\ pc = "idle"
    /\ t \in mine
    /\ addTo(thread_count, t) \/ Trap(thread_count)

(***************************************************************************)
(* The workers: pop, execute and push of mainLoop.                         *)
(***************************************************************************)
WorkerTakes(w) ==
    /\ w \in started
    /\ current[w] = NULL
    /\ tasks[w] # <<>>
    /\ current' = [current EXCEPT ![w] = Head(tasks[w])]
    /\ tasks' = [tasks EXCEPT ![w] = Tail(@)]
    /\ UNCHANGED <<tail, started, reply_tasks, pc, localVars, mine, lost, order, touched>>

WorkerReplies(w) ==
    /\ current[w] # NULL
    /\ current' = [current EXCEPT ![w] = NULL]
    /\ IF Len(reply_tasks[w]) = Capacity
         THEN /\ lost' = lost \cup {current[w]}
              /\ order' = [order EXCEPT ![w] = without(@, current[w])]
              /\ UNCHANGED reply_tasks
         ELSE /\ reply_tasks' = [reply_tasks EXCEPT ![w] = Append(@, current[w])]
              /\ UNCHANGED <<lost, order>>
    /\ UNCHANGED <<tail, started, tasks, pc, localVars, mine, touched>>

(***************************************************************************)
(* processReplyTask                                                        *)
(***************************************************************************)
ProcessCall ==
    /\ pc = "idle"
    /\ \E c \in Counts : count' = c
    /\ pc' = "fetch"
    /\ i' = 0
    /\ is_result' = FALSE
    /\ dropped' = FALSE
    /\ UNCHANGED <<tail, started, workerVars, task, process_nbr, returned, mine, lost, order,
                   touched>>

\* Mutant of getReplyTask: the newest reply first.
getNewestReply(w) ==
    IF reply_tasks[w] = <<>>
      THEN task' = NULL /\ UNCHANGED reply_tasks
      ELSE /\ task' = Last(reply_tasks[w])
           /\ reply_tasks' = [reply_tasks EXCEPT ![w] = Front(@)]

\* getReplyTask of worker w, into `task'.
getReplyTask(w) ==
    IF reply_tasks[w] = <<>>
      THEN task' = NULL /\ UNCHANGED reply_tasks
      ELSE /\ task' = Head(reply_tasks[w])
           /\ reply_tasks' = [reply_tasks EXCEPT ![w] = Tail(@)]

\* The first task of worker i.
ProcessFetch ==
    /\ pc = "fetch"
    /\ survives(i)
    /\ element(i)
    /\ getReplyTask(i)
    /\ process_nbr' = 0
    /\ pc' = "loop"
    /\ UNCHANGED <<tail, started, tasks, current, i, count, is_result, returned, dropped, mine,
                   lost, order>>

mayProcess == count = -1 \/ process_nbr < count

\* reply(), release() and the next task.
ProcessReply ==
    /\ pc = "loop"
    /\ mayProcess
    /\ task # NULL
    /\ mine' = mine \cup {task}
    /\ order' = [order EXCEPT ![i] = without(@, task)]
    /\ getReplyTask(i)
    /\ process_nbr' = process_nbr + 1
    /\ UNCHANGED <<tail, started, tasks, current, pc, i, count, is_result, returned, dropped,
                   lost, touched>>

\* Mutant of ProcessNext: only the last worker decides the result.
ProcessNextOverwrites ==
    /\ pc = "loop"
    /\ ~mayProcess \/ task = NULL
    /\ lost' = IF task = NULL THEN lost ELSE lost \cup {task}
    /\ order' = IF task = NULL THEN order ELSE [order EXCEPT ![i] = without(@, task)]
    /\ dropped' = (dropped \/ task # NULL)
    /\ task' = NULL
    /\ is_result' = (process_nbr = count)
    /\ i' = i + 1
    /\ IF i = thread_count THEN pc' = "idle" /\ returned' = is_result'
                           ELSE pc' = "fetch" /\ UNCHANGED returned
    /\ UNCHANGED <<tail, started, workerVars, process_nbr, count, mine, touched>>

\* Mutant of ProcessNext: the loop leaves out the last worker of the array and the one
\* behind it.
ProcessNextShort ==
    /\ pc = "loop"
    /\ ~mayProcess \/ task = NULL
    /\ lost' = IF task = NULL THEN lost ELSE lost \cup {task}
    /\ order' = IF task = NULL THEN order ELSE [order EXCEPT ![i] = without(@, task)]
    /\ dropped' = (dropped \/ task # NULL)
    /\ task' = NULL
    /\ is_result' = (is_result \/ process_nbr = count)
    /\ i' = i + 1
    /\ IF i >= thread_count - 2 THEN pc' = "idle" /\ returned' = is_result'
                           ELSE pc' = "fetch" /\ UNCHANGED returned
    /\ UNCHANGED <<tail, started, workerVars, process_nbr, count, mine, touched>>

\* The while loop ends; a task fetched beyond the count is forgotten.
ProcessNext ==
    /\ pc = "loop"
    /\ ~mayProcess \/ task = NULL
    /\ lost' = IF task = NULL THEN lost ELSE lost \cup {task}
    /\ order' = IF task = NULL THEN order ELSE [order EXCEPT ![i] = without(@, task)]
    /\ dropped' = (dropped \/ task # NULL)
    /\ task' = NULL
    /\ is_result' = (is_result \/ process_nbr = count)
    /\ i' = i + 1
    /\ IF i = thread_count THEN pc' = "idle" /\ returned' = is_result'
                           ELSE pc' = "fetch" /\ UNCHANGED returned
    /\ UNCHANGED <<tail, started, workerVars, process_nbr, count, mine, touched>>

Process == ProcessFetch \/ ProcessReply \/ ProcessNext

\* init or processReplyTask reaches the element behind the array.
TrapInLoop == pc \in {"init", "fetch"} /\ Trap(i)

Next ==
    \/ InitCall \/ InitStarts \/ InitFails
    \/ \E t \in Task : AddTask(t) \/ \E h \in Hash : AddTaskByHash(h, t)
    \/ \E w \in Worker : WorkerTakes(w) \/ WorkerReplies(w)
    \/ ProcessCall \/ Process
    \/ TrapInLoop

Spec == Init /\ [][Next]_vars

\* The workers run, and the owner's loop keeps calling processReplyTask, which returns.
Fairness ==
    /\ \A w \in Worker : WF_vars(WorkerTakes(w)) /\ WF_vars(WorkerReplies(w))
    /\ WF_vars(InitStarts \/ InitFails \/ Process \/ TrapInLoop)
    /\ SF_vars(ProcessCall)

FairSpec == Spec /\ Fairness

(***************************************************************************)
(* Properties.                                                             *)
(***************************************************************************)
Queues == UNION {[1 .. n -> Task] : n \in 0 .. Capacity}

TypeOK ==
    /\ started \subseteq Worker
    /\ tasks \in [Worker -> Queues]
    /\ current \in [Worker -> Task \cup {NULL}]
    /\ reply_tasks \in [Worker -> Queues]
    /\ pc \in {"idle", "init", "fetch", "loop", "dead"}
    /\ i \in 0 .. thread_count + 1
    /\ task \in Task \cup {NULL}
    /\ count \in Counts \cup {0}
    /\ mine \subseteq Task /\ lost \subseteq Task

unless(t) == IF t = NULL THEN <<>> ELSE <<t>>

\* The tasks of worker w that are under way, the first to be answered first.
pipeline(w) ==
    (IF pc = "loop" /\ w = i THEN unless(task) ELSE <<>>)
      \o reply_tasks[w] \o unless(current[w]) \o tasks[w]

\* Tasks of one hash are answered in the order of addTask, whatever the other workers
\* and the fetch loop do in between, and no task is in two places.
AnsweredInOrder ==
    /\ \A w \in Worker : pipeline(w) = order[w]
    /\ \A t \in Task \ (mine \cup lost) :
         \E w \in Worker : t \in ToSet(order[w])
    /\ \A v, w \in Worker : v # w => ToSet(order[v]) \cap ToSet(order[w]) = {}

\* A caller can tell when processReplyTask may have left behind a task that it took out of
\* a ring (MysqlThreadMgr.cpp:37-40): only when it was given a limit, and then it returns
\* true.  A call with -1, or one that returns false, has answered all it took.  (That
\* needs -1 for "no limit": any other negative count would drop one task of each worker
\* and still return false.)
DropIsReported == pc = "idle" /\ dropped => returned /\ count >= 0

\* A task given to a worker that runs comes back, or is lost in one of the known ways.
TaskComesBack ==
    \A t \in Task : (\E w \in started : t \in ToSet(order[w]))
                       ~> (t \in mine \/ t \in lost \/ pc = "dead")

\* Only elements that the array has are used, as the test in addTask demands.
InBounds == \A w \in touched : w < thread_count
=============================================================================
