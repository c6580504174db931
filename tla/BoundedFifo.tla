---------------------------- MODULE BoundedFifo ----------------------------
(***************************************************************************)
(* What CTaskList (mysqlmgr/TaskList.h) promises to one producer and one   *)
(* consumer: a first-in first-out queue of at most Capacity tasks whose    *)
(* push returns false only when the queue is full and whose pop returns    *)
(* nullptr only when it is empty.  Every operation takes effect at one     *)
(* moment between its call and its return.                                 *)
(***************************************************************************)
EXTENDS Naturals, Sequences

CONSTANTS Task,      \* the IMysqlTask pointers
          NULL,      \* nullptr, which is no task
          Capacity   \* the largest number of tasks held

VARIABLES queue,     \* the tasks accepted and not yet taken, oldest first
          offered,   \* the argument of the push in progress, NULL between calls
          push_ret,  \* "none" during a push, then what it returned: "true", "false"
          pop_ret    \* what the last pop returned

fifoVars == <<queue, offered, push_ret, pop_ret>>

Init ==
    /\ queue = <<>>
    /\ offered = NULL
    /\ push_ret = "none"
    /\ pop_ret = NULL

\* The producer calls push(t).
Offer(t) ==
    /\ offered = NULL
    /\ offered' = t
    /\ push_ret' = "none"
    /\ UNCHANGED <<queue, pop_ret>>

\* The push takes effect and returns true.
Accept ==
    /\ offered # NULL
    /\ Len(queue) < Capacity
    /\ queue' = Append(queue, offered)
    /\ offered' = NULL
    /\ push_ret' = "true"
    /\ UNCHANGED pop_ret

\* The push finds the queue full and returns false.
Reject ==
    /\ offered # NULL
    /\ Len(queue) = Capacity
    /\ offered' = NULL
    /\ push_ret' = "false"
    /\ UNCHANGED <<queue, pop_ret>>

\* The pop returns the oldest task.
Take ==
    /\ queue # <<>>
    /\ pop_ret' = Head(queue)
    /\ queue' = Tail(queue)
    /\ UNCHANGED <<offered, push_ret>>

\* The pop finds the queue empty and returns nullptr.
Miss ==
    /\ queue = <<>>
    /\ pop_ret' = NULL
    /\ UNCHANGED <<queue, offered, push_ret>>

Next ==
    \/ \E t \in Task : Offer(t)
    \/ Accept
    \/ Reject
    \/ Take
    \/ Miss

Spec == Init /\ [][Next]_fifoVars

\* A consumer that keeps polling takes what is there, and a push returns.
Fairness == WF_fifoVars(Take) /\ WF_fifoVars(Accept \/ Reject)

FairSpec == Spec /\ Fairness
=============================================================================
