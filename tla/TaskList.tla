------------------------------ MODULE TaskList ------------------------------
(***************************************************************************)
(* CTaskList of mysqlmgr/TaskList.cpp: a ring of MAX_TASK_NUM slots that   *)
(* one thread pushes to and another pops from with no lock and no atomic.  *)
(*                                                                         *)
(* Every action makes at most one access to memory that the other thread   *)
(* also writes.  The accesses are taken to happen in program order, as in  *)
(* an unoptimised build (-O0 in reactor1/Makefile and version2/makefile;   *)
(* mysqlmgr has no makefile) on a machine that keeps the order of stores;  *)
(* the indices are aligned and written at once.                            *)
(***************************************************************************)
EXTENDS Naturals, Sequences

CONSTANTS Task,          \* the IMysqlTask pointers
          NULL,          \* nullptr
          MAX_TASK_NUM   \* slots of the ring (1000 in TaskList.h)

ASSUME NullAssumption == NULL \notin Task

\* The indices are uint16_t: with at most 2^16 slots the casts lose nothing.
ASSUME SizeAssumption == MAX_TASK_NUM \in Nat /\ MAX_TASK_NUM >= 2 /\ MAX_TASK_NUM <= 65536

VARIABLES read_idx, write_idx, task_node,        \* the members of CTaskList
          push_pc, push_task, push_next, push_ret,   \* the producer, in push
          pop_pc, pop_task, pop_ret                  \* the consumer, in pop

pushVars == <<push_pc, push_task, push_next, push_ret>>
popVars == <<pop_pc, pop_task, pop_ret>>
vars == <<read_idx, write_idx, task_node, pushVars, popVars>>

Idx == 0 .. MAX_TASK_NUM - 1

\* Mutant of NextIdx: the index never wraps.
NextIdxNoWrap(i) == i + 1

NextIdx(i) == (i + 1) % MAX_TASK_NUM

Init ==
    /\ read_idx = 0
    /\ write_idx = 0
    /\ task_node = [i \in Idx |-> NULL]
    /\ push_pc = "idle"
    /\ push_task = NULL
    /\ push_next = 0
    /\ push_ret = "none"
    /\ pop_pc = "idle"
    /\ pop_task = NULL
    /\ pop_ret = NULL

(***************************************************************************)
(* The producer.                                                           *)
(***************************************************************************)
PushCall(t) ==
    /\ push_pc = "idle"
    /\ push_pc' = "check"
    /\ push_task' = t
    /\ push_ret' = "none"
    /\ UNCHANGED <<read_idx, write_idx, task_node, push_next, popVars>>

\* Mutant of PushCheck: push does not look for a full ring.
PushCheckBlind ==
    /\ push_pc = "check"
    /\ push_next' = NextIdx(write_idx)
    /\ push_pc' = "store"
    /\ UNCHANGED <<read_idx, write_idx, task_node, push_task, push_ret, popVars>>

\* Reads read_idx_: the ring is full when the next index would meet it.
PushCheck ==
    /\ push_pc = "check"
    /\ push_next' = NextIdx(write_idx)
    /\ IF push_next' = read_idx
         THEN push_pc' = "idle" /\ push_ret' = "false"
         ELSE push_pc' = "store" /\ UNCHANGED push_ret
    /\ UNCHANGED <<read_idx, write_idx, task_node, push_task, popVars>>

\* Mutant of PushStore: the index is stored before the task.
PushStorePublishes ==
    /\ push_pc = "store"
    /\ write_idx' = push_next
    /\ push_pc' = "publish"
    /\ UNCHANGED <<read_idx, task_node, push_task, push_next, push_ret, popVars>>

PushStore ==
    /\ push_pc = "store"
    /\ task_node' = [task_node EXCEPT ![write_idx] = push_task]
    /\ push_pc' = "publish"
    /\ UNCHANGED <<read_idx, write_idx, push_task, push_next, push_ret, popVars>>

PushPublish ==
    /\ push_pc = "publish"
    /\ write_idx' = push_next
    /\ push_pc' = "idle"
    /\ push_ret' = "true"
    /\ UNCHANGED <<read_idx, task_node, push_task, push_next, popVars>>

(***************************************************************************)
(* The consumer.                                                           *)
(***************************************************************************)
\* Mutant of PopCheck: the ring counts as empty with one task in it.
PopCheckEarly ==
    /\ pop_pc = "idle"
    /\ IF write_idx = read_idx \/ write_idx = NextIdx(read_idx)
         THEN pop_ret' = NULL /\ UNCHANGED pop_pc
         ELSE pop_pc' = "load" /\ UNCHANGED pop_ret
    /\ UNCHANGED <<read_idx, write_idx, task_node, pop_task, pushVars>>

\* Reads write_idx_: the ring is empty when the two indices meet.
PopCheck ==
    /\ pop_pc = "idle"
    /\ IF write_idx = read_idx
         THEN pop_ret' = NULL /\ UNCHANGED pop_pc
         ELSE pop_pc' = "load" /\ UNCHANGED pop_ret
    /\ UNCHANGED <<read_idx, write_idx, task_node, pop_task, pushVars>>

PopLoad ==
    /\ pop_pc = "load"
    /\ pop_task' = task_node[read_idx]
    /\ pop_pc' = "advance"
    /\ UNCHANGED <<read_idx, write_idx, task_node, pop_ret, pushVars>>

\* The slot keeps its pointer: nothing clears task_node_.
PopAdvance ==
    /\ pop_pc = "advance"
    /\ read_idx' = NextIdx(read_idx)
    /\ pop_ret' = pop_task
    /\ pop_pc' = "idle"
    /\ UNCHANGED <<write_idx, task_node, pop_task, pushVars>>

Push == PushCheck \/ PushStore \/ PushPublish
Pop == PopCheck \/ PopLoad \/ PopAdvance

Next == (\E t \in Task : PushCall(t)) \/ Push \/ Pop

Spec == Init /\ [][Next]_vars

\* A push that was called runs on; the worker's loop (MysqlThread.cpp:73-81) and
\* processReplyTask keep polling.  No call of push is ever forced.
FairSpec == Spec /\ WF_vars(Push) /\ WF_vars(Pop)

(***************************************************************************)
(* What the ring holds, read off the slots and the indices.                *)
(***************************************************************************)
Count == IF read_idx <= write_idx THEN write_idx - read_idx
                                  ELSE write_idx + MAX_TASK_NUM - read_idx

\* The slot of the k-th oldest task.
SlotOf(k) == IF read_idx + k - 1 < MAX_TASK_NUM THEN read_idx + k - 1
                                             ELSE read_idx + k - 1 - MAX_TASK_NUM

Contents == [k \in 1 .. Count |-> task_node[SlotOf(k)]]

Fifo == INSTANCE BoundedFifo WITH
          Capacity <- MAX_TASK_NUM - 1,
          queue <- Contents,
          offered <- IF push_pc = "idle" THEN NULL ELSE push_task

(***************************************************************************)
(* Properties.                                                             *)
(***************************************************************************)

\* The values the members of CTaskList and the locals of push and pop range over.
TypeOK ==
    /\ read_idx \in Idx
    /\ write_idx \in Idx
    /\ task_node \in [Idx -> Task \cup {NULL}]
    /\ push_pc \in {"idle", "check", "store", "publish"}
    /\ push_task \in Task \cup {NULL}
    /\ push_next \in Idx
    /\ push_ret \in {"none", "true", "false"}
    /\ pop_pc \in {"idle", "load", "advance"}
    /\ pop_task \in Task \cup {NULL}
    /\ pop_ret \in Task \cup {NULL}

\* Between the full check of push and its two stores the consumer only makes room:
\* the slot about to be stored to is still free when the store happens.
PushOwnsSlot ==
    push_pc \in {"store", "publish"} =>
        /\ push_next = NextIdx(write_idx)
        /\ push_next # read_idx
        /\ push_task \in Task
        /\ push_pc = "publish" => task_node[write_idx] = push_task

\* Between the empty check of pop and its store of read_idx_ the producer never
\* overwrites the slot being read, and the slot holds a task.
PopOwnsSlot ==
    pop_pc # "idle" =>
        /\ read_idx # write_idx
        /\ pop_pc = "advance" => pop_task = task_node[read_idx]

\* Every slot between the two indices holds a task that was pushed: pop never hands
\* out a null or stale pointer.
LiveSlotsFilled == \A k \in 1 .. Count : task_node[SlotOf(k)] \in Task

\* Neither thread disturbs the slot the other one is working on.
SlotSafety ==
    /\ push_pc = "check" => push_task \in Task
    /\ PushOwnsSlot
    /\ PopOwnsSlot
    /\ LiveSlotsFilled

\* The lock-free ring implements the bounded queue: the order is kept, no task is
\* lost or handed out twice, push fails only on a full ring, pop only on an empty one.
RefinesFifo == Fifo!Spec

\* With both threads scheduled, what was accepted is taken and every push returns.
TakesAndReturns == Fifo!Fairness
=============================================================================
