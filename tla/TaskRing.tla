------------------------------ MODULE TaskRing ------------------------------
(***************************************************************************)
(* A CTaskList as its users see it: push and pop are single steps, which   *)
(* module TaskList justifies, and the destructor deletes every slot.       *)
(*                                                                         *)
(* A ring is the pointers its slots hold, oldest first, of which the last  *)
(* `held' are still to be popped: pop leaves the pointer in its slot, and  *)
(* the next lap of push overwrites it.                                     *)
(***************************************************************************)
EXTENDS Naturals, Sequences, SequencesExt

CONSTANTS MAX_TASK_NUM   \* slots of a ring

\* One slot is always free, so that a ring with one slot could hold nothing.
ASSUME RingAssumption == MAX_TASK_NUM \in Nat \ {0, 1}

EmptyRing == [slots |-> <<>>, held |-> 0]

queued(r) == SubSeq(r.slots, Len(r.slots) - r.held + 1, Len(r.slots))

\* Mutant of isFull: one slot too early.
isFullEarly(r) == r.held >= MAX_TASK_NUM - 2

isFull(r) == r.held = MAX_TASK_NUM - 1

\* Mutant of pushed: the write index does not wrap.
pushedBeyond(r, t) == [slots |-> Append(r.slots, t), held |-> r.held + 1]

pushed(r, t) ==
    [slots |-> Append(IF Len(r.slots) = MAX_TASK_NUM THEN Tail(r.slots) ELSE r.slots, t),
     held  |-> r.held + 1]

popped(r) == [r EXCEPT !.held = @ - 1]
=============================================================================
