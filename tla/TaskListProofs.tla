--------------------------- MODULE TaskListProofs ---------------------------
(***************************************************************************)
(* Proofs about CTaskList for every ring size and every set of tasks: the  *)
(* slots are never disturbed, and the ring implements BoundedFifo.         *)
(***************************************************************************)
EXTENDS TaskList, TLAPS, SequenceTheorems

-----------------------------------------------------------------------------
(* Arithmetic of the ring. *)

\* What the proofs use of the ring size: its upper bound, the width of the index
\* members, plays no part in them.
LEMMA SizeFacts == MAX_TASK_NUM \in Nat /\ MAX_TASK_NUM >= 2
  BY SizeAssumption

\* A number below the modulus is its own remainder.
LEMMA ModSmall == ASSUME NEW a \in Nat, NEW b \in Nat, a < b
                  PROVE  a % b = a
  OBVIOUS

\* NextIdx, by cases: this is the form the provers compute with.
LEMMA NextIdxCases ==
  ASSUME NEW i \in Idx
  PROVE  NextIdx(i) = IF i = MAX_TASK_NUM - 1 THEN 0 ELSE i + 1
<1>1. CASE i = MAX_TASK_NUM - 1
  BY <1>1, SizeFacts DEF NextIdx, Idx
<1>2. CASE i # MAX_TASK_NUM - 1
  <2>1. i + 1 \in Nat /\ MAX_TASK_NUM \in Nat /\ i + 1 < MAX_TASK_NUM
    BY <1>2, SizeFacts DEF Idx
  <2>2. (i + 1) % MAX_TASK_NUM = i + 1
    BY <2>1, ModSmall
  <2>. QED  BY <1>2, <2>2 DEF NextIdx
<1>. QED  BY <1>1, <1>2

\* The successor of an index is an index.
LEMMA NextIdxType == ASSUME NEW i \in Idx PROVE NextIdx(i) \in Idx
  BY NextIdxCases, SizeFacts DEF Idx

\* The ring holds at most MAX_TASK_NUM - 1 tasks, each in a slot of its own range,
\* and none of them in the slot push stores to.
LEMMA SlotFacts ==
  ASSUME read_idx \in Idx, write_idx \in Idx
  PROVE  /\ Count \in 0 .. MAX_TASK_NUM - 1
         /\ \A k \in 1 .. Count : SlotOf(k) \in Idx /\ SlotOf(k) # write_idx
         /\ Count = 0 <=> read_idx = write_idx
         /\ Count = MAX_TASK_NUM - 1 <=> NextIdx(write_idx) = read_idx
         /\ SlotOf(1) = read_idx
         /\ SlotOf(Count + 1) = write_idx
  BY NextIdxCases, SizeFacts DEF Count, SlotOf, Idx

\* Publishing the write index adds one task at the end and moves no other.
LEMMA PublishFacts ==
  ASSUME read_idx \in Idx, write_idx \in Idx,
         write_idx' = NextIdx(write_idx), write_idx' # read_idx, read_idx' = read_idx
  PROVE  /\ Count' = Count + 1
         /\ \A k \in 1 .. Count + 1 : SlotOf(k)' = SlotOf(k)
<1>1. write_idx' = IF write_idx = MAX_TASK_NUM - 1 THEN 0 ELSE write_idx + 1
  BY NextIdxCases
<1>2. Count' = Count + 1
  BY <1>1, SizeFacts DEF Count, Idx
<1>3. \A k \in 1 .. Count + 1 : SlotOf(k)' = SlotOf(k)
  BY DEF SlotOf
<1>. QED  BY <1>2, <1>3

\* Advancing the read index removes the first task and moves no other.
LEMMA AdvanceFacts ==
  ASSUME read_idx \in Idx, write_idx \in Idx, read_idx # write_idx,
         read_idx' = NextIdx(read_idx), write_idx' = write_idx
  PROVE  /\ Count' = Count - 1
         /\ \A k \in 1 .. Count - 1 : SlotOf(k)' = SlotOf(k + 1)
<1>1. read_idx' = IF read_idx = MAX_TASK_NUM - 1 THEN 0 ELSE read_idx + 1
  BY NextIdxCases
<1>2. Count' = Count - 1
  BY <1>1, SizeFacts DEF Count, Idx
<1>3. \A k \in 1 .. Count - 1 : SlotOf(k)' = SlotOf(k + 1)
  BY <1>1, SizeFacts DEF Count, SlotOf, Idx
<1>. QED  BY <1>2, <1>3

-----------------------------------------------------------------------------
(* The inductive invariant. *)

IInv == TypeOK /\ SlotSafety

\* The empty ring satisfies the invariant.
LEMMA InitIInv == Init => IInv
  BY SizeFacts
  DEF Init, IInv, TypeOK, SlotSafety, PushOwnsSlot, PopOwnsSlot, LiveSlotsFilled,
      Count, Idx

\* Every step of push and pop keeps the types; NextIdx stays within the ring.
LEMMA StepTypeOK == IInv /\ [Next]_vars => TypeOK'
<1>. SUFFICES ASSUME IInv, [Next]_vars PROVE TypeOK'
  OBVIOUS
<1>. USE DEF IInv, TypeOK
<1>1. ASSUME NEW t \in Task, PushCall(t) PROVE TypeOK'
  BY <1>1 DEF PushCall, popVars
<1>2. CASE PushCheck
  BY <1>2, NextIdxType DEF PushCheck, popVars
<1>3. CASE PushStore
  BY <1>3 DEF PushStore, popVars
<1>4. CASE PushPublish
  BY <1>4 DEF PushPublish, popVars
<1>5. CASE PopCheck
  BY <1>5 DEF PopCheck, pushVars
<1>6. CASE PopLoad
  BY <1>6 DEF PopLoad, pushVars
<1>7. CASE PopAdvance
  BY <1>7, NextIdxType DEF PopAdvance, pushVars
<1>8. CASE UNCHANGED vars
  BY <1>8 DEF vars, pushVars, popVars
<1>. QED
  BY <1>1, <1>2, <1>3, <1>4, <1>5, <1>6, <1>7, <1>8 DEF Next, Push, Pop

\* Every step of one thread leaves the other thread's slot alone.
LEMMA StepSlotSafety == IInv /\ [Next]_vars => SlotSafety'
<1>. SUFFICES ASSUME IInv, [Next]_vars PROVE SlotSafety'
  OBVIOUS
<1>. USE DEF IInv, TypeOK, SlotSafety
<1>0. SlotSafety' <=> /\ push_pc' = "check" => push_task' \in Task
                      /\ PushOwnsSlot' /\ PopOwnsSlot' /\ LiveSlotsFilled'
  OBVIOUS
<1>1. ASSUME NEW t \in Task, PushCall(t) PROVE SlotSafety'
  BY <1>1 DEF PushCall, popVars, PushOwnsSlot, PopOwnsSlot, LiveSlotsFilled, Count, SlotOf
<1>2. CASE PushCheck
  BY <1>2 DEF PushCheck, popVars, PushOwnsSlot, PopOwnsSlot, LiveSlotsFilled, Count, SlotOf
<1>3. CASE PushStore
  <2>. USE <1>3 DEF PushStore, popVars
  <2>1. PushOwnsSlot' /\ push_pc' # "check"
    BY DEF PushOwnsSlot
  <2>2. PopOwnsSlot'
    BY DEF PopOwnsSlot
  <2>3. LiveSlotsFilled'
    <3>1. Count' = Count /\ \A k \in 1 .. Count : SlotOf(k)' = SlotOf(k)
      BY DEF Count, SlotOf
    <3>2. \A k \in 1 .. Count : task_node'[SlotOf(k)] = task_node[SlotOf(k)]
      BY SlotFacts
    <3>. QED  BY <3>1, <3>2 DEF LiveSlotsFilled
  <2>. QED  BY <1>0, <2>1, <2>2, <2>3
<1>4. CASE PushPublish
  <2>. USE <1>4 DEF PushPublish, popVars
  <2>1. write_idx' = NextIdx(write_idx) /\ write_idx' # read_idx
    BY DEF PushOwnsSlot
  <2>2. PushOwnsSlot' /\ push_pc' # "check"
    BY DEF PushOwnsSlot
  <2>3. PopOwnsSlot'
    BY <2>1 DEF PopOwnsSlot
  <2>4. LiveSlotsFilled'
    <3>1. Count' = Count + 1 /\ \A k \in 1 .. Count + 1 : SlotOf(k)' = SlotOf(k)
      BY <2>1, PublishFacts
    <3>2. \A k \in 1 .. Count + 1 : task_node[SlotOf(k)] \in Task
      <4>1. task_node[SlotOf(Count + 1)] \in Task
        BY SlotFacts DEF PushOwnsSlot
      <4>2. \A k \in 1 .. Count + 1 : k \in 1 .. Count \/ k = Count + 1
        BY SlotFacts, SizeFacts
      <4>. QED  BY <4>1, <4>2 DEF LiveSlotsFilled
    <3>. QED  BY <3>1, <3>2 DEF LiveSlotsFilled
  <2>. QED  BY <1>0, <2>2, <2>3, <2>4
<1>5. CASE PopCheck
  BY <1>5 DEF PopCheck, pushVars, PushOwnsSlot, PopOwnsSlot, LiveSlotsFilled, Count, SlotOf
<1>6. CASE PopLoad
  BY <1>6 DEF PopLoad, pushVars, PushOwnsSlot, PopOwnsSlot, LiveSlotsFilled, Count, SlotOf
<1>7. CASE PopAdvance
  <2>. USE <1>7 DEF PopAdvance, pushVars
  <2>1. read_idx # write_idx
    BY DEF PopOwnsSlot
  <2>2. PushOwnsSlot' /\ (push_pc' = "check" => push_task' \in Task)
    <3>1. push_pc \in {"store", "publish"} => NextIdx(write_idx) # NextIdx(read_idx)
      BY <2>1, NextIdxCases DEF Idx
    <3>. QED  BY <3>1 DEF PushOwnsSlot
  <2>3. PopOwnsSlot'
    BY DEF PopOwnsSlot
  <2>4. LiveSlotsFilled'
    <3>1. Count' = Count - 1 /\ \A k \in 1 .. Count - 1 : SlotOf(k)' = SlotOf(k + 1)
      BY <2>1, AdvanceFacts
    <3>2. \A k \in 1 .. Count - 1 : k + 1 \in 1 .. Count
      BY SlotFacts, SizeFacts
    <3>. QED  BY <3>1, <3>2 DEF LiveSlotsFilled
  <2>. QED  BY <1>0, <2>2, <2>3, <2>4
<1>8. CASE UNCHANGED vars
  BY <1>8 DEF vars, pushVars, popVars, PushOwnsSlot, PopOwnsSlot, LiveSlotsFilled,
     Count, SlotOf
<1>. QED
  BY <1>1, <1>2, <1>3, <1>4, <1>5, <1>6, <1>7, <1>8 DEF Next, Push, Pop

\* The two index checks are enough: whatever the interleaving of push and pop, the
\* members keep their types (the indices stay inside the array).
THEOREM TypeCorrect == Spec => []TypeOK
<1>1. Init => IInv
  BY InitIInv
<1>2. IInv /\ [Next]_vars => IInv'
  BY StepTypeOK, StepSlotSafety DEF IInv
<1>3. IInv => TypeOK
  BY DEF IInv
<1>. QED  BY <1>1, <1>2, <1>3, PTL DEF Spec

\* No interleaving lets push overwrite a slot pop is reading, or pop read a slot
\* push has not filled: the single-producer single-consumer ring needs no lock.
THEOREM SlotsSafe == Spec => []SlotSafety
<1>1. Init => IInv
  BY InitIInv
<1>2. IInv /\ [Next]_vars => IInv'
  BY StepTypeOK, StepSlotSafety DEF IInv
<1>3. IInv => SlotSafety
  BY DEF IInv
<1>. QED  BY <1>1, <1>2, <1>3, PTL DEF Spec

-----------------------------------------------------------------------------
(* Refinement: every step of the ring is a step of the queue, or none. *)

\* A function on 1 .. n with values in S is a sequence of length n.
LEMMA FcnIsSeq ==
  ASSUME NEW S, NEW n \in Nat, NEW f \in [1 .. n -> S]
  PROVE  f \in Seq(S) /\ Len(f) = n
  BY SeqDef

\* In states of the invariant the ring's contents are a sequence of tasks.
LEMMA ContentsSeq ==
  ASSUME IInv
  PROVE  /\ Contents \in Seq(Task)
         /\ Len(Contents) = Count
         /\ Count \in Nat
         /\ Contents = <<>> <=> read_idx = write_idx
         /\ \A k \in 1 .. Count : Contents[k] = task_node[SlotOf(k)]
<1>1. Count \in Nat /\ (Count = 0 <=> read_idx = write_idx)
  BY SlotFacts, SizeFacts DEF IInv, TypeOK
<1>2. Contents \in [1 .. Count -> Task]
  BY <1>1 DEF Contents, IInv, SlotSafety, LiveSlotsFilled
<1>3. Contents \in Seq(Task) /\ Len(Contents) = Count
  BY <1>1, <1>2, FcnIsSeq
<1>4. Contents = <<>> <=> Count = 0
  BY <1>3, EmptySeq
<1>. QED  BY <1>1, <1>3, <1>4 DEF Contents

\* The same of the next state.
ContentsShape ==
    /\ Contents \in Seq(Task)
    /\ Len(Contents) = Count
    /\ \A k \in 1 .. Count : Contents[k] = task_node[SlotOf(k)]

\* The contents are a sequence of tasks after a step, too.
LEMMA ContentsSeqNext == IInv' => ContentsShape'
<1>1. IInv => ContentsShape
  BY ContentsSeq DEF ContentsShape
<1>. QED  BY <1>1, PTL

\* The contents change only with the live slots.
LEMMA ContentsSame ==
  ASSUME Count' = Count,
         \A k \in 1 .. Count : task_node'[SlotOf(k)'] = task_node[SlotOf(k)]
  PROVE  Contents' = Contents
  BY DEF Contents

\* The empty ring is the empty queue.
LEMMA RefineInit == Init => Fifo!Init
<1>. SUFFICES ASSUME Init PROVE Fifo!Init
  OBVIOUS
<1>1. IInv
  BY InitIInv
<1>2. Contents = <<>>
  BY <1>1, ContentsSeq DEF Init
<1>. QED  BY <1>2 DEF Init, Fifo!Init

\* Every step of push and pop is a step of the queue or leaves it as it is.
LEMMA RefineStep == IInv /\ IInv' /\ [Next]_vars => [Fifo!Next]_(Fifo!fifoVars)
<1>. SUFFICES ASSUME IInv, IInv', [Next]_vars PROVE [Fifo!Next]_(Fifo!fifoVars)
  OBVIOUS
<1>0. read_idx \in Idx /\ write_idx \in Idx /\ NULL \notin Task
  BY NullAssumption DEF IInv, TypeOK
<1>1. ASSUME NEW t \in Task, PushCall(t) PROVE Fifo!Offer(t)
  <2>1. Contents' = Contents
    BY <1>1, ContentsSame DEF PushCall, Count, SlotOf
  <2>. QED  BY <1>1, <2>1 DEF PushCall, popVars, Fifo!Offer
<1>2. CASE PushCheck
  <2>1. Contents' = Contents
    BY <1>2, ContentsSame DEF PushCheck, Count, SlotOf
  <2>2. push_task \in Task
    BY <1>2 DEF PushCheck, IInv, SlotSafety
  <2>3. CASE push_next' = read_idx
    <3>1. Len(Contents) = MAX_TASK_NUM - 1
      BY <1>0, <1>2, <2>3, SlotFacts, ContentsSeq DEF PushCheck
    <3>. QED  BY <1>0, <1>2, <2>1, <2>2, <2>3, <3>1 DEF PushCheck, popVars, Fifo!Reject, Fifo!Next
  <2>4. CASE push_next' # read_idx
    BY <1>2, <2>1, <2>4 DEF PushCheck, popVars, Fifo!fifoVars
  <2>. QED  BY <2>3, <2>4 DEF Fifo!Next
<1>3. CASE PushStore
  <2>1. Count' = Count /\ \A k \in 1 .. Count : SlotOf(k)' = SlotOf(k)
    BY <1>3 DEF PushStore, Count, SlotOf
  <2>2. \A k \in 1 .. Count : task_node'[SlotOf(k)] = task_node[SlotOf(k)]
    BY <1>0, <1>3, SlotFacts DEF PushStore, IInv, TypeOK
  <2>3. Contents' = Contents
    BY <2>1, <2>2, ContentsSame
  <2>. QED  BY <1>3, <2>3 DEF PushStore, popVars, Fifo!fifoVars
<1>4. CASE PushPublish
  <2>1. /\ push_task \in Task
        /\ task_node[write_idx] = push_task
        /\ write_idx' = NextIdx(write_idx) /\ write_idx' # read_idx
        /\ read_idx' = read_idx /\ task_node' = task_node
    BY <1>4 DEF PushPublish, IInv, SlotSafety, PushOwnsSlot
  <2>2. Count' = Count + 1 /\ \A k \in 1 .. Count + 1 : SlotOf(k)' = SlotOf(k)
    BY <1>0, <2>1, PublishFacts
  <2>3. Len(Contents) < MAX_TASK_NUM - 1
    BY <1>0, <2>1, SlotFacts, ContentsSeq, SizeFacts
  <2>4. Contents' \in Seq(Task) /\ Len(Contents') = Count + 1
        /\ \A k \in 1 .. Count + 1 : Contents'[k] = task_node[SlotOf(k)]
    <3>1. /\ Contents' \in Seq(Task) /\ Len(Contents') = Count'
          /\ \A k \in 1 .. Count' : Contents'[k] = task_node'[SlotOf(k)']
      BY ContentsSeqNext DEF ContentsShape
    <3>. QED  BY <2>1, <2>2, <3>1
  <2>5. Contents' = Append(Contents, push_task)
    <3>1. /\ Append(Contents, push_task) \in Seq(Task)
          /\ Len(Append(Contents, push_task)) = Count + 1
          /\ \A k \in 1 .. Count + 1 : Append(Contents, push_task)[k] =
                 IF k = Count + 1 THEN push_task ELSE Contents[k]
      BY <2>1, ContentsSeq
    <3>2. \A k \in 1 .. Count + 1 : Contents'[k] = Append(Contents, push_task)[k]
      <4>1. Contents'[Count + 1] = push_task
        BY <1>0, <2>1, <2>4, SlotFacts, ContentsSeq
      <4>2. \A k \in 1 .. Count + 1 : k = Count + 1 \/ k \in 1 .. Count
        BY ContentsSeq
      <4>. QED  BY <2>4, <3>1, <4>1, <4>2, ContentsSeq
    <3>. QED  BY <2>4, <3>1, <3>2, SeqEqual
  <2>. QED
    BY <1>0, <1>4, <2>1, <2>3, <2>5 DEF PushPublish, popVars, Fifo!Accept, Fifo!Next
<1>5. CASE PopCheck
  <2>1. Contents' = Contents
    BY <1>5, ContentsSame DEF PopCheck, Count, SlotOf
  <2>2. CASE write_idx = read_idx
    <3>1. Contents = <<>>
      BY <2>2, ContentsSeq
    <3>. QED  BY <1>5, <2>1, <2>2, <3>1 DEF PopCheck, pushVars, Fifo!Miss, Fifo!Next
  <2>3. CASE write_idx # read_idx
    BY <1>5, <2>1, <2>3 DEF PopCheck, pushVars, Fifo!fifoVars
  <2>. QED  BY <2>2, <2>3
<1>6. CASE PopLoad
  <2>1. Contents' = Contents
    BY <1>6, ContentsSame DEF PopLoad, Count, SlotOf
  <2>. QED  BY <1>6, <2>1 DEF PopLoad, pushVars, Fifo!fifoVars
<1>7. CASE PopAdvance
  <2>1. /\ read_idx # write_idx /\ pop_task = task_node[read_idx]
        /\ read_idx' = NextIdx(read_idx)
        /\ write_idx' = write_idx /\ task_node' = task_node
    BY <1>7 DEF PopAdvance, IInv, SlotSafety, PopOwnsSlot
  <2>2. Count' = Count - 1 /\ \A k \in 1 .. Count - 1 : SlotOf(k)' = SlotOf(k + 1)
    BY <1>0, <2>1, AdvanceFacts
  <2>3. Contents # <<>> /\ Count >= 1
    BY <1>0, <2>1, ContentsSeq, SlotFacts
  <2>4. Head(Contents) = pop_task
    BY <1>0, <2>1, <2>3, ContentsSeq, SlotFacts
  <2>5. Contents' \in Seq(Task) /\ Len(Contents') = Count - 1
        /\ \A k \in 1 .. Count - 1 : Contents'[k] = task_node[SlotOf(k + 1)]
    <3>1. /\ Contents' \in Seq(Task) /\ Len(Contents') = Count'
          /\ \A k \in 1 .. Count' : Contents'[k] = task_node'[SlotOf(k)']
      BY ContentsSeqNext DEF ContentsShape
    <3>. QED  BY <2>1, <2>2, <3>1
  <2>6. Contents' = Tail(Contents)
    <3>1. /\ Tail(Contents) \in Seq(Task)
          /\ Len(Tail(Contents)) = Count - 1
          /\ \A k \in 1 .. Count - 1 : Tail(Contents)[k] = Contents[k + 1]
      BY <2>3, ContentsSeq, HeadTailProperties
    <3>2. \A k \in 1 .. Count - 1 : k + 1 \in 1 .. Count
      BY ContentsSeq
    <3>3. \A k \in 1 .. Count - 1 : Contents'[k] = Tail(Contents)[k]
      BY <2>5, <3>1, <3>2, ContentsSeq
    <3>. QED  BY <2>5, <3>1, <3>3, SeqEqual
  <2>. QED
    BY <1>7, <2>3, <2>4, <2>6 DEF PopAdvance, pushVars, Fifo!Take, Fifo!Next
<1>8. CASE UNCHANGED vars
  <2>1. Contents' = Contents
    BY <1>8, ContentsSame DEF vars, Count, SlotOf
  <2>. QED  BY <1>8, <2>1 DEF vars, pushVars, popVars, Fifo!fifoVars
<1>. QED
  BY <1>1, <1>2, <1>3, <1>4, <1>5, <1>6, <1>7, <1>8 DEF Next, Push, Pop, Fifo!Next

\* The ring is a bounded queue, for every size and every interleaving: what pop
\* returns is what push accepted, in order and once, push refuses a task only when
\* MAX_TASK_NUM - 1 are held, and pop returns nullptr only when none is.
THEOREM ImplementsFifo == Spec => RefinesFifo
<1>1. Init => IInv
  BY InitIInv
<1>2. IInv /\ [Next]_vars => IInv'
  BY StepTypeOK, StepSlotSafety DEF IInv
<1>3. Init => Fifo!Init
  BY RefineInit
<1>4. IInv /\ IInv' /\ [Next]_vars => [Fifo!Next]_(Fifo!fifoVars)
  BY RefineStep
<1>. QED  BY <1>1, <1>2, <1>3, <1>4, PTL DEF Spec, RefinesFifo, Fifo!Spec
=============================================================================
