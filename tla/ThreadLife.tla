----------------------------- MODULE ThreadLife -----------------------------
(***************************************************************************)
(* base::Thread (base/Thread.cpp) and its copy net::Thread (reactor1/): an *)
(* object that starts a POSIX thread and joins it, or detaches it when it  *)
(* is destroyed first.  The thread has its ThreadData for itself and the   *)
(* cell for its tid together with the object, through a weak pointer.      *)
(*                                                                         *)
(* One owner uses the objects, each in an order that the asserts allow.    *)
(* The function of every thread is threadFunc of s00/test1.cpp: an         *)
(* EventLoop (s00/EventLoop.cpp) on the stack, one poll, and the end.      *)
(***************************************************************************)
EXTENDS Naturals

CONSTANT Threads

VARIABLES lib,        \* "base" or "net"
          named,      \* the threads that were given a name
          obj,        \* the Thread object: started_, joined_ and its lifetime
          at,         \* where the thread is
          attr,       \* the POSIX thread: "joinable", "detached" or "released"
          tidRefs,    \* who holds the cell *tid_
          ptid,       \* runInThread: its pointer to that cell, null if FALSE
          tid,        \* what the cell holds: was it written?
          data,       \* the ThreadData: "none", "live" or "deleted"
          t_threadName, \* where the name of the thread points to
          t_loopInThisThread, loop, \* the thread-local pointer, and the loop on the stack
          called,        \* the threads whose function was called
          numCreated_

object == <<lib, named, obj, attr, numCreated_>>
inThread == <<at, ptid, tid, t_threadName, t_loopInThisThread, loop, called>>
lifeVars == <<object, inThread, tidRefs, data>>

each(v) == [t \in Threads |-> v]

LifeInit ==
    /\ lib \in {"base", "net"} /\ named \in SUBSET Threads
    /\ obj = each("none") /\ at = each("none") /\ attr = each("none")
    /\ tidRefs = each({}) /\ ptid = each(FALSE) /\ tid = each(FALSE)
    /\ data = each("none") /\ t_threadName = each("unnamed")
    /\ t_loopInThisThread = each(FALSE) /\ loop = each("none")
    /\ called = {} /\ numCreated_ = 0

aborted == \E t \in Threads : obj[t] = "aborted"
busy == \E t \in Threads : obj[t] = "joining"

becomes(t, o) == obj' = [obj EXCEPT ![t] = o]
reaches(t, p) == at' = [at EXCEPT ![t] = p]

(***************************************************************************)
(* The owner.                                                              *)
(***************************************************************************)
Construct(t) ==
    /\ ~busy /\ obj[t] = "none" /\ becomes(t, "made")
    /\ tidRefs' = [tidRefs EXCEPT ![t] = {"object"}]
    /\ numCreated_' = numCreated_ + 1
    /\ UNCHANGED <<lib, named, attr, inThread, data>>

\* start().  When no thread can be made the process is aborted.
start(t) ==
    /\ ~busy /\ obj[t] = "made"
    /\ \/ /\ becomes(t, "started") /\ reaches(t, "created")
          /\ attr' = [attr EXCEPT ![t] = "joinable"]
          /\ data' = [data EXCEPT ![t] = "live"]
       \/ becomes(t, "aborted") /\ UNCHANGED <<at, attr, data>>
    /\ UNCHANGED <<lib, named, numCreated_, tidRefs, ptid, tid, t_threadName,
                   t_loopInThisThread, loop, called>>

join(t) ==
    /\ ~busy /\ obj[t] = "started" /\ becomes(t, "joining")
    /\ UNCHANGED <<lib, named, attr, numCreated_, inThread, tidRefs, data>>

joinReturns(t) ==
    /\ obj[t] = "joining" /\ at[t] = "ended" /\ becomes(t, "joined")
    /\ attr' = [attr EXCEPT ![t] = "released"]
    /\ UNCHANGED <<lib, named, numCreated_, inThread, tidRefs, data>>

\* Mutant of detaches: no detach once the thread has ended.
detachesRunning(t) == obj[t] = "started" /\ at[t] # "ended"
\* ~Thread lets a thread go that was started and not joined.
detaches(t) == obj[t] = "started"

destroy(t) ==
    /\ ~busy /\ obj[t] \in {"made", "started", "joined"} /\ becomes(t, "gone")
    /\ attr' = IF detaches(t)
               THEN [attr EXCEPT ![t] = IF at[t] = "ended" THEN "released" ELSE "detached"]
               ELSE attr
    /\ tidRefs' = [tidRefs EXCEPT ![t] = @ \ {"object"}]
    /\ UNCHANGED <<lib, named, numCreated_, inThread, data>>

Owner == \E t \in Threads :
    Construct(t) \/ start(t) \/ join(t) \/ joinReturns(t) \/ destroy(t)

(***************************************************************************)
(* The thread: runInThread, then startThread deletes the data.             *)
(***************************************************************************)
\* Mutant of lock: the pointer is looked at and not held.
lockRaw(t) == UNCHANGED tidRefs
\* wkTid_.lock(): while the object is there the thread holds the cell too.
lock(t) == tidRefs' = IF tidRefs[t] = {} THEN tidRefs
                      ELSE [tidRefs EXCEPT ![t] = @ \cup {"thread"}]

LockTid(t) ==
    /\ at[t] = "created" /\ reaches(t, "locked")
    /\ lock(t)
    /\ ptid' = [ptid EXCEPT ![t] = tidRefs[t] # {}]
    /\ UNCHANGED <<object, tid, t_threadName, t_loopInThisThread, loop, called, data>>

WriteTid(t) ==
    /\ at[t] = "locked" /\ reaches(t, "told")
    /\ tid' = [tid EXCEPT ![t] = @ \/ ptid[t]]
    /\ ptid' = [ptid EXCEPT ![t] = FALSE]
    /\ tidRefs' = [tidRefs EXCEPT ![t] = @ \ {"thread"}]
    /\ UNCHANGED <<object, t_threadName, t_loopInThisThread, loop, called, data>>

\* net::Thread calls the function only if there is a name.
calls(t) == lib = "base" \/ t \in named

\* The constructor of the loop; there is no other in this thread.
enterLoop(t) ==
    /\ loop' = [loop EXCEPT ![t] = "live"]
    /\ t_loopInThisThread' = [t_loopInThisThread EXCEPT ![t] = TRUE]

threadFunc(t) == called' = called \cup {t} /\ enterLoop(t)

Call(t) ==
    /\ at[t] = "told"
    /\ IF calls(t) THEN reaches(t, "function") /\ threadFunc(t)
                   ELSE reaches(t, "returned") /\ UNCHANGED <<called, loop, t_loopInThisThread>>
    /\ t_threadName' = [t_threadName EXCEPT ![t] = IF t \in named THEN "data" ELSE @]
    /\ UNCHANGED <<object, ptid, tid, tidRefs, data>>

\* The poll is over: ~EventLoop, and the function returns.
Return(t) ==
    /\ at[t] = "function" /\ reaches(t, "returned")
    /\ loop' = [loop EXCEPT ![t] = "gone"]
    /\ t_loopInThisThread' = [t_loopInThisThread EXCEPT ![t] = FALSE]
    /\ t_threadName' = [t_threadName EXCEPT ![t] = "finished"]
    /\ UNCHANGED <<object, ptid, tid, called, tidRefs, data>>

Delete(t) ==
    /\ at[t] = "returned" /\ reaches(t, "deleted")
    /\ data' = [data EXCEPT ![t] = "deleted"]
    /\ UNCHANGED <<object, ptid, tid, t_threadName, t_loopInThisThread, loop, called, tidRefs>>

End(t) ==
    /\ at[t] = "deleted" /\ reaches(t, "ended")
    /\ attr' = [attr EXCEPT ![t] = IF @ = "detached" THEN "released" ELSE @]
    /\ UNCHANGED <<lib, named, obj, numCreated_, ptid, tid, t_threadName,
                   t_loopInThisThread, loop, called, tidRefs, data>>

Run(t) == /\ ~aborted
          /\ LockTid(t) \/ WriteTid(t) \/ Call(t) \/ Return(t) \/ Delete(t) \/ End(t)

LifeNext == (~aborted /\ Owner) \/ \E t \in Threads : Run(t)

LifeFairness == \A t \in Threads : WF_lifeVars(Run(t)) /\ WF_lifeVars(~aborted /\ joinReturns(t))

LifeSpec == LifeInit /\ [][LifeNext]_lifeVars /\ LifeFairness

(***************************************************************************)
(* Properties.                                                             *)
(***************************************************************************)
\* No thread uses what is gone, whenever the owner destroys its object: it writes its tid
\* only into a cell that is still there; its name, which other code may ask for at any
\* time, never points into deleted data; its loop pointer never to a loop that is gone.
NothingDangles == \A t \in Threads :
    /\ ptid[t] => tidRefs[t] # {}
    /\ t_threadName[t] = "data" => data[t] = "live"
    /\ t_loopInThisThread[t] => loop[t] = "live"

\* A thread that was started and then joined, or left by the destruction of its object,
\* calls its function -- not so an unnamed net::Thread -- and in the end its stack, its
\* data and the cell of its tid are given back, and if the object was joined its tid had
\* been told.
ThreadsFinish == \A t \in Threads :
    (obj[t] \in {"joined", "gone"} /\ at[t] # "none") ~>
        \/ /\ t \in called <=> calls(t)
           /\ attr[t] = "released" /\ data[t] = "deleted"
           /\ tidRefs[t] \subseteq (IF obj[t] = "joined" THEN {"object"} ELSE {})
           /\ obj[t] = "joined" => tid[t]
        \/ aborted
==============================================================================
