----------------------------- MODULE TimerQueue -----------------------------
(***************************************************************************)
(* net::TimerQueue (reactor1/TimerQueue.cpp, Timer.h) with the timerfd it  *)
(* arms and the two clocks it lives between: expirations are wall-clock    *)
(* times (Timestamp::now, gettimeofday), the timerfd counts down on the    *)
(* monotonic clock.  One unit of time is the 100 microseconds that         *)
(* howMuchTimeFromNow never goes below.                                    *)
(*                                                                         *)
(* Timer objects are addresses: `delete' frees one and `new' may return it *)
(* again.  timers_ is ordered by (expiration, address); the address part   *)
(* of the order is the allocator's choice, so it is left open here.        *)
(***************************************************************************)
EXTENDS Integers

CONSTANTS Addr,        \* addresses the allocator hands out for Timer objects
          NoTimer,     \* no callback is running
          MaxTime,     \* bound: the wall clock stands still from here on
          Delays,      \* the delays and intervals the program asks for
          ClockSteps   \* wall-clock values an administrator may set

ASSUME NoTimerAssumption == NoTimer \notin Addr
ASSUME TimeAssumption ==
    /\ MaxTime \in Nat \ {0}
    /\ Delays \subseteq Nat
    /\ ClockSteps \subseteq 1 .. MaxTime

VARIABLES now,          \* the wall clock
          armed, left,  \* timerfd: whether it counts down, and what is left
          readable,     \* timerfd: an expiration has not been read
          live,         \* addresses of the Timer objects that exist
          expiration,   \* Timer::expiration_
          repeat,       \* Timer::repeat_
          interval,     \* Timer::interval_, in whole units
          timers,       \* timers_: pairs <<when, address>>
          expired,      \* handleRead's vector, {} outside handleRead
          ran,          \* the part of it whose callbacks were started
          running,      \* the timer whose callback is running
          handling,     \* handleRead is on the stack
          rnow          \* handleRead's `now'

clockVars == <<now, armed, left, readable>>
heapVars == <<live, expiration, repeat, interval>>
handleVars == <<ran, running, handling, rnow>>
tqVars == <<clockVars, heapVars, timers, expired, handleVars>>

\* Timestamp::valid: Timestamp() and invalid() are zero.
Valid(when) == when > 0

(***************************************************************************)
(* The timerfd.                                                            *)
(***************************************************************************)
\* Mutant of howMuchTimeFromNow: no minimum.
howMuchWithoutMinimum(when) == when - now

howMuchTimeFromNow(when) == IF when - now < 1 THEN 1 ELSE when - now

\* timerfd_settime also forgets an expiration that was not read yet.
resetTimerfd(when) ==
    /\ armed' = TRUE
    /\ left' = howMuchTimeFromNow(when)
    /\ readable' = FALSE
    /\ UNCHANGED now

\* One unit passes on both clocks; the timerfd is one-shot (it_interval is zero).
Elapse ==
    /\ now' = IF now < MaxTime THEN now + 1 ELSE now
    /\ left' = IF armed THEN left - 1 ELSE left
    /\ armed' = (armed /\ left > 1)
    /\ readable' = (readable \/ (armed /\ left = 1))
    /\ UNCHANGED <<heapVars, timers, expired, handleVars>>

\* Somebody sets the wall clock.  The timerfd does not notice.
ClockStep ==
    /\ \E t \in ClockSteps : now' = t
    /\ UNCHANGED <<armed, left, readable, heapVars, timers, expired, handleVars>>

(***************************************************************************)
(* insert and addTimer.                                                    *)
(***************************************************************************)
\* Mutant of earliestChanged: compares with the first entry, and forgets that there may
\* be none.
earliestOfSome(when) == timers # {} /\ \A e \in timers : when < e[1]

\* Mutant of earliestChanged: only the first timer of all arms the timerfd.
earliestOnlyFirst(when) == timers = {}

\* insert's return value, over the list before the insertion.
earliestChanged(when) == \A e \in timers : when < e[1]

\* addTimer(cb, when, ivl) gets address a from the allocator; every loop function
\* that adds a timer ends here.
addTimer(a, when, rep, ivl) ==
    /\ a \notin live
    /\ live' = live \cup {a}
    /\ expiration' = [expiration EXCEPT ![a] = when]
    /\ repeat' = [repeat EXCEPT ![a] = rep]
    /\ interval' = [interval EXCEPT ![a] = ivl]
    /\ timers' = timers \cup {<<when, a>>}
    /\ IF earliestChanged(when) THEN resetTimerfd(when) ELSE UNCHANGED clockVars
    /\ UNCHANGED <<expired, handleVars>>

\* runAt takes any Timestamp: one of the past (zero is the invalid one) or later.
runAt(a) == \E when \in {0} \cup {now + d : d \in Delays} : addTimer(a, when, FALSE, 0)

runAfter(a) == \E d \in Delays : addTimer(a, now + d, FALSE, 0)

\* An interval above zero and below a microsecond repeats with nothing to add.
runEvery(a) == \E d \in Delays : addTimer(a, now + d, TRUE, d)

AddTimer == \E a \in Addr : runAt(a) \/ runAfter(a) \/ runEvery(a)

(***************************************************************************)
(* handleRead: read the timerfd, take what has expired, run the callbacks  *)
(* in order, then reset.                                                   *)
(***************************************************************************)
getExpired(t) == {e \in timers : e[1] <= t}

handleRead ==
    /\ ~handling
    /\ handling' = TRUE
    /\ rnow' = now
    /\ readable' = FALSE
    /\ expired' = getExpired(now)
    /\ timers' = timers \ getExpired(now)
    /\ ran' = {}
    /\ UNCHANGED <<now, armed, left, heapVars, running>>

runCallback ==
    /\ handling
    /\ running = NoTimer
    /\ \E e \in expired \ ran :
         /\ \A f \in expired \ ran : e[1] <= f[1]
         /\ running' = e[2]
         /\ ran' = ran \cup {e}
    /\ UNCHANGED <<clockVars, heapVars, timers, expired, handling, rnow>>

callbackReturns ==
    /\ running # NoTimer
    /\ running' = NoTimer
    /\ UNCHANGED <<clockVars, heapVars, timers, expired, ran, handling, rnow>>

\* Mutant of restarted: one-shot timers are put back before they are deleted.
restartedAll == {<<rnow + interval[e[2]], e[2]>> : e \in expired}

\* The entries restart(now) and insert put back.
restarted == {<<rnow + interval[e[2]], e[2]>> : e \in {f \in expired : repeat[f[2]]}}

\* Mutant of armForFirst: reset does not arm the timerfd again.
armForNone(list) == UNCHANGED clockVars

\* Arms the timerfd for the first entry of list, unless there is none or its time is
\* not a valid Timestamp.
armForFirst(list) ==
    \/ /\ list = {}
       /\ UNCHANGED clockVars
    \/ \E e \in list :
         /\ \A f \in list : e[1] <= f[1]
         /\ IF Valid(e[1]) THEN resetTimerfd(e[1]) ELSE UNCHANGED clockVars

reset ==
    /\ handling
    /\ running = NoTimer
    /\ ran = expired
    /\ timers' = timers \cup restarted
    /\ live' = live \ {e[2] : e \in {f \in expired : ~repeat[f[2]]}}
    /\ expiration' = [a \in Addr |-> IF \E r \in restarted : r[2] = a
                                       THEN rnow + interval[a] ELSE expiration[a]]
    /\ armForFirst(timers')
    /\ expired' = {}
    /\ ran' = {}
    /\ handling' = FALSE
    /\ UNCHANGED <<repeat, interval, running, rnow>>

\* ~TimerQueue deletes what timers_ points to.
timerqueueDtor ==
    /\ ~handling
    /\ live' = live \ {e[2] : e \in timers}
    /\ timers' = {}
    /\ armed' = FALSE
    /\ readable' = FALSE
    /\ UNCHANGED <<now, left, expiration, repeat, interval, expired, handleVars>>

(***************************************************************************)
(* The queue by itself: its user adds timers outside handleRead or from a  *)
(* timer's callback, and calls handleRead only when the timerfd is         *)
(* readable.                                                               *)
(***************************************************************************)
TQInit ==
    /\ now \in 1 .. MaxTime
    /\ armed = FALSE
    /\ left = 0
    /\ readable = FALSE
    /\ live = {}
    /\ expiration = [a \in Addr |-> 0]
    /\ repeat = [a \in Addr |-> FALSE]
    /\ interval = [a \in Addr |-> 0]
    /\ timers = {}
    /\ expired = {}
    /\ ran = {}
    /\ running = NoTimer
    /\ handling = FALSE
    /\ rnow = 1

userMayCall == ~handling \/ running # NoTimer

TQNext ==
    \/ Elapse
    \/ ClockStep
    \/ userMayCall /\ AddTimer
    \/ readable /\ handleRead
    \/ runCallback
    \/ callbackReturns
    \/ reset
    \/ timerqueueDtor

TQSpec == TQInit /\ [][TQNext]_tqVars

(***************************************************************************)
(* Properties.                                                             *)
(***************************************************************************)
TQTypeOK ==
    /\ now \in 1 .. MaxTime
    /\ armed \in BOOLEAN
    /\ left \in Nat
    /\ readable \in BOOLEAN
    /\ live \subseteq Addr
    /\ expiration \in [Addr -> Nat]
    /\ repeat \in [Addr -> BOOLEAN]
    /\ interval \in [Addr -> Nat]
    /\ timers \subseteq Nat \X Addr
    /\ expired \subseteq Nat \X Addr
    /\ ran \subseteq expired
    /\ running \in Addr \cup {NoTimer}
    /\ handling \in BOOLEAN
    /\ rnow \in 1 .. MaxTime

\* Every Timer that exists is owned by exactly one entry, of timers_ or of the vector
\* being handled, and an entry's key is its timer's expiration: no pointer dangles,
\* nothing leaks, and assert(result.second) of insert (TimerQueue.cpp:155) holds.
TimersOwned ==
    /\ \A a \in live : \E e \in timers \cup expired : e[2] = a
    /\ \A e \in timers \cup expired : e[2] \in live /\ e[1] = expiration[e[2]]
    /\ timers \cap expired = {}
    /\ ~handling => expired = {}

\* Outside handleRead a pending timer is always going to be noticed: the timerfd is
\* readable or counting down, and, while nobody sets the wall clock, it counts down to
\* the first expiration or to the 100 microsecond minimum.  Inside handleRead only an
\* entry with an invalid time, which reset does not arm for, has to be covered.
TimerfdCovers ==
    LET NeedsCover(e) == ~handling \/ ~Valid(e[1])
        InTime(e) == left <= 1 \/ now + left <= e[1]
    IN  \A e \in timers : NeedsCover(e) =>
          \/ readable
          \/ armed /\ left > 0 /\ (ClockSteps = {} => InTime(e))
=============================================================================
