--------------------------- MODULE ReactorProofs ---------------------------
(***************************************************************************)
(* Proofs about net::TimerQueue for every set of timers, every delay and   *)
(* every way the wall clock is set: no timer is lost, leaked or used after *)
(* it was deleted, and none is forgotten by the timerfd.                   *)
(*                                                                         *)
(* Then about net::EventLoop with its Poller and this TimerQueue, for any  *)
(* set of channels: the registry of the poller stays consistent, and the   *)
(* loop uses its TimerQueue as the queue demands, which brings the queue's *)
(* theorems to the loop.                                                   *)
(*                                                                         *)
(* Last about the threads a loop can run in, for any number of them:       *)
(* nothing that is gone is used, whenever the owner destroys its object.   *)
(***************************************************************************)
EXTENDS EventLoop, ThreadLife, SequenceLemmas, FiniteSetTheorems

\* What else holds between the steps: a countdown is positive, and callbacks run only
\* inside handleRead.
Aux ==
    /\ armed => left > 0
    /\ running # NoTimer => handling
    /\ ~handling => expired = {} /\ ran = {}

IInv == TQTypeOK /\ Aux /\ TimersOwned /\ TimerfdCovers

\* Two entries for one timer are the same entry.
LEMMA OneEntry ==
  ASSUME TimersOwned, TQTypeOK,
         NEW e \in timers \cup expired, NEW f \in timers \cup expired, e[2] = f[2]
  PROVE  e = f
<1>1. e[1] = f[1]
  BY DEF TimersOwned
<1>2. e \in Nat \X Addr /\ f \in Nat \X Addr
  BY DEF TQTypeOK
<1>. QED  BY <1>1, <1>2

\* The time to arm for is never zero: timerfd_settime would disarm the timerfd.
LEMMA HowMuchPositive ==
  ASSUME now \in Nat, NEW when \in Nat
  PROVE  /\ howMuchTimeFromNow(when) \in Nat
         /\ howMuchTimeFromNow(when) > 0
         /\ \/ howMuchTimeFromNow(when) = 1
            \/ now + howMuchTimeFromNow(when) = when
  BY DEF howMuchTimeFromNow

\* The queue without timers satisfies the invariant.
LEMMA InitIInv == TQInit => IInv
<1>. SUFFICES ASSUME TQInit PROVE IInv
  OBVIOUS
<1>1. TQTypeOK
  <2>1. repeat \in [Addr -> BOOLEAN] /\ armed \in BOOLEAN /\ readable \in BOOLEAN
        /\ handling \in BOOLEAN
    BY Zenon DEF TQInit
  <2>2. interval \in [Addr -> Nat] /\ expiration \in [Addr -> Nat]
    BY DEF TQInit
  <2>. QED  BY <2>1, <2>2, TimeAssumption DEF TQInit, TQTypeOK
<1>. QED
  BY <1>1 DEF TQInit, IInv, Aux, TimersOwned, TimerfdCovers

-----------------------------------------------------------------------------
(* addTimer *)

\* An addTimer call, by whichever of the loop's functions, in terms of its arguments.
LEMMA AddTimerShape ==
  ASSUME TQTypeOK, AddTimer
  PROVE  \E a \in Addr : \E when \in Nat : \E rep \in BOOLEAN : \E ivl \in Nat :
            addTimer(a, when, rep, ivl)
<1>1. PICK a \in Addr : runAt(a) \/ runAfter(a) \/ runEvery(a)
  BY DEF AddTimer
<1>2. now \in Nat /\ Delays \subseteq Nat
  BY TimeAssumption DEF TQTypeOK
<1>3. CASE runAt(a)
  <2>1. PICK when \in {0} \cup {now + d : d \in Delays} : addTimer(a, when, FALSE, 0)
    BY <1>3 DEF runAt
  <2>2. when \in Nat
    BY <1>2
  <2>. QED  BY <2>1, <2>2
<1>4. CASE runAfter(a)
  <2>1. PICK d \in Delays : addTimer(a, now + d, FALSE, 0)
    BY <1>4 DEF runAfter
  <2>2. now + d \in Nat /\ 0 \in Nat /\ FALSE \in BOOLEAN
    BY <1>2
  <2>. QED  BY <2>1, <2>2, Zenon
<1>5. CASE runEvery(a)
  <2>1. PICK d \in Delays : addTimer(a, now + d, TRUE, d)
    BY <1>5 DEF runEvery
  <2>2. now + d \in Nat /\ d \in Nat /\ TRUE \in BOOLEAN
    BY <1>2
  <2>. QED  BY <2>1, <2>2, Zenon
<1>. QED  BY <1>1, <1>3, <1>4, <1>5

\* addTimer: the new timer has one entry and the timerfd covers it.
LEMMA AddTimerStep ==
  ASSUME IInv, userMayCall,
         NEW a \in Addr, NEW when \in Nat, NEW rep \in BOOLEAN, NEW ivl \in Nat,
         addTimer(a, when, rep, ivl)
  PROVE  IInv'
<1>. USE DEF IInv
<1>0. /\ a \notin live
      /\ live' = live \cup {a}
      /\ expiration' = [expiration EXCEPT ![a] = when]
      /\ repeat' = [repeat EXCEPT ![a] = rep]
      /\ interval' = [interval EXCEPT ![a] = ivl]
      /\ timers' = timers \cup {<<when, a>>}
      /\ expired' = expired /\ ran' = ran /\ running' = running
      /\ handling' = handling /\ rnow' = rnow /\ now' = now
  BY DEF addTimer, handleVars, resetTimerfd, clockVars
<1>1. \/ earliestChanged(when) /\ resetTimerfd(when)
      \/ ~earliestChanged(when) /\ armed' = armed /\ left' = left /\ readable' = readable
  BY DEF addTimer, clockVars
<1>2. now \in Nat
  BY DEF TQTypeOK
<1>3. armed' \in BOOLEAN /\ left' \in Nat /\ readable' \in BOOLEAN /\ (armed' => left' > 0)
  <2>1. CASE earliestChanged(when) /\ resetTimerfd(when)
    <3>1. armed' = TRUE /\ readable' = FALSE /\ left' = howMuchTimeFromNow(when)
      BY <2>1 DEF resetTimerfd
    <3>2. left' \in Nat /\ left' > 0
      BY <1>2, <3>1, HowMuchPositive
    <3>. QED  BY <3>1, <3>2, Zenon
  <2>2. CASE armed' = armed /\ left' = left /\ readable' = readable
    BY <2>2 DEF TQTypeOK, Aux
  <2>. QED  BY <1>1, <2>1, <2>2, Zenon
<1>4. TQTypeOK'
  BY <1>0, <1>3 DEF TQTypeOK
<1>5. Aux'
  BY <1>0, <1>3 DEF Aux
<1>6. TimersOwned'
  <2>1. \A e \in timers \cup expired : e[2] # a /\ expiration'[e[2]] = expiration[e[2]]
    BY <1>0 DEF TimersOwned, TQTypeOK
  <2>2. expiration'[a] = when
    BY <1>0 DEF TQTypeOK
  <2>3. <<when, a>> \notin expired
    BY <2>1
  <2>. QED  BY <1>0, <2>1, <2>2, <2>3 DEF TimersOwned
<1>7. TimerfdCovers'
  <2>. SUFFICES ASSUME NEW e \in timers', ~handling \/ ~Valid(e[1])
                PROVE  \/ readable'
                       \/ /\ armed' /\ left' > 0
                          /\ ClockSteps = {} => left' <= 1 \/ now + left' <= e[1]
    BY <1>0 DEF TimerfdCovers
  <2>0. e[1] \in Nat
    BY <1>0 DEF TQTypeOK
  <2>1. CASE earliestChanged(when)
    <3>1. when <= e[1]
      BY <1>0, <1>2, <2>1 DEF earliestChanged, TQTypeOK
    <3>2. armed' = TRUE /\ left' = howMuchTimeFromNow(when)
      BY <1>1, <2>1 DEF resetTimerfd
    <3>. QED  BY <1>2, <2>0, <3>1, <3>2, HowMuchPositive
  <2>2. CASE ~earliestChanged(when)
    <3>1. PICK f \in timers : f[1] <= when
      BY <2>2 DEF earliestChanged, TQTypeOK
    <3>2. \E g \in timers : g[1] <= e[1] /\ (~handling \/ ~Valid(g[1]))
      <4>1. CASE e \in timers
        BY <2>0, <4>1
      <4>2. CASE e = <<when, a>>
        BY <3>1, <4>2 DEF Valid, TQTypeOK
      <4>. QED  BY <1>0, <4>1, <4>2
    <3>3. PICK g \in timers : g[1] <= e[1] /\ (~handling \/ ~Valid(g[1]))
      BY <3>2
    <3>4. \/ readable
          \/ /\ armed /\ left > 0
             /\ ClockSteps = {} => left <= 1 \/ now + left <= g[1]
      BY <3>3 DEF TimerfdCovers
    <3>5. g[1] \in Nat /\ left \in Nat
      BY DEF TQTypeOK
    <3>. QED  BY <1>1, <1>2, <2>0, <2>2, <3>3, <3>4, <3>5
  <2>. QED  BY <2>1, <2>2
<1>. QED  BY <1>4, <1>5, <1>6, <1>7

-----------------------------------------------------------------------------
(* Time. *)

\* Time passes: a countdown that ends leaves the timerfd readable.
LEMMA ElapseStep == ASSUME IInv, Elapse PROVE IInv'
<1>. USE DEF IInv, Elapse, heapVars, handleVars
<1>1. /\ now \in Nat /\ now' \in 1 .. MaxTime /\ (now' = now \/ now' = now + 1)
  BY TimeAssumption DEF TQTypeOK
<1>2. CASE armed
  <2>1. left \in Nat /\ left > 0 /\ left' = left - 1
    BY <1>2 DEF TQTypeOK, Aux
  <2>2. armed' <=> left > 1
    BY <1>2
  <2>3. readable' <=> (readable \/ left = 1)
    BY <1>2
  <2>4. TQTypeOK'
    <3>1. armed' \in BOOLEAN /\ readable' \in BOOLEAN
      BY Zenon
    <3>. QED  BY <1>1, <2>1, <3>1 DEF TQTypeOK
  <2>5. Aux'
    BY <2>1, <2>2 DEF Aux
  <2>6. TimersOwned'
    BY DEF TimersOwned
  <2>7. TimerfdCovers'
    <3>1. \A e \in timers : e[1] \in Nat
      BY DEF TQTypeOK
    <3>. QED
      BY <1>1, <1>2, <2>1, <2>2, <2>3, <3>1 DEF TimerfdCovers
  <2>. QED  BY <2>4, <2>5, <2>6, <2>7
<1>3. CASE ~armed
  <2>1. left' = left /\ ~armed' /\ (readable' <=> readable)
    BY <1>3
  <2>2. TQTypeOK'
    <3>1. armed' \in BOOLEAN /\ readable' \in BOOLEAN
      BY Zenon
    <3>. QED  BY <1>1, <2>1, <3>1 DEF TQTypeOK
  <2>3. Aux' /\ TimersOwned'
    BY <2>1 DEF Aux, TimersOwned
  <2>4. TimerfdCovers'
    BY <1>3, <2>1 DEF TimerfdCovers
  <2>. QED  BY <2>2, <2>3, <2>4
<1>. QED  BY <1>2, <1>3

\* Setting the wall clock changes no countdown.
LEMMA ClockStepStep == ASSUME IInv, ClockStep PROVE IInv'
<1>. USE DEF IInv, ClockStep, heapVars, handleVars
<1>1. now' \in 1 .. MaxTime /\ ClockSteps # {}
  BY TimeAssumption
<1>2. TQTypeOK'
  BY <1>1 DEF TQTypeOK
<1>3. Aux' /\ TimersOwned'
  BY DEF Aux, TimersOwned
<1>4. TimerfdCovers'
  BY <1>1 DEF TimerfdCovers
<1>. QED  BY <1>2, <1>3, <1>4

-----------------------------------------------------------------------------
(* handleRead and its parts. *)

\* The expired entries move from the list to the vector.
LEMMA HandleReadStep == ASSUME IInv, handleRead PROVE IInv'
<1>. USE DEF IInv, handleRead, heapVars
<1>0. now \in Nat /\ now >= 1 /\ expired = {} /\ running = NoTimer
  BY DEF TQTypeOK, Aux
<1>1. timers' \cup expired' = timers \cup expired /\ timers' \cap expired' = {}
      /\ timers' \subseteq timers /\ expired' \subseteq timers
  BY <1>0 DEF getExpired
<1>2. TQTypeOK'
  BY <1>1 DEF TQTypeOK
<1>3. Aux'
  BY <1>0 DEF Aux
<1>4. TimersOwned'
  BY <1>1 DEF TimersOwned
<1>5. TimerfdCovers'
  <2>1. \A e \in timers' : e[1] \in Nat /\ e[1] > now
    BY <1>0 DEF getExpired, TQTypeOK
  <2>2. \A e \in timers' : Valid(e[1])
    BY <1>0, <2>1 DEF Valid
  <2>. QED  BY <2>2 DEF TimerfdCovers
<1>. QED  BY <1>2, <1>3, <1>4, <1>5

\* A callback begins.
LEMMA RunCallbackStep == ASSUME IInv, runCallback PROVE IInv'
<1>. USE DEF IInv, runCallback, clockVars, heapVars
<1>1. PICK e \in expired \ ran : running' = e[2] /\ ran' = ran \cup {e}
  BY DEF runCallback
<1>2. TQTypeOK'
  BY <1>1 DEF TQTypeOK
<1>3. Aux'
  BY DEF Aux
<1>4. TimersOwned' /\ TimerfdCovers'
  BY DEF TimersOwned, TimerfdCovers
<1>. QED  BY <1>2, <1>3, <1>4

\* A callback ends.
LEMMA CallbackReturnsStep == ASSUME IInv, callbackReturns PROVE IInv'
<1>. USE DEF IInv, callbackReturns, clockVars, heapVars
<1>1. TQTypeOK'
  BY DEF TQTypeOK
<1>2. Aux'
  BY DEF Aux
<1>3. TimersOwned' /\ TimerfdCovers'
  BY DEF TimersOwned, TimerfdCovers
<1>. QED  BY <1>1, <1>2, <1>3

\* The destructor deletes every timer that is left.
LEMMA DtorStep == ASSUME IInv, timerqueueDtor PROVE IInv'
<1>. USE DEF IInv, timerqueueDtor, handleVars
<1>0. expired = {} /\ ran = {}
  BY DEF Aux
<1>1. TQTypeOK'
  BY DEF TQTypeOK
<1>2. Aux'
  BY <1>0 DEF Aux
<1>3. TimersOwned'
  BY <1>0 DEF TimersOwned
<1>4. TimerfdCovers'
  BY DEF TimerfdCovers
<1>. QED  BY <1>1, <1>2, <1>3, <1>4

-----------------------------------------------------------------------------
(* reset *)

\* armForFirst leaves the timerfd covering every entry of the list it was given, when
\* the entries with an invalid time were covered before.
LEMMA ArmForFirstCovers ==
  ASSUME TQTypeOK, Aux, NEW list \in SUBSET (Nat \X Addr), armForFirst(list),
         \A e \in list : ~Valid(e[1]) =>
            readable \/ (armed /\ left > 0 /\ (ClockSteps = {} => left <= 1))
  PROVE  /\ armed' \in BOOLEAN /\ left' \in Nat /\ readable' \in BOOLEAN /\ now' = now
         /\ armed' => left' > 0
         /\ \A e \in list :
              \/ readable'
              \/ /\ armed' /\ left' > 0
                 /\ ClockSteps = {} => left' <= 1 \/ now + left' <= e[1]
<1>1. now \in Nat
  BY DEF TQTypeOK
<1>2. CASE list = {} /\ UNCHANGED clockVars
  <2>1. armed' = armed /\ left' = left /\ readable' = readable /\ now' = now
    BY <1>2 DEF clockVars
  <2>. QED  BY <1>2, <2>1 DEF TQTypeOK, Aux
<1>3. ASSUME NEW e \in list, \A f \in list : e[1] <= f[1],
             IF Valid(e[1]) THEN resetTimerfd(e[1]) ELSE UNCHANGED clockVars
      PROVE  /\ armed' \in BOOLEAN /\ left' \in Nat /\ readable' \in BOOLEAN /\ now' = now
             /\ armed' => left' > 0
             /\ \A f \in list :
                  \/ readable'
                  \/ /\ armed' /\ left' > 0
                     /\ ClockSteps = {} => left' <= 1 \/ now + left' <= f[1]
  <2>1. CASE Valid(e[1])
    <3>1. armed' = TRUE /\ left' = howMuchTimeFromNow(e[1]) /\ readable' = FALSE /\ now' = now
      BY <1>3, <2>1 DEF resetTimerfd
    <3>2. left' \in Nat /\ left' > 0 /\ (left' = 1 \/ now + left' = e[1])
      BY <1>1, <3>1, HowMuchPositive
    <3>3. \A f \in list : left' <= 1 \/ now + left' <= f[1]
      BY <1>1, <1>3, <3>2
    <3>4. armed' \in BOOLEAN /\ readable' \in BOOLEAN
      BY <3>1, Zenon
    <3>. QED  BY <3>1, <3>2, <3>3, <3>4
  <2>2. CASE ~Valid(e[1])
    <3>1. armed' = armed /\ left' = left /\ readable' = readable /\ now' = now
      BY <1>3, <2>2 DEF clockVars
    <3>2. readable \/ (armed /\ left > 0 /\ (ClockSteps = {} => left <= 1))
      BY <2>2
    <3>. QED  BY <3>1, <3>2 DEF TQTypeOK, Aux
  <2>. QED  BY <2>1, <2>2
<1>. QED  BY <1>2, <1>3 DEF armForFirst

\* reset: repeating timers are put back, the others deleted, the timerfd armed.
LEMMA ResetStep == ASSUME IInv, reset PROVE IInv'
<1>. USE DEF IInv
<1>0. /\ handling /\ running = NoTimer
      /\ timers' = timers \cup restarted
      /\ live' = live \ {e[2] : e \in {f \in expired : ~repeat[f[2]]}}
      /\ expiration' = [a \in Addr |-> IF \E r \in restarted : r[2] = a
                                         THEN rnow + interval[a] ELSE expiration[a]]
      /\ armForFirst(timers')
      /\ expired' = {} /\ ran' = {} /\ handling' = FALSE
      /\ repeat' = repeat /\ interval' = interval /\ running' = running /\ rnow' = rnow
  BY DEF reset
<1>1. \A r \in restarted : /\ r \in Nat \X Addr /\ r[1] >= 1
                           /\ r[1] = rnow + interval[r[2]]
                           /\ \E f \in expired : f[2] = r[2] /\ repeat[f[2]]
  <2>. SUFFICES ASSUME NEW f \in expired, repeat[f[2]]
                PROVE  /\ <<rnow + interval[f[2]], f[2]>> \in Nat \X Addr
                       /\ rnow + interval[f[2]] >= 1
    BY DEF restarted
  <2>. QED  BY DEF TQTypeOK
<1>2. timers' \in SUBSET (Nat \X Addr)
  BY <1>0, <1>1 DEF TQTypeOK
<1>3. \A e \in timers' : ~Valid(e[1]) =>
         readable \/ (armed /\ left > 0 /\ (ClockSteps = {} => left <= 1))
  <2>. SUFFICES ASSUME NEW e \in timers', ~Valid(e[1])
                PROVE  readable \/ (armed /\ left > 0 /\ (ClockSteps = {} => left <= 1))
    OBVIOUS
  <2>1. e \in timers
    BY <1>0, <1>1 DEF Valid
  <2>2. e[1] = 0 /\ now >= 1 /\ now \in Nat /\ left \in Nat
    BY <2>1 DEF TQTypeOK, Valid
  <2>. QED  BY <2>1, <2>2 DEF TimerfdCovers
<1>4. /\ armed' \in BOOLEAN /\ left' \in Nat /\ readable' \in BOOLEAN /\ now' = now
      /\ armed' => left' > 0
      /\ \A e \in timers' :
           \/ readable'
           \/ /\ armed' /\ left' > 0
              /\ ClockSteps = {} => left' <= 1 \/ now + left' <= e[1]
  BY <1>0, <1>2, <1>3, ArmForFirstCovers
<1>5. TQTypeOK'
  <2>1. expiration' \in [Addr -> Nat]
    BY <1>0 DEF TQTypeOK
  <2>. QED  BY <1>0, <1>2, <1>4, <2>1 DEF TQTypeOK
<1>6. Aux'
  BY <1>0, <1>4, NoTimerAssumption DEF Aux
<1>7. TimersOwned'
  <2>1. ASSUME NEW e \in timers'
        PROVE  e[2] \in live' /\ e[1] = expiration'[e[2]]
    <3>0. e[2] \in Addr
      BY <1>2
    <3>1. CASE e \in timers
      <4>1. \A f \in expired : f[2] # e[2]
        BY <3>1, OneEntry DEF TimersOwned
      <4>2. ~ \E r \in restarted : r[2] = e[2]
        BY <1>1, <4>1
      <4>. QED  BY <1>0, <3>0, <3>1, <4>1, <4>2 DEF TimersOwned
    <3>2. CASE e \in restarted
      <4>1. PICK f \in expired : f[2] = e[2] /\ repeat[f[2]]
        BY <1>1, <3>2
      <4>2. e[2] \in live'
        BY <1>0, <4>1 DEF TimersOwned
      <4>. QED  BY <1>0, <1>1, <3>0, <3>2, <4>2
    <3>. QED  BY <1>0, <3>1, <3>2
  <2>2. ASSUME NEW a \in live' PROVE \E e \in timers' : e[2] = a
    <3>1. a \in live
      BY <1>0
    <3>2. PICK e \in timers \cup expired : e[2] = a
      BY <3>1 DEF TimersOwned
    <3>3. CASE e \in timers
      BY <1>0, <3>2, <3>3
    <3>4. CASE e \in expired
      <4>1. repeat[e[2]]
        BY <1>0, <3>2, <3>4
      <4>2. <<rnow + interval[e[2]], e[2]>> \in restarted
        BY <3>4, <4>1 DEF restarted
      <4>. QED  BY <1>0, <3>2, <4>2
    <3>. QED  BY <3>2, <3>3, <3>4
  <2>. QED  BY <1>0, <2>1, <2>2 DEF TimersOwned
<1>8. TimerfdCovers'
  BY <1>4 DEF TimerfdCovers
<1>. QED  BY <1>5, <1>6, <1>7, <1>8

-----------------------------------------------------------------------------
\* Every step keeps the invariant.
LEMMA StepIInv == IInv /\ [TQNext]_tqVars => IInv'
<1>. SUFFICES ASSUME IInv, [TQNext]_tqVars PROVE IInv'
  OBVIOUS
<1>1. CASE userMayCall /\ AddTimer
  <2>1. \E a \in Addr : \E when \in Nat : \E rep \in BOOLEAN : \E ivl \in Nat :
            addTimer(a, when, rep, ivl)
    BY <1>1, AddTimerShape DEF IInv
  <2>. QED  BY <1>1, <2>1, AddTimerStep
<1>2. CASE UNCHANGED tqVars
  BY <1>2 DEF tqVars, clockVars, heapVars, handleVars, IInv, TQTypeOK, Aux, TimersOwned,
     TimerfdCovers
<1>. QED
  BY <1>1, <1>2, ElapseStep, ClockStepStep, HandleReadStep, RunCallbackStep,
     CallbackReturnsStep, ResetStep, DtorStep DEF TQNext

\* The invariant holds in every reachable state.
LEMMA Invariance == TQSpec => []IInv
<1>1. TQInit => IInv
  BY InitIInv
<1>2. IInv /\ [TQNext]_tqVars => IInv'
  BY StepIInv
<1>. QED  BY <1>1, <1>2, PTL DEF TQSpec

\* The members of TimerQueue and of its timers keep their types.
THEOREM TypeCorrect == TQSpec => []TQTypeOK
<1>1. IInv => TQTypeOK
  BY DEF IInv
<1>. QED  BY <1>1, Invariance, PTL

\* No Timer leaks, dangles or is listed under a stale key, though callbacks add timers
\* while the batch is out of the list and addresses are used again.
THEOREM OwnershipCorrect == TQSpec => []TimersOwned
<1>1. IInv => TimersOwned
  BY DEF IInv
<1>. QED  BY <1>1, Invariance, PTL

\* The timerfd never forgets a pending timer, even when timers are added from callbacks,
\* carry past or invalid times, or the wall clock is set under the queue.
THEOREM CoverageCorrect == TQSpec => []TimerfdCovers
<1>1. IInv => TimerfdCovers
  BY DEF IInv
<1>. QED  BY <1>1, Invariance, PTL

(***************************************************************************)
(* The loop.                                                               *)
(***************************************************************************)
\* The array of pollfds, with the timerfd in its first entry.
Registry ==
    /\ pollfds \in Seq(Channel)
    /\ Len(pollfds) >= 1 /\ pollfds[1] = TimerChannel
    /\ channels \subseteq Channel
    /\ index \in [Channel -> -1 .. Cardinality(Channel) - 1]
    /\ RegistryConsistent

LoopTypes ==
    /\ revents \in [Channel -> SUBSET PollEvent]
    /\ looping \in BOOLEAN
    /\ quit_ \in BOOLEAN
    /\ pc \in {"idle", "enter", "top", "poll", "dispatch", "channel", "callback", "timers"}
    /\ activeChannels \in Seq(Channel)
    /\ callbacks \in Seq({"error", "read"})
    /\ ready \in [Channel -> SUBSET PollEvent]
    /\ destroyed \in BOOLEAN

\* The timerfd's channel is dispatched before any other, so that no callback has come
\* between poll(2), which found it readable, and handleRead.
TimerFirst ==
    /\ handling <=> pc = "timers"
    /\ \A k \in 2 .. Len(activeChannels) : activeChannels[k] # TimerChannel
    /\ pc = "dispatch" /\ activeChannels # <<>> /\ Head(activeChannels) = TimerChannel => readable
    /\ pc \in {"channel", "callback", "timers"} =>
         \A k \in 1 .. Len(activeChannels) : activeChannels[k] # TimerChannel

LoopInv == IInv /\ Registry /\ LoopTypes /\ TimerFirst

(***************************************************************************)
(* The poller.                                                             *)
(***************************************************************************)
\* After the constructor only the timerfd is registered.
LEMMA PollerInitRegistry == PollerInit => Registry
<1>. SUFFICES ASSUME PollerInit PROVE Registry OBVIOUS
<1>1. TimerChannel \in Channel /\ IsFiniteSet(Channel) BY ChannelAssumption
<1>2. Cardinality(Channel) \in Nat \ {0} BY <1>1, FS_CardinalityType, FS_EmptySet
<1>3. /\ pollfds \in Seq(Channel) /\ Len(pollfds) = 1 /\ pollfds[1] = TimerChannel
      /\ DOMAIN pollfds = 1 .. 1
    BY <1>1 DEF PollerInit
<1>4. index \in [Channel -> -1 .. Cardinality(Channel) - 1]
    BY <1>2 DEF PollerInit
<1>5. RegistryConsistent
    <2>1. \A i \in DOMAIN pollfds : i = 1 BY <1>3
    <2>2. channels = {pollfds[i] : i \in DOMAIN pollfds} BY <1>3 DEF PollerInit
    <2>3. \A ch \in Channel : ch \in channels <=> index[ch] >= 0 BY DEF PollerInit
    <2>4. \A ch \in channels : index[ch] < Len(pollfds) /\ pollfds[index[ch] + 1] = ch
        BY <1>1, <1>3 DEF PollerInit
    <2>5. \A i \in DOMAIN pollfds : index[pollfds[i]] = i - 1
        BY <1>1, <1>3, <2>1 DEF PollerInit
    <2> QED BY <2>2, <2>3, <2>4, <2>5 DEF RegistryConsistent
<1> QED BY <1>1, <1>3, <1>4, <1>5 DEF Registry, PollerInit

\* A first registration takes the next entry, a repeated one nothing.
LEMMA UpdateKeepsRegistry ==
    ASSUME Registry, NEW ch \in Channel, updateChannel(ch)
    PROVE  Registry'
<1>1. CASE index[ch] >= 0
    <2>1. UNCHANGED <<pollfds, index, channels>> BY <1>1 DEF updateChannel, Registry
    <2> QED BY <2>1 DEF Registry, RegistryConsistent
<1>2. CASE ~(index[ch] >= 0)
    <2>. DEFINE n == Len(pollfds)
    <2>0. index[ch] \in Int /\ index[ch] < 0 BY <1>2, ChannelAssumption, FS_CardinalityType DEF Registry
    <2>1. /\ pollfds' = Append(pollfds, ch) /\ index' = [index EXCEPT ![ch] = n]
          /\ channels' = channels \cup {ch}
        BY <2>0 DEF updateChannel
    <2>2. /\ pollfds' \in Seq(Channel) /\ n \in Nat /\ n >= 1 /\ Len(pollfds') = n + 1
          /\ DOMAIN pollfds = 1 .. n /\ DOMAIN pollfds' = 1 .. n + 1
          /\ \A i \in 1 .. n : pollfds'[i] = pollfds[i] /\ pollfds[i] \in Channel
          /\ pollfds'[n + 1] = ch
        BY <2>1, AppendProperties, LenProperties, ElementOfSeq DEF Registry
    <2>3. ch \notin channels BY <1>2 DEF Registry, RegistryConsistent
    <2>4. \A i \in 1 .. n : index[pollfds[i]] = i - 1 /\ pollfds[i] \in channels
        BY <2>2 DEF Registry, RegistryConsistent
    <2> HIDE DEF n
    <2>5. index' \in [Channel -> Int]
        BY <2>1, <2>2 DEF Registry
    <2>6. \A i \in 1 .. n + 1 : index'[pollfds'[i]] = i - 1
        <3>1. \A i \in 1 .. n : pollfds[i] # ch BY <2>3, <2>4
        <3>2. \A i \in 1 .. n : index'[pollfds'[i]] = i - 1 BY <2>1, <2>2, <2>4, <3>1 DEF Registry
        <3>3. index'[ch] = n BY <2>1 DEF Registry
        <3>4. \A i \in 1 .. n + 1 : i \in 1 .. n \/ i = n + 1 BY <2>2
        <3> QED BY <2>2, <3>2, <3>3, <3>4
    <2>7. n + 1 <= Cardinality(Channel) /\ Cardinality(Channel) \in Nat
        <3>1. \A i, j \in 1 .. n + 1 : pollfds'[i] = pollfds'[j] => i = j BY <2>6
        <3>2. pollfds' \in [1 .. n + 1 -> Channel] BY <2>2, LenProperties
        <3>3. pollfds' \in Injection(1 .. n + 1, Channel)
            BY <2>2, <3>1, <3>2 DEF Injection, IsInjective
        <3>4. Cardinality(1 .. n + 1) <= Cardinality(Channel) BY <3>3, ChannelAssumption, FS_Injection
        <3>5. Cardinality(1 .. n + 1) = n + 1 BY <2>2, FS_Interval
        <3> QED BY <3>4, <3>5, ChannelAssumption, FS_CardinalityType
    <2>8. index' \in [Channel -> -1 .. Cardinality(Channel) - 1]
        BY <2>1, <2>2, <2>7 DEF Registry
    <2>9. RegistryConsistent'
        <3>1. channels' = {pollfds'[i] : i \in DOMAIN pollfds'}
            <4>1. channels = {pollfds[i] : i \in 1 .. n} BY <2>2 DEF Registry, RegistryConsistent
            <4>2. \A i \in 1 .. n + 1 : i \in 1 .. n \/ i = n + 1 BY <2>2
            <4>3. \A i \in 1 .. n : i \in 1 .. n + 1 BY <2>2
            <4>4. n + 1 \in 1 .. n + 1 BY <2>2
            <4> QED BY <2>1, <2>2, <4>1, <4>2, <4>3, <4>4
        <3>2. \A c \in Channel : c \in channels' <=> index'[c] >= 0
            BY <2>1, <2>2 DEF Registry, RegistryConsistent
        <3>3. ASSUME NEW c \in channels'
              PROVE  index'[c] < Len(pollfds') /\ pollfds'[index'[c] + 1] = c
            <4>1. CASE c = ch BY <2>1, <2>2, <4>1 DEF Registry
            <4>2. CASE c # ch
                <5>1. c \in channels /\ c \in Channel BY <2>1, <3>3, <4>2 DEF Registry
                <5>2. index'[c] = index[c] /\ index[c] \in Int /\ index[c] >= 0
                      /\ index[c] < n /\ pollfds[index[c] + 1] = c
                    BY <2>1, <2>7, <4>2, <5>1 DEF Registry, RegistryConsistent, n
                <5>3. index[c] + 1 \in 1 .. n BY <2>2, <5>2
                <5> QED BY <2>2, <5>2, <5>3
            <4> QED BY <4>1, <4>2
        <3> QED BY <2>2, <2>6, <3>1, <3>2, <3>3 DEF RegistryConsistent
    <2>10. 1 \in 1 .. n BY <2>2
    <2> QED BY <2>1, <2>2, <2>8, <2>9, <2>10 DEF Registry
<1> QED BY <1>1, <1>2

\* What poll(2) is asked about and what it reports.
LEMMA ReportedType ==
    ASSUME LoopTypes
    PROVE  \A ch \in Channel : reported[ch] \subseteq PollEvent
<1>. SUFFICES ASSUME NEW ch \in Channel PROVE reported[ch] \subseteq PollEvent
    OBVIOUS
<1>1. ready[ch] \subseteq PollEvent BY DEF LoopTypes
<1> QED BY <1>1 DEF reported, PollEvent

\* What PollReturns dispatches: registered channels, the timerfd's only as the first one,
\* and that one only while the timerfd is readable.
LEMMA PolledChannels ==
    ASSUME Registry
    PROVE  LET act == fillActiveChannels(reported)
           IN  /\ act \in Seq(Channel)
               /\ \A k \in 2 .. Len(act) : act[k] # TimerChannel
               /\ act # <<>> /\ Head(act) = TimerChannel => readable
<1>. DEFINE T == {ch \in Channel : reported[ch] # {}}
            act == selected(pollfds, T)
<1>0. fillActiveChannels(reported) = act BY DEF fillActiveChannels
<1>1. act \in Seq(Channel) /\ ToSet(act) = ToSet(pollfds) \cap T
    BY SelectedHolds DEF Registry
<1>2. ASSUME NEW k \in 2 .. Len(act) PROVE act[k] # TimerChannel
    <2>1. PICK i \in 2 .. Len(pollfds) : act[k] = pollfds[i]
        <3>1. pollfds \in Seq(Channel) BY DEF Registry
        <3>. HIDE DEF T
        <3> QED BY <3>1, SelectedLater
    <2>2. /\ i \in DOMAIN pollfds /\ 1 \in DOMAIN pollfds /\ i # 1
        BY LenProperties DEF Registry
    <2>3. index[pollfds[i]] = i - 1 /\ index[pollfds[1]] = 0 /\ i - 1 # 0
        BY <2>2 DEF Registry, RegistryConsistent
    <2> QED BY <2>1, <2>3 DEF Registry
<1>3. ASSUME act # <<>>, Head(act) = TimerChannel PROVE readable
    <2>1. Head(act) \in ToSet(act)
        <3>. HIDE DEF act
        <3> QED BY <1>1, <1>3, TailHolds
    <2>2. TimerChannel \in Channel /\ reported[TimerChannel] # {}
        BY <1>1, <1>3, <2>1, ChannelAssumption
    <2> QED BY <2>2 DEF reported
<1> QED BY <1>0, <1>1, <1>2, <1>3

(***************************************************************************)
(* The timer queue inside the loop.                                        *)
(***************************************************************************)
\* Each step of the loop and of the world around it is one that the TimerQueue expects of
\* its user, or leaves it alone.
LEMMA StepUsesQueue == LoopInv /\ [Next]_vars => [TQNext]_tqVars
<1>. SUFFICES ASSUME LoopInv, [Next]_vars PROVE [TQNext]_tqVars
    OBVIOUS
<1>1. CASE UserAddsTimer
    <2>1. userCode /\ AddTimer BY <1>1 DEF UserAddsTimer
    <2>2. userMayCall BY <2>1 DEF userCode, inCallback, userMayCall, LoopInv, TimerFirst
    <2> QED BY <2>1, <2>2 DEF TQNext
<1>2. CASE UserEnablesReading BY <1>2 DEF UserEnablesReading
<1>3. CASE Quit BY <1>3 DEF Quit, quit
<1>4. CASE LoopEnter BY <1>4 DEF LoopEnter
<1>5. CASE LoopClearsQuit BY <1>5 DEF LoopClearsQuit
<1>6. CASE LoopTop BY <1>6 DEF LoopTop
<1>7. CASE PollReturns BY <1>7 DEF PollReturns
<1>8. CASE PollReturnsNothing BY <1>8 DEF PollReturnsNothing
<1>9. CASE Dispatch
    <2>1. CASE Head(activeChannels) = TimerChannel
        <3>1. handleRead /\ pc = "dispatch" /\ activeChannels # <<>>
            BY <1>9, <2>1 DEF Dispatch
        <3>2. readable BY <2>1, <3>1 DEF LoopInv, TimerFirst
        <3> QED BY <3>1, <3>2 DEF TQNext
    <2>2. CASE Head(activeChannels) # TimerChannel BY <1>9, <2>2 DEF Dispatch
    <2> QED BY <2>1, <2>2
<1>10. CASE DispatchDone BY <1>10 DEF DispatchDone
<1>11. CASE ChannelCallback BY <1>11 DEF ChannelCallback
<1>12. CASE CallbackReturns BY <1>12 DEF CallbackReturns
<1>13. CASE TimerCallback BY <1>13 DEF TimerCallback, TQNext
<1>14. CASE TimerCallbackReturns BY <1>14 DEF TimerCallbackReturns, TQNext
<1>15. CASE HandleReadReturns BY <1>15 DEF HandleReadReturns, TQNext
<1>16. CASE LoopDtor BY <1>16 DEF LoopDtor, TQNext
<1>17. CASE DescriptorChanges BY <1>17 DEF DescriptorChanges
<1>18. CASE TimePasses BY <1>18 DEF TimePasses, TQNext
<1>19. CASE WallClockSet BY <1>19 DEF WallClockSet, TQNext
<1>20. CASE UNCHANGED vars BY <1>20 DEF vars
<1> QED
    BY <1>1, <1>2, <1>3, <1>4, <1>5, <1>6, <1>7, <1>8, <1>9, <1>10, <1>11, <1>12, <1>13,
       <1>14, <1>15, <1>16, <1>17, <1>18, <1>19, <1>20 DEF Next, LoopThread

\* Which steps change the registry: updateChannel alone.
LEMMA StepRegistry ==
    ASSUME LoopInv, [Next]_vars
    PROVE  Registry'
<1>1. CASE UserEnablesReading
    <2>1. PICK ch \in Channel : updateChannel(ch) BY <1>1 DEF UserEnablesReading
    <2> QED BY <2>1, UpdateKeepsRegistry DEF LoopInv
<1>2. CASE ~UserEnablesReading
    <2>1. UNCHANGED <<pollfds, channels, index>>
        BY <1>2 DEF Next, LoopThread, vars, pollerVars, UserAddsTimer, Quit, quit, LoopEnter,
            LoopClearsQuit, LoopTop, PollReturns, PollReturnsNothing, Dispatch, DispatchDone,
            ChannelCallback, CallbackReturns, TimerCallback, TimerCallbackReturns,
            HandleReadReturns, LoopDtor, DescriptorChanges, TimePasses, WallClockSet
    <2>2. Registry BY DEF LoopInv
    <2> QED BY <2>1, <2>2 DEF Registry, RegistryConsistent
<1> QED BY <1>1, <1>2
\* The callbacks a channel is given.
LEMMA CallbacksType ==
    ASSUME NEW revs
    PROVE  callbacksOf(revs) \in Seq({"error", "read"})
<1>1. \A a, b \in Seq({"error", "read"}) : a \o b \in Seq({"error", "read"})
    BY ConcatProperties
<1>2. /\ <<>> \in Seq({"error", "read"}) /\ <<"error">> \in Seq({"error", "read"})
      /\ <<"read">> \in Seq({"error", "read"})
    OBVIOUS
<1>3. (IF revs \cap {"ERR", "NVAL"} # {} THEN <<"error">> ELSE <<>>) \in Seq({"error", "read"})
    BY <1>2, Zenon
<1>4. (IF "IN" \in revs THEN <<"read">> ELSE <<>>) \in Seq({"error", "read"})
    BY <1>2, Zenon
<1> QED BY <1>1, <1>3, <1>4, Zenon DEF callbacksOf

\* Each step of the loop keeps the types of its variables.
LEMMA StepLoopTypes ==
    ASSUME LoopInv, [Next]_vars
    PROVE  LoopTypes'
<1>. USE DEF LoopInv, LoopTypes, Next, LoopThread, vars, pollerVars, loopVars, UserAddsTimer,
        UserEnablesReading, updateChannel, Quit, quit, LoopEnter, LoopClearsQuit, LoopTop,
        PollReturnsNothing, DispatchDone, ChannelCallback, CallbackReturns, TimerCallback,
        TimerCallbackReturns, HandleReadReturns, LoopDtor, DescriptorChanges, TimePasses,
        WallClockSet
<1>1. looping' \in {TRUE, FALSE, looping} /\ quit_' \in {TRUE, FALSE, quit_}
      /\ destroyed' \in {TRUE, destroyed}
    BY DEF PollReturns, Dispatch
<1>2. looping' \in BOOLEAN /\ quit_' \in BOOLEAN /\ destroyed' \in BOOLEAN
    BY <1>1, Zenon
<1>3. pc' \in {"idle", "enter", "top", "poll", "dispatch", "channel", "callback", "timers"}
    BY DEF PollReturns, Dispatch
<1>4. revents' \in [Channel -> SUBSET PollEvent]
    <2>1. CASE PollReturns
        <3>1. revents' = [ch \in Channel |-> IF reported[ch] # {} THEN reported[ch] ELSE revents[ch]]
            BY <2>1 DEF PollReturns
        <3>2. \A ch \in Channel : reported[ch] \subseteq PollEvent BY ReportedType
        <3> QED BY <3>1, <3>2
    <2>2. CASE ~PollReturns BY <2>2 DEF Dispatch
    <2> QED BY <2>1, <2>2
<1>5. activeChannels' \in Seq(Channel)
    <2>1. CASE PollReturns BY <2>1, PolledChannels DEF PollReturns
    <2>2. CASE Dispatch BY <2>2, HeadTailProperties DEF Dispatch
    <2>3. CASE ~PollReturns /\ ~Dispatch
        <3>1. activeChannels' = <<>> \/ activeChannels' = activeChannels BY <2>3
        <3> QED BY <3>1, EmptySeq
    <2> QED BY <2>1, <2>2, <2>3
<1>6. callbacks' \in Seq({"error", "read"})
    <2>1. CASE Dispatch
        <3>1. callbacks' = callbacks \/ callbacks' = callbacksOf(revents[Head(activeChannels)])
            BY <2>1 DEF Dispatch
        <3> QED BY <3>1, CallbacksType
    <2>2. CASE ChannelCallback BY <2>2, HeadTailProperties
    <2>3. CASE ~ChannelCallback /\ ~Dispatch BY <2>3 DEF PollReturns
    <2> QED BY <2>1, <2>2, <2>3
<1>7. ready' \in [Channel -> SUBSET PollEvent]
    <2>1. CASE DescriptorChanges
        <3>1. PICK ch \in Channel, evs \in {{}, {"IN"}, {"HUP"}, {"IN", "ERR"}} :
                 ready' = [ready EXCEPT ![ch] = evs]
            BY <2>1
        <3>2. /\ {} \subseteq PollEvent /\ {"IN"} \subseteq PollEvent
              /\ {"HUP"} \subseteq PollEvent /\ {"IN", "ERR"} \subseteq PollEvent
            BY DEF PollEvent
        <3>3. evs \subseteq PollEvent BY <3>2
        <3> QED BY <3>1, <3>3
    <2>2. CASE ~DescriptorChanges BY <2>2 DEF PollReturns, Dispatch
    <2> QED BY <2>1, <2>2
<1> QED BY <1>2, <1>3, <1>4, <1>5, <1>6, <1>7
\* Each step of the loop keeps the timerfd's channel in front of the others.
LEMMA StepTimerFirst ==
    ASSUME LoopInv, [Next]_vars
    PROVE  TimerFirst'
<1>. USE DEF LoopInv, TimerFirst
<1>. DEFINE later(act) == \A k \in 2 .. Len(act) : act[k] # TimerChannel
            none(act) == \A k \in 1 .. Len(act) : act[k] # TimerChannel
            covered(act) == act # <<>> /\ Head(act) = TimerChannel => readable'
<1>1. CASE PollReturns
    <2>1. pc = "poll" /\ pc' = "dispatch" /\ handling' = handling /\ readable' = readable
          /\ activeChannels' = fillActiveChannels(reported)
        BY <1>1 DEF PollReturns, tqVars, handleVars, clockVars
    <2>2. later(activeChannels') /\ covered(activeChannels') BY <2>1, PolledChannels
    <2> QED BY <2>1, <2>2
<1>2. CASE Dispatch
    <2>1. /\ pc = "dispatch" /\ activeChannels \in Seq(Channel) /\ activeChannels # <<>>
          /\ activeChannels' = Tail(activeChannels)
        BY <1>2 DEF Dispatch, LoopTypes
    <2>2. /\ Len(activeChannels) \in Nat /\ Len(activeChannels') = Len(activeChannels) - 1
          /\ \A k \in 1 .. Len(activeChannels) - 1 : activeChannels'[k] = activeChannels[k + 1]
        BY <2>1, HeadTailProperties, LenProperties
    <2>3. none(activeChannels') /\ later(activeChannels') BY <2>2
    <2>4. pc' \in {"timers", "channel"} /\ (handling' <=> pc' = "timers")
        BY <1>2, <2>1 DEF Dispatch, handleRead, tqVars, handleVars
    <2> QED BY <2>3, <2>4
<1>3. CASE ~PollReturns /\ ~Dispatch
    <2>1. activeChannels' = activeChannels \/ (pc = "top" /\ activeChannels' = <<>>)
        BY <1>3 DEF Next, LoopThread, vars, loopVars, UserAddsTimer, UserEnablesReading, Quit,
            quit, LoopEnter, LoopClearsQuit, LoopTop, PollReturnsNothing, DispatchDone,
            ChannelCallback, CallbackReturns, TimerCallback, TimerCallbackReturns,
            HandleReadReturns, LoopDtor, DescriptorChanges, TimePasses, WallClockSet
    <2>2. handling' <=> pc' = "timers"
        BY <1>3 DEF Next, LoopThread, vars, loopVars, UserAddsTimer, UserEnablesReading, Quit,
            quit, LoopEnter, LoopClearsQuit, LoopTop, PollReturnsNothing, DispatchDone,
            ChannelCallback, CallbackReturns, TimerCallback, TimerCallbackReturns,
            HandleReadReturns, LoopDtor, DescriptorChanges, TimePasses, WallClockSet,
            tqVars, handleVars, clockVars, heapVars, AddTimer, runAt, runAfter, runEvery,
            addTimer, runCallback, callbackReturns, reset, timerqueueDtor, Elapse, ClockStep
    <2>3. pc' \in {"channel", "callback", "timers"} => pc \in {"channel", "callback", "timers"}
        BY <1>3 DEF Next, LoopThread, vars, loopVars, UserAddsTimer, UserEnablesReading, Quit,
            quit, LoopEnter, LoopClearsQuit, LoopTop, PollReturnsNothing, DispatchDone,
            ChannelCallback, CallbackReturns, TimerCallback, TimerCallbackReturns,
            HandleReadReturns, LoopDtor, DescriptorChanges, TimePasses, WallClockSet
    <2>4. pc' = "dispatch" =>
            pc \in {"channel", "callback", "timers"} \/ (pc = "dispatch" /\ (readable => readable'))
        BY <1>3 DEF Next, LoopThread, vars, loopVars, UserAddsTimer, userCode, inCallback,
            UserEnablesReading, Quit, quit, LoopEnter, LoopClearsQuit, LoopTop,
            PollReturnsNothing, DispatchDone, ChannelCallback, CallbackReturns, TimerCallback,
            TimerCallbackReturns, HandleReadReturns, LoopDtor, DescriptorChanges, TimePasses,
            WallClockSet, tqVars, clockVars, Elapse, ClockStep
    <2>5. activeChannels \in Seq(Channel) BY DEF LoopTypes
    <2>6. later(activeChannels') BY <2>1
    <2>7. ASSUME pc' \in {"channel", "callback", "timers"} PROVE none(activeChannels')
        BY <2>1, <2>3, <2>7
    <2>8. ASSUME pc' = "dispatch" PROVE covered(activeChannels')
        <3>1. CASE activeChannels' = <<>> BY <3>1
        <3>2. CASE activeChannels' = activeChannels /\ pc = "dispatch" /\ (readable => readable')
            BY <3>2
        <3>3. CASE activeChannels' = activeChannels /\ pc \in {"channel", "callback", "timers"}
            <4>1. ASSUME activeChannels # <<>> PROVE Head(activeChannels) # TimerChannel
                <5>1. 1 \in 1 .. Len(activeChannels) /\ Head(activeChannels) = activeChannels[1]
                    BY <2>5, <4>1, HeadTailProperties, EmptySeq, LenProperties
                <5> QED BY <3>3, <5>1
            <4> QED BY <3>3, <4>1
        <3> QED BY <2>1, <2>4, <2>8, <3>1, <3>2, <3>3
    <2> QED BY <2>2, <2>6, <2>7, <2>8
<1> QED BY <1>1, <1>2, <1>3

(***************************************************************************)
(* The theorems.                                                           *)
(***************************************************************************)
\* The invariant holds in every reachable state of the loop.
LEMMA LoopInvariance == Spec => []LoopInv
<1>1. Init => LoopInv
    <2>. SUFFICES ASSUME Init PROVE LoopInv OBVIOUS
    <2>1. IInv BY InitIInv DEF Init
    <2>2. Registry BY PollerInitRegistry DEF Init
    <2>3. LoopTypes
        <3>1. looping \in BOOLEAN /\ quit_ \in BOOLEAN /\ destroyed \in BOOLEAN BY Zenon DEF Init
        <3>2. revents \in [Channel -> SUBSET PollEvent] /\ ready \in [Channel -> SUBSET PollEvent]
            BY DEF Init, PollerInit
        <3> QED BY <3>1, <3>2 DEF Init, LoopTypes
    <2>4. TimerFirst BY DEF Init, TQInit, TimerFirst
    <2> QED BY <2>1, <2>2, <2>3, <2>4 DEF LoopInv
<1>2. LoopInv /\ [Next]_vars => LoopInv'
    <2>1. LoopInv => IInv BY DEF LoopInv
    <2> QED BY <2>1, StepUsesQueue, StepIInv, StepRegistry, StepLoopTypes, StepTimerFirst DEF LoopInv
<1> QED BY <1>1, <1>2, PTL DEF Spec

\* The members of the loop, its poller and its queue keep their types, and pollfds_ holds
\* no more entries than there are channels.
THEOREM LoopTypeCorrect == Spec => []TypeOK
<1>1. LoopInv => TypeOK
    BY DEF LoopInv, IInv, Registry, LoopTypes, TypeOK, PollerTypeOK
<1> QED BY <1>1, LoopInvariance, PTL

\* pollfds_, channels_ and the index each Channel remembers agree, however callbacks and the
\* code around loop() mix first and repeated registrations with the polling.
THEOREM RegistryCorrect == Spec => []RegistryConsistent
<1>1. LoopInv => RegistryConsistent
    BY DEF LoopInv, Registry
<1> QED BY <1>1, LoopInvariance, PTL

\* The loop calls its TimerQueue only as the queue demands: timers are added outside
\* handleRead or from a timer's callback, and handleRead is called only when the timerfd has
\* an expiration to read, since no callback comes between poll(2) and it.
THEOREM UsesQueueCorrect == Spec => UsesTimerQueue
<1>1. Init => TQInit BY DEF Init
<1>2. LoopInv /\ [Next]_vars => [TQNext]_tqVars BY StepUsesQueue
<1> QED BY <1>1, <1>2, LoopInvariance, PTL DEF Spec, UsesTimerQueue, TQSpec

\* So what is proved of the queue by itself holds of the queue in the loop: no Timer leaks
\* or dangles.
THEOREM LoopOwnsTimers == Spec => []TimersOwned
BY UsesQueueCorrect, OwnershipCorrect, PTL DEF UsesTimerQueue

\* And no pending timer is forgotten by the timerfd the loop polls.
THEOREM LoopTimersCovered == Spec => []TimerfdCovers
BY UsesQueueCorrect, CoverageCorrect, PTL DEF UsesTimerQueue

(***************************************************************************)
(* The threads.  NothingDangles is not inductive: what a thread may still  *)
(* use depends on where it is.                                             *)
(***************************************************************************)
\* The variables that the proof speaks of are functions over the threads.
Functional ==
    /\ at \in [Threads -> {"none", "created", "locked", "told", "function",
                           "returned", "deleted", "ended"}]
    /\ obj \in [Threads -> {"none", "made", "started", "joining", "joined", "gone", "aborted"}]
    /\ tidRefs \in [Threads -> SUBSET {"object", "thread"}]
    /\ ptid \in [Threads -> BOOLEAN]
    /\ data \in [Threads -> {"none", "live", "deleted"}]
    /\ t_threadName \in [Threads -> {"unnamed", "data", "finished"}]
    /\ t_loopInThisThread \in [Threads -> BOOLEAN]
    /\ loop \in [Threads -> {"none", "live", "gone"}]

\* Where a thread is, and what it may then point to.
Held(t) == ptid[t] => at[t] = "locked" /\ "thread" \in tidRefs[t]
Named(t) == t_threadName[t] = "data" => at[t] = "function"
Looping(t) == t_loopInThisThread[t] => at[t] = "function" /\ loop[t] = "live"
Alive(t) == at[t] \in {"created", "locked", "told", "function", "returned"} => data[t] = "live"
Unstarted(t) == obj[t] \in {"none", "made"} => at[t] = "none"

LifeInv == /\ Functional
           /\ \A t \in Threads : Held(t) /\ Named(t) /\ Looping(t) /\ Alive(t) /\ Unstarted(t)

\* What the invariant says of a thread depends on its own components only.
LEMMA OwnersStep ==
    ASSUME LifeInv, NEW t \in Threads,
           Construct(t) \/ start(t) \/ join(t) \/ joinReturns(t) \/ destroy(t)
    PROVE  LifeInv'
<1> USE DEF LifeInv, Functional, inThread, becomes, reaches
<1>1. CASE Construct(t)
    <2>1. Functional' BY <1>1 DEF Construct
    <2>2. \A u \in Threads : Held(u)' /\ Named(u)' /\ Looping(u)' /\ Alive(u)' /\ Unstarted(u)'
        BY <1>1 DEF Construct, Held, Named, Looping, Alive, Unstarted
    <2> QED BY <2>1, <2>2
<1>2. CASE start(t)
    <2>1. CASE obj' = [obj EXCEPT ![t] = "aborted"] /\ UNCHANGED <<at, attr, data>>
        BY <1>2, <2>1 DEF start, Held, Named, Looping, Alive, Unstarted
    <2>2. CASE /\ obj' = [obj EXCEPT ![t] = "started"] /\ at' = [at EXCEPT ![t] = "created"]
               /\ data' = [data EXCEPT ![t] = "live"]
        <3>1. Functional' BY <1>2, <2>2 DEF start
        <3>2. at[t] = "none" BY <1>2 DEF start, Unstarted
        <3>3. \A u \in Threads : Held(u)' /\ Named(u)' /\ Looping(u)'
            BY <1>2, <2>2, <3>2 DEF start, Held, Named, Looping
        <3>4. \A u \in Threads : Alive(u)' /\ Unstarted(u)'
            BY <1>2, <2>2 DEF start, Alive, Unstarted
        <3> QED BY <3>1, <3>3, <3>4
    <2> QED BY <1>2, <2>1, <2>2 DEF start
<1>3. CASE join(t)
    BY <1>3 DEF join, Held, Named, Looping, Alive, Unstarted
<1>4. CASE joinReturns(t)
    BY <1>4 DEF joinReturns, Held, Named, Looping, Alive, Unstarted
<1>5. CASE destroy(t)
    <2>1. Functional' BY <1>5 DEF destroy
    <2>2. \A u \in Threads : Held(u)' /\ Named(u)' /\ Looping(u)' /\ Alive(u)' /\ Unstarted(u)'
        BY <1>5 DEF destroy, Held, Named, Looping, Alive, Unstarted
    <2> QED BY <2>1, <2>2
<1> QED BY <1>1, <1>2, <1>3, <1>4, <1>5

\* The steps of runInThread and startThread: what a thread lets go it has left behind.
LEMMA ThreadsStep ==
    ASSUME LifeInv, NEW t \in Threads, Run(t)
    PROVE  LifeInv'
<1> USE DEF LifeInv, Functional, object, reaches
<1>1. CASE LockTid(t)
    <2>1. Functional' BY <1>1 DEF LockTid, lock
    <2>2. \A u \in Threads : Held(u)'
        BY <1>1 DEF LockTid, lock, Held
    <2>3. \A u \in Threads : Named(u)' /\ Looping(u)' /\ Alive(u)' /\ Unstarted(u)'
        BY <1>1 DEF LockTid, Named, Looping, Alive, Unstarted
    <2> QED BY <2>1, <2>2, <2>3
<1>2. CASE WriteTid(t)
    <2>1. Functional' BY <1>2 DEF WriteTid
    <2>2. \A u \in Threads : Held(u)' /\ Named(u)' /\ Looping(u)' /\ Alive(u)' /\ Unstarted(u)'
        BY <1>2 DEF WriteTid, Held, Named, Looping, Alive, Unstarted
    <2> QED BY <2>1, <2>2
<1>3. CASE Call(t)
    <2>1. CASE calls(t)
        <3>1. Functional' BY <1>3, <2>1 DEF Call, threadFunc, enterLoop
        <3>2. \A u \in Threads : Held(u)' /\ Named(u)'
            BY <1>3, <2>1 DEF Call, threadFunc, enterLoop, Held, Named
        <3>3. \A u \in Threads : Looping(u)'
            BY <1>3, <2>1 DEF Call, threadFunc, enterLoop, Looping
        <3>4. \A u \in Threads : Alive(u)' /\ Unstarted(u)'
            BY <1>3, <2>1 DEF Call, threadFunc, enterLoop, Alive, Unstarted
        <3> QED BY <3>1, <3>2, <3>3, <3>4
    <2>2. CASE ~calls(t)
        <3>1. t \notin named BY <2>2 DEF calls
        <3> QED BY <1>3, <2>2, <3>1 DEF Call, Held, Named, Looping, Alive, Unstarted
    <2> QED BY <2>1, <2>2
<1>4. CASE Return(t)
    BY <1>4 DEF Return, Held, Named, Looping, Alive, Unstarted
<1>5. CASE Delete(t)
    BY <1>5 DEF Delete, Held, Named, Looping, Alive, Unstarted
<1>6. CASE End(t)
    BY <1>6 DEF End, Held, Named, Looping, Alive, Unstarted
<1> QED BY <1>1, <1>2, <1>3, <1>4, <1>5, <1>6 DEF Run

\* The invariant gives the property: in "function" the data and the loop are alive.
LEMMA LifeInvImplies == LifeInv => NothingDangles
    BY DEF LifeInv, NothingDangles, Held, Named, Looping, Alive

\* Where and what a thread points to, in every reachable state.
LEMMA LifeInvariance == LifeSpec => []LifeInv
<1>1. LifeInit => LifeInv
    BY DEF LifeInit, each, LifeInv, Functional, Held, Named, Looping, Alive, Unstarted
<1>2. LifeInv /\ [LifeNext]_lifeVars => LifeInv'
    <2> SUFFICES ASSUME LifeInv, [LifeNext]_lifeVars PROVE LifeInv' OBVIOUS
    <2>1. CASE LifeNext BY <2>1, OwnersStep, ThreadsStep DEF LifeNext, Owner
    <2>2. CASE UNCHANGED lifeVars
        BY <2>2 DEF lifeVars, object, inThread, LifeInv, Functional, Held, Named, Looping, Alive, Unstarted
    <2> QED BY <2>1, <2>2
<1> QED BY <1>1, <1>2, PTL DEF LifeSpec

\* No thread of any number uses what is gone, whenever the owner destroys its object:
\* the cell of its tid (wkTid_.lock()), the name in its ThreadData, its EventLoop.
THEOREM ThreadsKeepWhatTheyUse == LifeSpec => []NothingDangles
    BY LifeInvariance, LifeInvImplies, PTL
=============================================================================
