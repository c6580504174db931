----------------------------- MODULE EventLoop -----------------------------
(***************************************************************************)
(* net::EventLoop (reactor1/EventLoop.cpp): one thread that polls and      *)
(* dispatches, with its Poller and its TimerQueue.  Program code runs in   *)
(* the loop thread before loop(), in the callbacks and after loop()        *)
(* returns; there it may add timers, register channels and call quit().    *)
(* Meanwhile time passes, descriptors become ready and another thread may  *)
(* call quit().                                                            *)
(***************************************************************************)
EXTENDS TimerQueue, Poller

VARIABLES looping, quit_,   \* looping_, quit_
          pc,               \* where the loop thread is
          activeChannels,   \* activeChannels_, those not handled yet
          callbacks,        \* the callbacks left of the channel being handled
          ready,            \* the kernel: what poll(2) would report of a channel
          destroyed         \* the EventLoop's destructor has run

loopVars == <<looping, quit_, pc, activeChannels, callbacks, destroyed>>
vars == <<tqVars, pollerVars, loopVars, ready>>

Init ==
    /\ TQInit
    /\ PollerInit
    /\ looping = FALSE
    /\ quit_ = FALSE
    /\ pc = "idle"
    /\ activeChannels = <<>>
    /\ callbacks = <<>>
    /\ ready = [ch \in Channel |-> {}]
    /\ destroyed = FALSE

(***************************************************************************)
(* Program code in the loop thread: outside loop(), in a channel's         *)
(* callback, or in a timer's callback.                                     *)
(***************************************************************************)
inCallback == pc = "callback" \/ (pc = "timers" /\ running # NoTimer)

userCode == (pc = "idle" /\ ~destroyed) \/ inCallback

UserAddsTimer ==
    /\ userCode
    /\ AddTimer
    /\ UNCHANGED <<pollerVars, loopVars, ready>>

UserEnablesReading ==
    /\ userCode
    /\ \E ch \in Channel \ {TimerChannel} : updateChannel(ch)
    /\ UNCHANGED <<tqVars, loopVars, ready>>

quit ==
    /\ quit_' = TRUE
    /\ UNCHANGED <<tqVars, pollerVars, looping, pc, activeChannels, callbacks, ready,
                   destroyed>>

\* quit() is called by a callback, by the code around loop(), or by another thread.
Quit == ~destroyed /\ quit

(***************************************************************************)
(* loop().                                                                 *)
(***************************************************************************)
LoopEnter ==
    /\ pc = "idle"
    /\ ~destroyed
    /\ looping' = TRUE
    /\ pc' = "enter"
    /\ UNCHANGED <<tqVars, pollerVars, quit_, activeChannels, callbacks, ready, destroyed>>

\* quit_ = false: a quit() of before this step is forgotten.
LoopClearsQuit ==
    /\ pc = "enter"
    /\ quit_' = FALSE
    /\ pc' = "top"
    /\ UNCHANGED <<tqVars, pollerVars, looping, activeChannels, callbacks, ready, destroyed>>

LoopTop ==
    /\ pc = "top"
    /\ activeChannels' = <<>>
    /\ IF quit_ THEN pc' = "idle" /\ looping' = FALSE
                ELSE pc' = "poll" /\ UNCHANGED looping
    /\ UNCHANGED <<tqVars, pollerVars, quit_, callbacks, ready, destroyed>>

\* What poll(2) would report now of every registered channel.
reported ==
    [ch \in Channel |->
        IF ch \notin channels THEN {}
        ELSE IF ch = TimerChannel THEN (IF readable THEN {"IN"} ELSE {})
        ELSE ready[ch]]

\* poll(2) returns with descriptors: their channels get their revents.
PollReturns ==
    /\ pc = "poll"
    /\ fillActiveChannels(reported) # <<>>
    /\ activeChannels' = fillActiveChannels(reported)
    /\ revents' = [ch \in Channel |->
                     IF reported[ch] # {} THEN reported[ch] ELSE revents[ch]]
    /\ pc' = "dispatch"
    /\ UNCHANGED <<tqVars, pollfds, channels, index, looping, quit_, callbacks, ready,
                   destroyed>>

\* Mutant of PollReturnsNothing: polls again without a look at quit_.
PollsAgain ==
    /\ pc = "poll"
    /\ fillActiveChannels(reported) = <<>>
    /\ pc' = "poll"
    /\ UNCHANGED <<tqVars, pollerVars, looping, quit_, activeChannels, callbacks, ready,
                   destroyed>>

\* poll(2) returns 0 after kPollTimeMs, or -1 on a signal: nothing is dispatched.
PollReturnsNothing ==
    /\ pc = "poll"
    /\ fillActiveChannels(reported) = <<>>
    /\ pc' = "top"
    /\ UNCHANGED <<tqVars, pollerVars, looping, quit_, activeChannels, callbacks, ready,
                   destroyed>>

\* The for loop of loop() takes the next channel; handleEvent picks its callbacks.
\* The timerfd's read callback is TimerQueue::handleRead.
Dispatch ==
    /\ pc = "dispatch"
    /\ activeChannels # <<>>
    /\ activeChannels' = Tail(activeChannels)
    /\ LET ch == Head(activeChannels)
       IN  IF ch = TimerChannel
             THEN handleRead /\ pc' = "timers" /\ UNCHANGED callbacks
             ELSE /\ callbacks' = callbacksOf(revents[ch])
                  /\ pc' = "channel"
                  /\ UNCHANGED tqVars
    /\ UNCHANGED <<pollerVars, looping, quit_, ready, destroyed>>

DispatchDone ==
    /\ pc = "dispatch"
    /\ activeChannels = <<>>
    /\ pc' = "top"
    /\ UNCHANGED <<tqVars, pollerVars, looping, quit_, activeChannels, callbacks, ready,
                   destroyed>>

ChannelCallback ==
    /\ pc = "channel"
    /\ IF callbacks = <<>>
         THEN pc' = "dispatch" /\ UNCHANGED callbacks
         ELSE pc' = "callback" /\ callbacks' = Tail(callbacks)
    /\ UNCHANGED <<tqVars, pollerVars, looping, quit_, activeChannels, ready, destroyed>>

CallbackReturns ==
    /\ pc = "callback"
    /\ pc' = "channel"
    /\ UNCHANGED <<tqVars, pollerVars, looping, quit_, activeChannels, callbacks, ready,
                   destroyed>>

TimerCallback ==
    /\ pc = "timers"
    /\ runCallback
    /\ UNCHANGED <<pollerVars, loopVars, ready>>

TimerCallbackReturns ==
    /\ pc = "timers"
    /\ callbackReturns
    /\ UNCHANGED <<pollerVars, loopVars, ready>>

HandleReadReturns ==
    /\ pc = "timers"
    /\ reset
    /\ pc' = "dispatch"
    /\ UNCHANGED <<pollerVars, looping, quit_, activeChannels, callbacks, ready, destroyed>>

\* ~EventLoop asserts !looping_, then destroys timerQueue_ and poller_.
LoopDtor ==
    /\ pc = "idle"
    /\ ~destroyed
    /\ timerqueueDtor
    /\ destroyed' = TRUE
    /\ UNCHANGED <<pollerVars, looping, quit_, pc, activeChannels, callbacks, ready>>

(***************************************************************************)
(* The world around the loop.                                              *)
(***************************************************************************)
\* A descriptor's state changes: data arrives, is read, the peer hangs up.
DescriptorChanges ==
    /\ \E ch \in Channel \ {TimerChannel} : \E evs \in {{}, {"IN"}, {"HUP"}, {"IN", "ERR"}} :
         ready' = [ready EXCEPT ![ch] = evs]
    /\ UNCHANGED <<tqVars, pollerVars, loopVars>>

TimePasses == ~destroyed /\ Elapse /\ UNCHANGED <<pollerVars, loopVars, ready>>

WallClockSet == ~destroyed /\ ClockStep /\ UNCHANGED <<pollerVars, loopVars, ready>>

LoopThread ==
    \/ LoopClearsQuit \/ LoopTop \/ PollReturns \/ PollReturnsNothing
    \/ Dispatch \/ DispatchDone
    \/ ChannelCallback \/ CallbackReturns
    \/ TimerCallback \/ TimerCallbackReturns \/ HandleReadReturns

Next ==
    \/ LoopEnter \/ LoopThread \/ LoopDtor
    \/ UserAddsTimer \/ UserEnablesReading \/ Quit
    \/ DescriptorChanges \/ TimePasses \/ WallClockSet

Spec == Init /\ [][Next]_vars

\* The loop thread runs, callbacks return, poll(2) returns after its timeout at the
\* latest, and time does not stand still.
Fairness == WF_vars(LoopThread) /\ WF_vars(TimePasses)

FairSpec == Spec /\ Fairness

(***************************************************************************)
(* Properties.                                                             *)
(***************************************************************************)
TypeOK ==
    /\ TQTypeOK
    /\ PollerTypeOK
    /\ looping \in BOOLEAN
    /\ quit_ \in BOOLEAN
    /\ pc \in {"idle", "enter", "top", "poll", "dispatch", "channel", "callback", "timers"}
    /\ activeChannels \in Seq(Channel)
    /\ callbacks \in Seq({"error", "read"})
    /\ ready \in [Channel -> SUBSET PollEvent]
    /\ destroyed \in BOOLEAN

\* The loop uses its TimerQueue as the queue expects, whatever the callbacks do: in
\* particular handleRead runs only when there is an expiration to read.  It would not
\* if another channel's callback could re-arm the timerfd between poll(2) and
\* handleRead, and readTimerfd would then print an uninitialized count
\* (TimerQueue.cpp:39-46); the timerfd is the first channel the poller knows.
UsesTimerQueue == TQSpec

\* A timer that was added runs, unless the loop is left: no sequence of additions,
\* re-arming, slow callbacks, busy descriptors and quits strands it.
TimersRun ==
    \A a \in Addr :
        (looping /\ \E when \in 0 .. MaxTime : <<when, a>> \in timers)
            ~> (running = a \/ ~looping)

\* Once loop() has cleared the flag, a quit() ends the loop: from a callback at the end
\* of the round, from another thread when poll(2) returns.
QuitEndsLoop == (quit_ /\ pc \notin {"idle", "enter"}) ~> (pc = "idle")
=============================================================================
