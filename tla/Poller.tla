------------------------------- MODULE Poller -------------------------------
(***************************************************************************)
(* net::Poller and net::Channel (reactor1/Poller.cpp, Channel.cpp): the    *)
(* array given to poll(2), the map from descriptors to channels and what a *)
(* channel remembers of its place and of its last events.                  *)
(*                                                                         *)
(* A channel stands for its descriptor.  The only interest a channel can   *)
(* declare is enableReading, so `events' is 0 or kReadEvent and the branch *)
(* for a channel without interest is never taken; nothing unregisters.     *)
(***************************************************************************)
EXTENDS Integers, Sequences, SequencesExt, FiniteSets, SelectedSeq

CONSTANTS Channel,      \* the channels of the loop
          TimerChannel  \* TimerQueue's timerfdChannel_

ASSUME ChannelAssumption == TimerChannel \in Channel /\ IsFiniteSet(Channel)

VARIABLES pollfds,    \* pollfds_, the channel of each entry
          channels,   \* the keys of channels_
          index,      \* Channel::index_
          revents     \* Channel::revents_

pollerVars == <<pollfds, channels, index, revents>>

\* What poll(2) reports for a channel that asked for reading: POLLIN or POLLPRI, the
\* two conditions reported unasked that concern a callback, and POLLHUP.
PollEvent == {"IN", "ERR", "NVAL", "HUP"}

\* Mutant of updateChannel: set_index is forgotten.
updateWithoutIndex(ch) ==
    /\ IF index[ch] < 0
         THEN pollfds' = Append(pollfds, ch) /\ channels' = channels \cup {ch}
         ELSE UNCHANGED <<pollfds, channels>>
    /\ UNCHANGED <<index, revents>>

\* Poller::updateChannel, from Channel::enableReading through EventLoop::updateChannel.
updateChannel(ch) ==
    /\ IF index[ch] < 0
         THEN /\ pollfds' = Append(pollfds, ch)
              /\ index' = [index EXCEPT ![ch] = Len(pollfds)]
              /\ channels' = channels \cup {ch}
         ELSE UNCHANGED <<pollfds, index, channels>>
    /\ UNCHANGED revents

\* Mutant of fillActiveChannels: the last registered channel comes first.
fillBackwards(ready) == Reverse(selected(pollfds, {ch \in Channel : ready[ch] # {}}))

\* The channels poll(2) found ready, in the order of pollfds_.
fillActiveChannels(ready) == selected(pollfds, {ch \in Channel : ready[ch] # {}})

\* Channel::handleEvent: which callbacks run, in this order.  No event leads to
\* writeCallback_ because no channel can ask for POLLOUT; POLLHUP alone leads to none.
callbacksOf(revs) ==
    (IF revs \cap {"ERR", "NVAL"} # {} THEN <<"error">> ELSE <<>>)
      \o (IF "IN" \in revs THEN <<"read">> ELSE <<>>)

\* The state after EventLoop's constructor: poller_ is made first, then timerQueue_,
\* whose constructor registers the timerfd before any other channel exists.
PollerInit ==
    /\ pollfds = <<TimerChannel>>
    /\ channels = {TimerChannel}
    /\ index = [ch \in Channel |-> IF ch = TimerChannel THEN 0 ELSE -1]
    /\ revents = [ch \in Channel |-> {}]

PollerTypeOK ==
    /\ pollfds \in Seq(Channel)
    /\ channels \subseteq Channel
    /\ index \in [Channel -> -1 .. Cardinality(Channel) - 1]
    /\ revents \in [Channel -> SUBSET PollEvent]

\* The array, the map and the channels agree, however registrations and repeated
\* registrations are mixed: each registered channel sits in the entry its index names,
\* which is what the assertions of Poller.cpp:43-72 rely on.
RegistryConsistent ==
    /\ channels = {pollfds[i] : i \in DOMAIN pollfds}
    /\ \A ch \in Channel : ch \in channels <=> index[ch] >= 0
    /\ \A ch \in channels : index[ch] < Len(pollfds) /\ pollfds[index[ch] + 1] = ch
    /\ \A i \in DOMAIN pollfds : index[pollfds[i]] = i - 1
=============================================================================
