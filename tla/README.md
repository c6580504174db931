# A verification development for sometestsnippet

The repository is a collection of C++ programs around three themes: a small
reactor (`reactor1/`, with its earlier states `s00/` and `s01/`), a MySQL client
with worker threads (`mysqlmgr/` on `mysqlapi/`), and TCP clients and select
servers (`select_test.cpp`, `select_serv.cpp`, `yxs/`, `myyxs/`). Around them lie
single-file samples of the C++ and POSIX thread libraries.

This directory holds TLA+ modules of the parts whose behaviour is hard to test,
TLC configurations that check them on small instances, and theorems that the TLA+
proof system checks for every value of the constants. `PROJECT.json` lists the
components, the runs, the mutants, the theorems and, for every definition, the
source lines it models.

    tlc -workers 2 -config TaskList.cfg TaskList     # one run
    tlapm TaskListProofs.tla                         # one proof module

## The system

| Component | State | Operations | What makes it correct |
|---|---|---|---|
| `CTaskList` | ring of slots, two indices | `push` by one thread, `pop` by another, no lock | first in first out, nothing lost or handed out twice, failures only when full or empty |
| `CMysqlThread` | two rings, connection, flags, mutex and condition variable, thread | `start`, `addTask`, `getReplyTask`, `stop`, destructor; the worker's `mainLoop` | the handshake loses no wake-up, each task is executed and answered once, calls return |
| `CMysqlThreadMgr` | an array of workers | `init`, two `addTask`, `processReplyTask` | answers per hash in order, no task forgotten, the array respected |
| `CMysqlManager` | table descriptions, a connection | `init`: database, tables, columns | after `init` returns true the tables have their columns |
| `CDatabaseMysql`, `QueryResult` | connection, cursor | `initialize`, `query`, `execute` | reconnect once, report what happened |
| `net::TimerQueue`, `Timer` | ordered set of timers, a timerfd | `addTimer`, `handleRead`, `reset`, destructor | every timer owned once, never forgotten by the timerfd |
| `net::Poller`, `net::Channel` | array of descriptors, map, indices, events | `updateChannel`, `poll`, `handleEvent` | array, map and channels agree |
| `net::EventLoop` | flags, active channels | `loop`, `quit`, `runAt`, `runAfter`, `runEvery` | timers run, `quit` ends the loop |
| `net::Thread`, `base::Thread` | started, joined, a shared cell for the thread id, the thread's own data | `start`, `join`, destructor; `runInThread` | the function runs, nothing is used after its deletion, the thread is joined or detached |
| `select_test.cpp` | table of descriptors, counter, `maxsock` | one select loop | counter, table and descriptors agree; blocks only in `select` |
| `select_serv.cpp` | vector of descriptors | one select loop | every connection has one entry and is closed once; blocks only in `select` |
| `yxs/` | socket, receive buffer, a state | connect, receive, reconnect | one socket at a time, a broken connection is given up |
| `myyxs/version2` | socket, buffer, packages | connect, receive, split at newline | packages complete and in order |
| `myyxs/version1`, `yxstest/` | socket | connect without blocking, receive | the descriptor closed once, what came is shown |
| `c11cv.cpp`, `cv_test.cpp` | list of tasks, mutex, condition variable | a producer, one or five consumers | every task done, in order |
| `ConfigReader` | sections of keys | `load`, getters | later values win, comments ignored |
| samples | - | one library call each | - |

How they interact. `CMysqlThreadMgr` owns nine `CMysqlThread`; each owns a worker
thread, a connection and two `CTaskList`. The owner's thread pushes to `tasks_` and
pops from `reply_tasks_`, the worker does the opposite; the two flags `is_start_`
and `is_terminate_` are plain `bool` that both threads use. In the reactor one thread
does everything: `EventLoop::loop` calls `Poller::poll`, then `Channel::handleEvent`
of each ready channel, which calls the user's callbacks or `TimerQueue::handleRead`,
which calls the timers' callbacks; any of these may call back into `runAt`,
`enableReading` or `quit`. Only `quit` may come from another thread. The select
servers are single loops whose partners are the clients and the kernel; the game
clients are single loops (in `yxs/` in a thread of its own, which `main` waits for)
whose partners are the kernel and a server that the repository does not hold. Only
version 2 reads a configuration. A `Thread` object and its thread share nothing but the
cell for the thread id, which the thread reaches through a weak pointer.

What is hard: the lock-free ring and the flags (interleavings), the handshake and
`stop` (lost wake-ups, joins), results dropped at full rings and at `count`, the two
clocks of the timers, re-entrancy of callbacks, registration while the active list
is walked, counters that bound loops over sparse tables, kernel answers that are
stale when used; for the clients connections that are refused, reset or closed at any
point, pieces of any size, and descriptors that must be closed exactly once on every
path; for threads, objects destroyed while their thread runs. `PROJECT.json` lists these hazards at their lines.

## The modules

**BoundedFifo** is what `CTaskList` promises: a queue of at most `Capacity` tasks,
whose operations take effect at one moment. **TaskList** is the code of
`TaskList.cpp`, one action for each access to memory that the other thread writes:
`PushCheck` reads `read_idx_`, `PushStore` and `PushPublish` are the two stores,
`PopCheck`, `PopLoad` and `PopAdvance` the accesses of `pop`. `Contents` reads the
queue off the ring and `RefinesFifo` says that the ring implements BoundedFifo.
Memory accesses are taken in program order: the repository builds its programs with
`-O0` (reactor1, version2) for x86, which keeps the order of stores; `mysqlmgr` has no
makefile of its own. With an optimising compiler the missing atomics would be
undefined behaviour, and this model would say nothing.

**TaskRing** is the ring as a value, with `push` and `pop` as single steps, which
`RefinesFifo` justifies, and with the pointers that popped slots keep. **MysqlThread**
composes two of them with the owner and the worker of one `CMysqlThread`. The owner's
`start` is `StartCall`, `InitializeSucceeds` or `InitializeFails`, and `init`'s steps
`InitSpawns`, `InitLocks`, `InitTests`, `InitSleeps`, `InitWakes`; the wait set of the
condition variable is the flag `waiting`. The worker is `WorkerBegins` to
`WorkerReplies`. `Destroy` is the implicit destructor; what it does wrong (deleting
a task twice, destroying a joinable thread) ends the behaviour with a `fault`. An
address may be used for a new task only after the old one was replied to and released
(`mine`), as `new` and `delete` have it. `HandleFaults` is the undefined behaviour of
`DatabaseMysql.cpp:29`, which frees the connection handle and goes on to use it: any use
may end the process, and the properties speak of the behaviours in which it does not.

**MysqlThreadMgr** takes the workers as a unit each and models `init`, both `addTask`
and `processReplyTask` step by step. The loops of the code run one element past the
array `mysql_threads_`; that element is either zeroed memory, and then behaves like one
more worker, or a trap that ends the process. **MC_MysqlThreadMgr** gives the set of
`count` arguments, which a cfg cannot write.

**MysqlManager** is `CMysqlManager::init` in several processes against one server. `pc`
is the statement or the connection a process is at: `show databases`, `create database`,
the second connection (`use`), `desc`, `create table` or `alter table`, or what `init`
returned. The server holds the database and the columns of the table; it decides by
what it holds (`Accepted`, `Rejected`), fails for reasons of its own with the work done or
not (`Refused`), or drops the connection (`Drops`). `Reconnects`, `ReconnectFails` and
`GoneAgain` are the one repetition of `CDatabaseMysql`; that `execute` returns false for a
repeated statement whatever came of it is in `Accepted`. `createTable` is defined as a free
function that uses the member `conn_` and does not compile; it is modelled as the member
that `MysqlManager.h:53` declares. The field `f_id` is AUTO_INCREMENT, and the server
adds such a column only together with a key, so that `alter table` fails for it.
**MC_MysqlManager** gives the fields of `t_user`.

**TimerQueue** holds `timers_` as pairs of expiration and address, the timerfd
(`armed`, `left`, `readable`), the wall clock `now`, and `handleRead` split into its
callbacks: `handleRead`, `runCallback`, `callbackReturns`, `reset`. `ClockStep` sets the
wall clock, which the monotonic timerfd does not notice. `TQSpec` is what the queue
expects of its user. **Poller** is the registry and the translation of `poll(2)`'s
answer. **EventLoop** extends both and adds `loop()`, `quit()`, the user's code in
callbacks and around the loop, and the world: time, descriptors, another thread that
quits. `UsesTimerQueue` says that this composition implements `TQSpec`.

**SelectTest** is the loop of `select_test.cpp` with its clients. `Select` fixes `fdsr`,
after which clients keep sending and closing; `CloseClient`, `ReadClient` and
`SkipSlot` are the slot loop, `SlotsDone` its end at `conn_amount`, `Accept` the
listening socket. **SelectServ** is the loop of `select_serv.cpp`: a round of `ServSelect` leads
either to `ServAccept` or to the pass over the vector (`ServRead`, `ServDrop`, `ServSkip`), and a failing
`select` or `accept` to the loop that closes what is left (`ServCloses`). A round that times out or is
interrupted changes nothing and is not a step. Both extend **SelectKernel**, which is what these two
programs use of the system and stands for no code of the repository: the listening socket, the descriptors
of accepted connections, given out lowest first, what `recv` would find on each (`incoming`), and the clients.
**SelectServers** puts both beside the same clients: `program` says which of them runs, and the variables of
the other one rest. Its properties speak of whichever runs.

**TcpSocket** is what the game clients see of the system and of the server: `socket`,
`connect`, `select`, `recv`, `close` with the results that Linux documents, and a server
that says the characters of `Stream` in pieces of any size and may refuse, close or reset.
It is external: its definitions stand for no code of the repository. Each client extends
it and keeps its place in `pc` and its variable for the socket in `fd`: **ClientV1**
(`myyxs/version1`), **ClientV2** (`myyxs/version2`, from `ReadConfig` to `Return2`),
**ClientYxs** (`yxs/`, where `pc` is the state of `TcpMessageLoop`) and **ClientTests** (the
two programs of `yxstest/`). **Clients** composes them: the initial state chooses the
program that runs, and whether it was started with descriptor 0 open, on which one of
them depends. **ConfigReader** is `load` as a function of the number of lines read, with the
getters, and beside it `Meaning`, which says without a reader what a file sets.
**MC_Clients** gives the stream and the files. What is undefined in the code is a choice:
`garbage` are the bits that `yxstest/test.cpp:54` leaves in a set it never clears, and
`printed` what follows a full buffer that `version1` prints as a string, and `joinUnset` how the
process of `yxs/` ends when its thread could not be created and is joined all the same.

**ThreadLife** is an owner that makes, starts, joins and destroys `Thread` objects, in any
order that their asserts allow, and the threads: `LockTid`, `WriteTid`, `Call`, `Return`,
`Delete` and `End` are `runInThread` and `startThread`. The two copies of the class differ
in `calls`: `reactor1/Thread.cpp:59` has the call of the function inside the test for a
name. The function is that of `s00/test1.cpp`, with the thread-local pointer to its loop.
**CvQueue** is the producer and the consumers of `c11cv.cpp` and `cv_test.cpp`, chosen by
`program`; they differ in `unlocksFirst` and in the number of consumers.

**SelectedSeq** is what a loop collects that takes some elements of a container and skips the
others: `selected` for the active channels of the poller and the missing columns of a table,
`without` for a list of tasks from which one is taken.

The theorems are in **TaskListProofs**, **MysqlThreadProofs**, **MysqlThreadMgrProofs**,
**MysqlManagerProofs**, **SelectServersProofs**, **ClientsProofs** (all the clients with the configuration
reader), and **ReactorProofs** for three of them (the timer queue first, then the loop
with its poller, last the threads). **SequenceLemmas** has what they share: what
`Append`, `Tail`, `selected`, `without` and `FlattenSeq` do to the elements of a sequence, and that
loops have values.
A definition whose comment begins with "Mutant of" is a plausible mistake in the
definition named there; with it in place of that definition the property it was
written for is violated.

## The runs

| Run | Instance | Shows |
|---|---|---|
| `task_list` | 3 tasks, 4 slots | types, slot ownership, refinement of the bounded queue with its fairness |
| `event_loop` | 2 timer addresses, times up to 3, delays 0 and 2, the wall clock set to 1 or 3, one channel beside the timerfd | ownership and coverage of timers, the registry, use of the timer queue as it expects |
| `event_loop_live` | the same, the wall clock never set | coverage in time, every timer runs, every quit ends the loop |
| `mysql_thread` | 3 tasks, rings of 3 slots, 2 calls of `start` | handshake, one place for each task, losses only from a backlog, calls return, tasks are taken |
| `mysql_thread_mgr` | 2 workers and the element behind, 3 tasks, rings of 3 slots, counts -1, 0, 1 | order of answers, nothing in two places, when a fetched task may be left behind, tasks come back |
| `mysql_thread_mgr_bounds` | the same | a violation: `addTask(task)` uses the element behind the array |
| `mysql_manager` | 2 processes, 3 calls of `init`, 2 failures of the server, the two fields of `t_user` and a foreign column in every order | what `init` returning true or false means for the table; of several processes one succeeds |
| `mysql_manager_checked` | the same | a violation: `init` returns true and the table lacks columns |
| `select_servers` | one of the two servers; 2 slots, 3 descriptors for clients, one pending connection, 5 connections for `select_serv` | counter, table and open descriptors agree, nothing is closed twice or left open at the end, no blocking call, a client that left is noticed: in the slots that the counter of `select_test` reaches, in every place of the vector of `select_serv` |
| `clients` | a stream of two packages and a half, a buffer of 3 characters, 4 faults, configuration files of up to 3 lines from a list of 14 and of 4 lines from a list of 5 | descriptors closed once and not lost, what is shown, the address version 2 takes, no client that waits beside data |
| `thread_life` | 2 threads, both copies of the class, with and without names | nothing used after its deletion, everything given back, the function called |
| `cv_queue` | 3 consumers, 4 tasks, 2 spurious wakeups | every task done in its turn |

Why the bounds suffice. A ring of four slots is full with three tasks and wraps;
with addresses reused the indices go round any number of times. Two addresses and
times up to 3 give two timers at the same time, one before the other, one in the
past, a repeating one beside a one-shot one, and an address that is deleted and used
again; beyond `MaxTime` the wall clock stands still, which only makes timers of the
future late. Two starts are enough for a second connection object and for a start
after a stop. Rings of three slots hold two tasks, so three tasks overflow them. Two
processes race for each statement, a third call lets one of them repeat `init` on what
is left, and two failures are a lost connection with a lost reconnect, or a failure of
each process. Two slots and three client descriptors fill the table of `select_test` and leave one client that
is accepted and not stored, with the next `accept` failing for want of descriptors; a client that leaves
the first slot leaves the second beyond `conn_amount`. Five connections over three
descriptors make `select_serv` use numbers again and leave marked entries between valid ones. A stream longer
than the buffer gives pieces that fill it, pieces with no, one and two newlines, and a rest;
the buffer of `yxs/` has more room than the stream, as the real one of 65536 characters has, and
nothing is received after a message. Four faults let a client fail at `socket`, `connect`,
`select` and `recv` in one behaviour, or take four broken connections. A file of three
lines has a setting above, inside and after a section, one of four a section that is left
and opened again. Two threads show that what one owner does with one object leaves the
other alone. Three consumers are one that waits, one that takes the task and one that
is notified too late.

Fairness. The loop thread and the worker run whenever they can (threads are
scheduled; callbacks, `execute` and the library calls return). `poll` returns after
ten seconds at the latest, `sleep_for` after one. Time passes. In `mysql_thread` the
owner's calls proceed and a notified wait returns; spurious wake-ups may happen and
are never relied on. In `mysql_thread_mgr` the owner keeps calling `processReplyTask`,
which is what it is for; strong fairness because `addTask` and `init` may come between.
In `clients` the program goes on when it can, an attempt to connect is answered, one way
or the other, and on a connection that stays up the server says something more while it
has anything to say; that it closes, resets or refuses is never relied on. In `thread_life`
each thread runs, and a `join` whose thread has ended returns; the owner may stop anywhere.
In `cv_queue` producer and consumers go on while they can; the mutex is not fair, and
weak fairness is enough, because some consumer that is awake gets it.
In `select_servers` the server's thread runs. No fairness is assumed of its clients, of `start`, `stop`, `addTask` or of anybody who
sets a clock or quits.

Deadlock is checked where somebody can always move. `mysql_thread`,
`mysql_thread_mgr`, `mysql_manager` and `select_servers` switch it off: there the owner destroys the
object, the access behind the array ends the process, `init` has returned everywhere,
and a failing `select` ends either server. So do `clients`, `thread_life` and `cv_queue`: programs end, in
the exits, crashes and signals of their code, threads end, and the tasks are bounded.

What the clients' properties except. They hold with exceptions, each of them something the
code does, named in the comment of the property. `DescriptorsOwned`: `yxstest/test.cpp` leaves
its socket open when `connect` fails at once, and `version1` closes its descriptor twice
after an error of `select`. `ShownIsSent`: `version1` shows more than it received when
the piece filled its buffer. In version 2 every piece is appended with the
zeros behind it (`TcpClient.cpp:56`), and the packages are right only because `main` reads once;
the mutant `onReceivedMore`, which reads on, breaks the property. `ConfiguredServer`: a
setting above the first section ends the program. `DataIsRead`: with descriptor 0, `yxs/` takes
its socket for a failure and makes the next. `ThreadsFinish`: an unnamed `net::Thread`
never calls its function. No document promises otherwise, so none of these is a finding.

What other properties do not deny. Some of what a caller may find surprising is what the code does, and the
properties say where it ends. `ExecutesConnected` excepts a `start` on top of a running worker, which takes
the connection from it when it fails. `TaskComesBack` excepts tasks lost at a full reply ring
(`LossNeedsBacklog` says when) and tasks dropped at the limit of `processReplyTask` (`DropIsReported`
says in which calls). `FalseHasCause` excepts a repeated statement, after which `execute` returns false though the
work is done, and a table without its AUTO_INCREMENT column, which no call of `init` can repair.
`LeaversNoticed` excepts the slots of `select_test` beyond `conn_amount`: their clients are not read, and
`select` returns at once, until another client comes.

The findings. `MysqlThreadMgr.h:27` declares `thread_count_` elements and
`MysqlThreadMgr.cpp:15` refuses larger indices, but `addTask(task)` uses the element
`thread_count_` and no other (`MysqlThreadMgr.h:15`). `mysql_thread_mgr_bounds` shows a manager
whose first call is that one; the loops of `init` and `processReplyTask` go as far in the same
model, in longer behaviours. `MysqlManager.cpp:51`
announces a check of the table; when the server fails to answer `desc`, `checkTable`
takes the table for missing, `CREATE TABLE IF NOT EXISTS` succeeds on what is there, and
`mysql_manager_checked` ends with `init` true and a column missing. `TrueMeansColumns` shows
that this is the only way.

## What is proved

All theorems are of the form `Spec => []Inv` for an inductive invariant, and two
refinements, checked for all constants that satisfy the named assumptions of the modules.

| Module | Theorems | Assumed of the constants |
|---|---|---|
| TaskListProofs | `TypeOK`, `SlotSafety`, `RefinesFifo` | 2 to 65536 slots, because the indices have 16 bits |
| MysqlThreadProofs | `TypeOK`, `NoLostWakeup`, `OnePlaceEach`, `LossNeedsBacklog`, `ExecutesConnected` | finitely many tasks, rings of 2 slots or more |
| MysqlThreadMgrProofs | `TypeOK`, `AnsweredInOrder`, `DropIsReported` | at least one thread, rings of 2 slots or more, integers as counts; for the last theorem natural numbers or -1 |
| MysqlManagerProofs | `TypeOK`, `TrueMeansColumns`, `FalseHasCause`, `SomeoneSucceeds` | at least one process and one field, no field twice, the foreign column is none of them |
| ReactorProofs | `TQTypeOK`, `TimersOwned`, `TimerfdCovers` of the timer queue; `TypeOK`, `RegistryConsistent`, `UsesTimerQueue`, `TimersOwned`, `TimerfdCovers` of the loop; `NothingDangles` of the threads | natural delays, finitely many channels with the timerfd's among them |
| ClientsProofs | `TypeOK`, `DescriptorsOwned`, `ShownIsSent`, `ConfiguredServer` | the server's text is a sequence of the three characters, a buffer of at least one, any number of faults; a configuration file is a sequence of lines of words |
| SelectServersProofs | `ServersTypeOK`, `SlotsCounted`, `HeldOnce`, `BlocksInSelect` | at least one slot, any number of descriptors and connections, a positive listening descriptor |

*TaskListProofs.* `SlotSafety` is inductive together with the types: while the
producer is between its full test and its stores, the slot is outside the
occupied part and stays there because the consumer only moves `read_idx_` towards it;
while the consumer is between its empty test and its store, the slot is inside and the
producer cannot reach it. From that, `ImplementsFifo`: the initial ring is the
empty queue, `PushPublish` appends, `PopAdvance` takes the head, the failing tests are
the failing operations (the check happens when the queue really is full or empty), and
every other step leaves the queue alone. The arithmetic of the wrap-around is in
`NextIdxCases`, `SlotFacts`, `PublishFacts` and `AdvanceFacts`.

*MysqlThreadProofs.* The invariant has two halves. `LifeInv` is about start, stop and the worker's
life. `NoLostWakeup` alone is not inductive: it needs that the owner holds the mutex between the test of the flag
and the wait (`Locking`), so that a worker that was not up at the test has still to notify, and which worker
there is wherever the owner stands (`Handshake`). `QueueInv` is about the tasks: what the rings hold, as two sequences
without repetition, and the task in the worker's hands are disjoint and together are the tasks under way
(`Placed`). `QueuedSeq`, `PushedRing` and its companions show that a ring behaves as a queue also when its
slots are overwritten. For `LossNeedsBacklog` the invariant counts (`Counted`): the worker drops a
reply with one task in its hands and a full ring of others. For `ExecutesConnected`, `Connected` says that the
connection is open from `initialize` to the end of `start`, and afterwards wherever there is a worker, except
while another `start` is connecting or after it has failed.

*MysqlThreadMgrProofs.* `InOrder` says that what a worker has, from the task the fetch loop holds to
the last one queued, is `order[w]`, and each step moves one task from one part of that
concatenation to the next or takes it off an end; `Locals` is needed because only inside the
while loop does the fetch loop hold a task. A task dropped from the middle is taken out of `order` by
`without`, and `WithoutMiddle` shows that the rest closes up, which needs that no task is there twice
(`Owned`). `DropIsReported` has `Answers` beside the invariant, the counter against `count`. Its
hypothesis on the counts is the one its comment names: for -2 the code drops a task and returns false.

*MysqlManagerProofs.* Each of the three properties needs what a process may still rely on when others change
the schema under it. `AddsTheRest` is the key: the columns a process has left to add and those
that are there make up all fields, and since everybody adds in the order of `map_field_`, nobody finds one of
its later columns there before its next one (`SameOrder`, `ServerGrows`). So whoever adds its last column
ends with a complete table. `Unsurprised` is what a process knows that nobody disturbed,
and gives `FalseHasCause`. `SomeoneSucceeds` has a witness that changes hands: `OnTheWay` says
who would reach `true` if the others stood still. A process that changes the schema may end the
others' hopes, but is on its way itself; one that is rejected changed nothing, so the others' hopes stay.

*ReactorProofs.* For the timer queue the invariant adds to types, `TimersOwned` and `TimerfdCovers`
that a countdown is positive and that callbacks run only inside `handleRead`. Ownership
needs the keys of entries to equal the expirations of their timers, so that
re-inserting a restarted timer cannot meet an entry of the same timer. Coverage needs
the minimum of `howMuchTimeFromNow` (zero would disarm) and the test for the first
entry in `insert` and `reset`. For the loop, `UsesTimerQueue` needs the poller: the queue demands that
`handleRead` is called only when its timerfd is readable, and a callback that ran between `poll`
and `handleRead` could have changed that. `TimerFirst` says that none does, since the timerfd has the first entry of
the array and therefore is the first of the active channels; it rests on `Registry`, which is
`RegistryConsistent` with its types, and on `SelectedLater`. With the step refinement the queue's two
theorems hold of the loop.

For the threads, `NothingDangles`, for any number of them, is not inductive: what a
thread may use depends on where it is. The invariant says that a thread has a pointer to the
cell only between `lock()` and `reset()`, and holds the cell meanwhile, so that the owner's
destructor may take only the owner's share; that its name points into the `ThreadData`, and its
loop pointer to a loop, only while its function runs; and that the data lives from `start`
until the function has returned. A thread whose object was not started is nowhere.

*SelectServersProofs.* Each server has its invariant, and that of the one that runs is an invariant of
the composition, since the other's variables rest. In `select_test`, `SlotsCounted` is a fact about a cardinality; a first free slot
exists because fewer than `MAXCLINE` slots are counted and the least of the others can
be named. `NeverBlocks` is preserved by reading or closing a client because no two
slots hold the same descriptor, and accepted descriptors are new. For `select_serv`, the two parts `OpenHeldOnce`
and `ServNeverBlocks` need each other's grounds: what `select` reported stays true in a round (`ReadyKept`)
because no two entries hold the same descriptor, so that the pass reads or closes each one once; and no two
entries hold the same one because `close` and the marking of the entry are one step of the loop and a
descriptor is given out again only after it. `unclosed` is what is left to the closing loop: of
the whole vector before it, nothing after it.

*ClientsProofs.* Each of the four has an invariant of its own, and one lemma for each client program.
`DescInv` says where a program has exactly the socket that its variable names, where it has none, and what
`version1` may have closed on its way to `done`. For the types and the texts a step has a *shape*: it receives
nothing and leaves `shown`, `m_buf` and the count alone (`Quiet`), or it receives the next `n` characters of the
stream and shows them in the way of its program (`Receives`); `V1Shape` to `NetworkShape` sort every action
into one of the two. `TypeInv` adds to the types where a program has received nothing (`Silent`), because the count
starts anew with each socket, and that there are no more texts than characters: this bounds `shown`.
With that, `ShownIsSent` is about the second kind alone: a piece behind the text that was shown
(`SaidGrows`), one piece that filled the buffer or did not, or the packages of version 2. For the packages,
`DecodeSplits` says for every buffer that the packages with their newlines, and the rest, make up
the buffer, that the rest has no newline, and that there are as many packages as newlines;
`PackagesWhole` adds that the zeros behind the piece change nothing, since the last package ends at a newline and
the newlines are all inside the piece. For the configuration, `Meant` compares the reader after `n` lines with what these lines mean
without one: the section in force is the last one opened, a key has the value of its last
line there or is absent, and the reader has failed exactly where a setting is above every section.
`MeantNext` has a case for each branch of `load`, and `UnderNext` that at most one section is in force.

*SequenceLemmas.* `selected` is a recursive function over the length of a sequence. What it returns for every
length is shown without an induction theorem: among the lengths for which the claim failed there would be a
least one (`LeastNat`), and the step from the length before it (`PicksNext`) refutes that. The claim is
that there is an increasing map of places (`Picks`), from which follow the elements
(`SelectedHolds`), their order, and that the result is the only such sequence (`SelectedUnique`).
For other loops, `RoundsExist` says that a loop whose step is a function has a value after each round, and `EveryRound`
that what holds at first and from each round to the next holds in all; `FlattenGrows`, `DecodeSplits`,
`LoadIsLastRound` and `LoadMeans` are instances. A recursive definition is a `CHOOSE`, so each of them first shows that the
function it chooses exists, and then that its last value is that of the loop.

Each inductive invariant was an invariant of a run of its module first, on the instances of the table
of runs or larger ones (three processes and three fields for MysqlManager).

## Only model-checked

All liveness (TaskIsTaken, CallsReturn, TaskComesBack, TimersRun, QuitEndsLoop,
LeaversNoticed, TakesAndReturns, DataIsRead, ThreadsFinish, DoneInTurn): the prover has no rules for
fairness here. So `RefinesFifo` and `UsesTimerQueue` are proved for the steps that they
speak of, which is all that they contain.

Every invariant of a passing run is the subject of a theorem. Outside their hypotheses stay the counts below -1 of
`DropIsReported`, which its comment excludes, and the two properties that the code violates.

## Not modelled

The destructors of samples, formatting and logging; `CMysqlThread::run`, which nobody
calls and which would join its own thread; timer ids, which nothing uses; a second
EventLoop in a thread, which is only reported; calls of `runAt` or `updateChannel` from
another thread, which `assertInLoopThread` prints and does not prevent. Poller and
channels are destroyed after the loop, with no channel unregistered before; programs of
the repository do not do it earlier.

Of the game clients: sending, which no program does but `yxstest/test.cpp`, after it has shut
its side down; `TcpMsg::Send`, `Hexdump`, the server side of version 2's `Socket` and its `deprecated/`
directory, which nothing calls; the getters of `ConfigReader` for numbers with a point, truth
values and lists, and `StringUtils`, for the same reason. `yxsclient.cpp` at the top and `tqueue.h` do not
compile, `TaskPool.cpp` and `config.cpp` are unfinished. `s01/` is `reactor1/` without timers. Atomic,
Mutex and Timestamp wrap one library call each. The lock, thread and language samples show
one library call each and have no behaviour of their own.

## Plan

The loop of `s01/` as an instance of Poller.
