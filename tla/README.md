# OpenTestPoint in TLA+

OpenTestPoint samples *probes* (plugins, in C++ or Python) at a fixed rate and
publishes their measurements. This directory holds TLA+ models of the daemon and
its probe processes, the processing threads of controllers, brokers and recorders,
discovery and the distribution of reports through tiers of brokers, the recorder's
files, the log service and its clients, the programs' signal handling and the
conversions of numbers, with the TLC runs that check them and TLAPS proofs of their
main properties. Every definition is translated from the sources; `PROJECT.json` names
the lines of each.

    tlc -workers 2 -config ProbeSession.cfg MCProbeSession
    tlapm ProbeSession_proofs.tla

## 1. The system

| Part | State | Operations | Talks to |
|---|---|---|---|
| **otestpointd main thread** (`Application::main`, `ControllerImpl`'s lifecycle calls) | the operation it is in, the container it has reached | construct, initialize, start, wait for a signal, stop, destroy, delete the containers | containers (calls), the controller thread (PAIR socket), the log service |
| **ProbeContainer**, one per configured probe | `bFailure_`, `pid_`, the REQ socket, commthreshold | constructor (fork, READY, CREATE), `initialize`, `start`, `stop`, `destroy`, destructor (SIGTERM) | its probe process: one `Toolkit::transaction` per operation over REQ/REP |
| **otestpoint-probe / ProbeManager**, one process per probe | the plugin, the timer, its timestamp | READY report, CREATE, INITIALIZE, START, STOP, DESTROY, sampling | the plugin (calls), the container (REP), the controller thread (PUB) |
| **Plugin adapters** | the user's object | forward the calls to C++ or Python | user code |
| **Controller thread** (`ControllerImpl::process`) | connected publishers, their subscriptions, advertised topics | READY, ADD, END; discovery; forwarding of subscriptions (XPUB to XSUB) and reports (XSUB to XPUB) | main thread, probe processes, brokers, recorders, tools |
| **Broker** (`BrokerImpl`) | connected testpoints, the subscriptions, their discovery endpoints | ADD with a 5 s transaction; discovery, asking each testpoint in turn for at most 1 s; forwarding | controllers, other brokers |
| **Recorder** (`RecorderImpl`) | record file, SQLite table | open, receive a report, ADD, END | controllers or brokers |
| **Application** | a mutex used as a semaphore, signal handlers | options, start, wait, shutdown | all daemons derive from it |
| **Log service and clients** | level, control sockets; cached level | add, setLevel; log | every thread and process |
| **Tools** (`otestpoint-dump`, `-print`, `-filter`, `-discover`) | the rows to be filtered | read or write Probe Message Stream Format | publishers, files, the table |
| **stringTo, addrinfo, directors, builders** | none | conversions, XML configuration | |

What is hard in it:

* *Requests that time out.* `transaction()` gives up after the commthreshold, but
  the request stays with the process and the reply may still come. A REQ socket in
  that state refuses the next send, and that refusal is what keeps the container
  from reading a late answer as the answer to its next request.
* *User code.* A plugin call may return, throw, kill the process or never come
  back, at any point of the life cycle of any probe.
* *One loop for requests and samples.* The timer may expire before, between and
  after the requests of a shutdown.
* *Early ends.* The daemon may end by an exception, an `EXIT_FAILURE` return or a
  signal without a handler while probe processes are up.
* *Two records of the same data.* The recorder writes an index row and then the
  message it points to; either can fail, the process can die between the two, and
  readers go from one to the other meanwhile.
* *Answers out of step.* Main and processing thread talk over a PAIR socket, which
  knows no exchanges: a response that comes after a timeout is read by the next
  transaction, whatever that one asked.
* *Tiers.* A broker asks its remotes one after the other while its own callers wait
  for it. A remote can be slow, dead or started again in the middle, and a request
  whose asker has gone is served all the same.
* *Subscriptions.* Each tier forwards the changes of those below it, which come and
  go while earlier changes are on their way and connections break.
* *Shared log sockets.* A record is a message of two parts, and Python threads share
  the socket they send it on.
* *Signals.* They come at any point of the start and the shutdown.
* *Time.* Samples are scheduled on the wall clock, which can be set.

`PROJECT.json` lists the hazards one by one, with the properties that cover them.

### What makes each part correct

* Containers and processes: requests and replies stay in step; a container that
  has not failed knows what its plugin has been through; the plugin sees its
  methods in order, once each; no probe can hold up the others for more than its
  commthreshold; a shutdown ends every process, unless an undelivered request holds it up.
* Sampling: on the grid, never twice for the same slot, never ahead of time.
* Recorder: the table is an exact index of the file, also after failures and
  restarts, and the file can be read without the table.
* Controller and broker: what is discovered can be received; a subscription
  reaches every publisher and no report is delivered twice; a silent testpoint
  delays the others by a bounded time.
* Application: a signal is not lost.
* Log service: clients follow the level, though some never answer; records are whole,
  in order and once each; the service can be destroyed.
* Conversions: a number is what its text means, or it is refused.

## 2. Modules

### ProbeSession: daemon and probe processes

The main thread is one process with a program counter of three variables: the
operation `op`, the container `cur` it is applied to, and the `step` inside that
container's operation (`fork`, `ready`, `call`, `reply`, `close`). `Advance` is the loop
over the containers in `ControllerImpl` and the sequence of operations in
`Application::main`. Each container has `bFailure_`, `pid_` (whether it is
nonzero), the state of its REQ socket and whether `initialize()` returned names.
Each probe process has its place between `booting` and `exited`, the timer, the
plugin method on the stack, and the last lifecycle method with its outcome.

| Action | Code |
|---|---|
| `Fork`, `ReceiveReady` | `ProbeContainer::init` |
| `SendRequest`, `SendFails`, `ReceiveReply`, `Timeout` | `Toolkit::transaction` with the caller's handling of its result |
| `SkipFailed` | the `if(!bFailure_)` of initialize, start and stop |
| `StopSignal`, `Abort` | `Application::main` |
| `Delete` | the delete loop of `ControllerImpl::destroy` and the body of `~ProbeContainer` |
| `CloseContext` | the destruction of its members, `pClient_` and `pContext_` |
| `Interrupted` | a signal that is handled during the wait for the context |
| `ReportReady`, `Serve` | constructor of `ProbeManager` |
| `ReceiveRequest`, `RefuseRequest`, `MethodReturns`, `MethodThrows`, `MethodAborts` | the request half of `ProbeManager::run` |
| `TimerExpires`, `ProbeReturns` | its sampling half |
| `Arm` | `scheduleNextProbe` after the answer to START |
| `Crash`, `Exit` | death of the process; end of `main`, or SIGTERM |
| `RequestLost` | the connection to a process that has gone (external) |

A plugin method takes two steps (the call and its outcome), so that a timeout, a
crash or the daemon's own steps can come between. `running` stays set when a
method never returns. After START the ProbeManager replies first and sets its timer
then: in between (`arming`) the daemon may have gone on to its run phase.

No socket has a linger time. A container whose process has died with a request not yet
received may still have it in its REQ socket, and then `zmq_ctx_destroy` does not return
(`HoldsContext`) until a handled signal interrupts it; what had left the socket before is
lost instead (`RequestLost`). The main thread is in its delete loop at that time, so
the containers that follow are not deleted.

Abstractions. A request or reply is its type and whether it is an error. The
sockets of one exchange are two sets, since at most one message is ever in them
(which `OneExchange` states and does not assume). Topic names are one bit, whether
the container has them. A timeout may come at any moment while a transaction
waits. The exchange between the log service and a new probe's log client, bounded
by 10 s and without effect on the container, is left out. Messages are well
formed. DESTROY of a plugin that throws is answered with success, as in the code.

### PluginLifecycle: what a plugin may rely on

The abstract specification. It knows only a plugin's process and the calls on it:
CREATE, then INITIALIZE, START and STOP, each at most once and only after the
success of the one before; DESTROY at most once, after anything but a failed
construction; samples after a successful START, and also after STOP. ProbeSession
implements it under the mapping `alive <- the process is in run() or before it`;
the method on the stack and the outcomes are shared variables. TLC checks
`PluginContract` on two probes, `ImplementsContract` proves it.

### ProbeSchedule: when a probe is sampled

The wall clock in seconds, the slot the timer is set for, and the label of the
last reports. `NextSlot` is `scheduleNextProbe`. `Tick` moves the clock, by more
than one slot if need be, so that `probe()` can be slow; `SetBack` is an
adjustment of the clock, and `back` counts its seconds, in whose terms the bounds
are stated.

### Recorder: record file and index

The file is a sequence of messages with their place plus a length in bytes, which
differ once a write was torn; the table is a set of rows. `Receive`, `Insert` and
`Write` are the three steps of the report handler between which it can fail or
die: `InsertFails`, `WriteFails`, `Stop`. `good` is the state of the C++ stream: a
failed stream ignores later writes and its `tellp()` is -1, so that rows after a
failed write point to offset 3. The reader is `otestpoint-filter`: `Select`,
`ReadMessage` and `Interrupt` are its SELECT, the loop over its rows and its early end.
While rows remain to be fetched SQLite locks the table against the recorder, whose
statements then fail at once, without a busy timeout: reports are lost, and a recorder
that starts again empties the file and ends. The message of the last row is read when
the lock is gone, and not in the model. `OpenFile` and `CreateTable` are two steps of the
constructor, with a possible end between them. What SQLite itself leaves behind without a
journal (`journal_mode = OFF`) is not modelled: neither when it dies inside a statement,
nor when an INSERT fails for lack of space, which is then not rolled back. A failed
INSERT leaves the table as it was, which is what SQLite does when the key is there
already or the table is locked.

### ProcessingThread: the two threads of a daemon

Controller, broker and recorder have the same shape: the main thread constructs a
processing thread, sends it READY, ADD and END over a pair of inproc sockets, and
joins it. `daemon` says which of the three it is: only brokers and recorders await
an answer to ADD. `main` and `thread` are the places of the two threads, `commands`
and `responses` the two directions of the pair.

| Action | Code |
|---|---|
| `SendReady`, `ReadyAnswered`, `ReadyTimesOut` | the constructors |
| `SendAdd`, `AddAnswered`, `AddTimesOut` | `add`, `ControllerImpl::initialize` |
| `SendEnd`, `EndAnswered`, `EndTimesOut`, `Join` | the bodies of the destructors |
| `CloseContext`, `Interrupted` | the destruction of `pContext_`; a handled signal during it |
| `Connect`, `Bind`, `SetupFails` | `process()` before its loop |
| `HandleReady`, `HandleAdd`, `AddFails`, `HandleEnd` | the commands in its loop |
| `GiveUp`, `QueueReport` | `discoverRemote` after its second; a report to a client that does not read |
| `Released` | such a message is taken, or its connection ends (external) |

The response that a transaction reads is the first in the queue, whichever command
it answers; the main thread looks only at success or failure. Discovery and reports,
which the same loop handles, appear as the time it takes to come back to the
commands, and can be long enough for any timeout; and as `held`, a message that is left
in a socket because nobody takes it. None has a linger time, so that such a message
keeps `zmq_ctx_destroy` waiting in the destructor, after the thread was joined. It can be a
broker's discovery request to a testpoint that never came up, or a report to a
client that is connected and does not read. `MainEnds` names this wait as its only
exception. Two hangs that no document
excludes show in the model as states without a next step: a constructor whose READY
timed out joins a thread that is only slow, and a send to a controller thread that
has ended with an exception waits for a peer that will not come back.

### Discovery: what can be found through tiers

Controllers answer with the topics of the probes that were added, brokers with the
union of what their remotes answer, clients (`otestpoint-discover`) ask one of them.
`waiting` and `orphans` are the requests a testpoint has not taken yet: of askers
that still wait, and of those that have gone. `serving` and `progress` are a broker's
loop over its remotes, whose request it opens a new REQ socket for.

| Action | Code |
|---|---|
| `ClientAsks`, `ClientQuits` | `otestpoint-discover` |
| `AddProbe`, `Answer` | ADD and discovery in `ControllerImpl::process` |
| `AddRemote`, `Take`, `Finish` | ADD and discovery in `BrokerImpl::process` |
| `Ask`, `AskFails`, `GiveUp` | `discoverRemote` |
| `Crash`, `Restart` | processes that end and are started again (external) |

`GiveUp` may happen at any time while a remote is awaited, before or after the
remote took the request. An answer reaches its asker in the step that sends it: an
answer on its way that the asker no longer awaits is the same as one sent later.
Requests of one asker at one testpoint never coexist, so `waiting` is a set; that a
broker closes its socket before it asks again is what makes it so, and
`AnswersReachTheirAsker` what would catch it if it did not. A crash loses the
requests at the testpoint or leaves them with their senders, as ZeroMQ may do either.

A client carries two auxiliary sets. `due` are the topics that could be found when
it asked, less those below a testpoint that a broker working for it gave up on or
that crashed. `may` are the topics that some running controller has offered since it
asked. An answer lies between the two.

Which testpoints a broker reaches (`Reached`) and which brokers work for a client
(`WorkFor`) are the least sets closed under a step of the relation, and not recursive
definitions, so that they can be reasoned about. `Remote` may be any function, and a
broker may be its own remote. In a cycle every request that times out leaves another one
circulating, without end; the runs use trees, and the proofs hold for cycles as well.

### PubSub: subscriptions and reports

A deployment is a set of `Links`, each from the process that binds to the one that
connects: probe to controller, testpoint to broker, testpoint to client. A client is
a recorder, which subscribes to everything, or `otestpoint-dump`, which names topics.

| Action | Code |
|---|---|
| `Subscribe` | the constructor of the recorder's thread; `otestpoint-dump` |
| `Link` | ADD in the `process()` of controller, broker and recorder; reconnection |
| `ForwardChange` | XPUB to XSUB in `ControllerImpl::process` and `BrokerImpl::process` |
| `Publish` | the publishing half of `ProbeManager::run` |
| `ForwardReport` | XSUB to XPUB in both `process()` |
| `Receive` | the report handler of the recorder; `otestpoint-dump` |
| `Arrive`, `Disconnect`, `Crash`, `Start` | sockets and processes (external) |

What ZeroMQ does is modelled from how the code uses it. An XPUB socket keeps what each
peer subscribes to (`table`), gives its reader the changes that are new to it
(`changes`), and drops a report for a peer whose queue is full. An XSUB socket keeps
what was sent on it (`mine`) and sends all of it to a peer it is connected to again. A
connection that is lost takes back its subscriptions at the upper end and loses what
was on it; both ends notice at once, and what had got through counts as read before.
A message of several parts is one report: the forwarding loops copy all parts before
they poll again. Discovery, which the same threads serve, appears as the time in which
they do not forward and queues fill up.

`due` is auxiliary: the reports of a probe that were published after a filter of the
client had been passed up to it, less those that a full queue on their way dropped, or
whose way was broken. The deployment has at most one way from a probe to any other
process (`TreeAssumption`). With two, or in a cycle, a report comes twice or goes round,
as nothing recognizes it. Ways of different probes may join and part. `Route` is the
links of one of them.

### ReportStream: what a subscriber may rely on

The abstract specification knows the reports of each probe, what a client has asked
for and what it has got. A client gets only what was published and asked for, and the
reports of a probe in their order, none of them twice; it may miss some. PubSub
implements it for any number of tiers between probe and client: `wanted` is what the
client's own filters cover.

### LogService: levels and records

The thread that owns the service, the thread of the service, and the clients in the
order in which they are added.

| Action | Code |
|---|---|
| `AddClient`, `AddClientFails` | `ServiceImpl::add` |
| `SetLevel`, `SetNext` | `ServiceImpl::setLevel`, one step per control socket |
| `Confirm`, `TimeOut` | `Toolkit::transaction` in both, whose result nobody looks at |
| `Destroy`, `SendEnd`, `Join`, `CloseContext` | `~ServiceImpl` |
| `Setup`, `TakeCommand`, `ConnectFails`, `TakeLog` | `ServiceImpl::process` |
| `TakeLevel` | `ClientImpl::process` |
| `Log`, `SendTopic`, `SendRecord` | `ClientImpl::log_i` and the level it looks up |
| `Link`, `Leave` | connections, and the end of a client (external) |

`exchange` is the transaction on each control socket: a REQ socket whose answer was
not read refuses the next send, which is how `setLevel` comes to throw. `halfway` and
`ending` are the places between a command and a record that the same poll found. The
transport decides at its first part where a message goes and hands it over at its
last; that two threads of one client send their parts in between each other is what
makes a message of three parts, or of two topics. ZeroMQ forbids the use of a socket
by several threads altogether; only the interleavings of whole `zmq_send` calls are
modelled. A record is the number its client sent it as, and its text, host and time are
left out. `RecordsInOrder` therefore says more of a client with one thread: that it
misses none while its queue has room. With several (`Shared`), a record can be left
without its topic, and the service, which subscribes to that, does not get it; what
remains is the order. `setLevel` has no caller in the repository: the model calls it at any time.
Clients are up from the start, their endpoints known.

### StringTo: numbers in options and configurations

A text is a sign, digits, a point, more digits and a suffix; `Scaled` moves the point
as `scaleNumericalStringRepresentation` does, and `Integer` and `Double` do what the
library and the ranges make of the result. `Significand` and `Exponent` say what the
text means. Integers are `Bits` wide, so that overflow, wrap-around and the
limits of a range of `NarrowBits` all come into reach of three digits. Plus signs,
white space, hexadecimal digits and exponents are left out, as are the rounding and the
limits of doubles, and `strToBool`. A behaviour of `Conversion` is one call: a text and
a kind of number are `Given`, and `Convert` ends it with a number or an exception. `Power`
and `Number` are recursive functions, so that the proofs can be about them. A text
without digits means no number; `AcceptedIsMeant` says which of them are accepted all
the same.

### Application: signals

The steps of `Application::main` in order, the mutex that its last part locks twice,
the handlers that unlock it, and the signals sent and not yet delivered. A signal
without a handler kills the program. `Fails` stands for every early return and
exception. The C++ standard leaves the unlock of a mutex that nobody holds
undefined; in glibc a mutex of the default kind stays unlocked.

## 3. Runs

| Run | Instance | Question |
|---|---|---|
| `ProbeSession` | 2 probes with a timeout | safety of the session, the plugin contract, that setup ends, and what a shutdown leaves |
| `ProbeSchedule` | rate 3, clock up to 20, set back by up to 4 in total | grid, pace, labels, no slot twice |
| `Recorder` | 3 keys, messages of 1 or 2 bytes, 4 reports per start, 1 reader | index and file agree, for readers too |
| `ProcessingThread` | each kind of daemon, 6 endpoints | answers and endpoints out of step; shutdown |
| `Discovery` | broker over a controller and a broker with a controller of its own, 3 topics, 2 clients, 2 requests, 1 crash | what an answer holds |
| `DiscoveryLive` | broker over a broker over a controller, 1 client, 2 requests, 1 crash | clients are answered, requests die out |
| `PubSub` | a probe, controller, broker and 2 `otestpoint-dump` with one filter for 2 topics, 2 reports, 2 failures | what subscribers get, and that subscriptions settle |
| `LogService` | 2 clients, one with 2 threads, levels 0 and 1, queues of 1, 2 records, 1 `setLevel` | levels, records and the end of the service |
| `StringTo` | up to 3 digits of 0, 1, 2, 5, 6, 7, 8; K and M; 10 and 8 bits | numbers are what their texts mean |
| `Application` | 4 signals | a daemon stops for a signal, and only for one |

Two probes are enough for the loops of the main thread (a first and a last
container, one before and one after the one that fails); probes do not communicate
with each other, and the proofs cover every number. A commthreshold of 0 only takes
away the timeout; the proofs cover every set of probes that have one. A
rate of 3 has slots with two times between them, and a clock up to 20 makes room
for six slots and a slow `probe()` that misses several. The clock may be set back
by more than a slot. Three keys and four reports let a key come again after
others, and the restart loop makes the number of starts unbounded.

Six endpoints let timeouts, late responses and punctual ones alternate in any order
of six transactions. The tree of `Discovery` has a first remote that is itself a
broker and a last one that is a controller, so that a late or missing answer has a
wrong place to end up in; a client at each broker makes the lower one serve two
askers. With two requests a second exchange follows, or overlaps, one that was given
up on. A crash can hit either tier, and testpoints start again. Four signals are more
than the two handlers, and than the two locks.

`PubSub` has two testpoints between probe and client, so that changes and reports are
forwarded more than once, and the two clients ask for the same topics: the end of one
must not take the other's reports away. (Filters that differ but overlap are left to the
proofs; two of them exceed the time of a run.) A queue of two before the controller lets
reports be reordered if they could be, queues of one behind it are full at the second
report. A failure may be a lost connection or the end of any process, while
subscriptions of either client are on their way or not made yet; connections come back
and testpoints start again without a bound. In `LogService` a client before and one
after the one that does not answer show how far a level gets, in either order, since
either can be silent; a second setting meets the sockets of a first that timed out
(that of `add`). Two records, of any of the threads, are enough for all interleavings of
the parts of two threads, for a gap and for a wrong order; what further ones do is left
to the proofs. The digits of `StringTo` make up the limits of both widths and
their neighbours (127 and 128, 255 and 256, 511 and 512, and 1K against 1.1K for 1023),
with a point before, inside and behind them; 7 and 8 are a digit octal numbers have and
one they lack.

Runs that end in a violation show where the code departs from what its documents
say:

* `ProbeOnlyWhenRunning`: `probe.py` says probe() is only called in the running
  state. STOP leaves the timer set, so a stopped plugin is sampled.
* `HandledSignalStops`: the handlers are installed before the mutex is locked for the
  first time. A signal in between is handled, unlocks nothing, and the daemon waits
  for another one.

Other divergences need no run to be seen:

* The state diagram in `probeplugin.h` leads to *destroyed* only from *stopped*, but
  DESTROY is sent to every container (`PluginLifecycle` states what the code does).
* A comment in `probemanager.cc` speaks of a CLOCK_MONOTONIC timer. It is a
  CLOCK_REALTIME one, and timestamps come again when the clock is set back, by as much
  as `StampsIncrease` says.
* `recorder.h` says all received probes are logged. A report with the key of an earlier
  one is dropped, and any that comes while `otestpoint-filter` is at work
  (`InsertFails`).
* `strToUINT64` and its variants accept negative numbers and wrap them, and a zero in
  front, also one that scaling leaves there, makes a number octal.
* `stringto.h:86-87` says that an error of the input format throws. A suffix without
  digits (`K`, `-K`, `.K`) is accepted as 0: the zeros that scaling appends are digits.

Deadlock is checked for the recorder. The session really stops: when the daemon
has ended, or waits for a READY or a reply that will not come. The schedule stops
when its clock reaches the bound, discovery when there is nothing left to ask, PubSub
when everything is published and delivered, a conversion when it is done, the log
service when it has been destroyed or waits for a thread that has ended; the programs
of `ProcessingThread` and `Application` when they have ended or hang as described
above. The type invariants of `ProbeSession`, `ProbeSchedule`, `ProcessingThread` and
`Application` are proved and not repeated in their runs.

### Fairness

In ProbeSession `FairSpec` promises two things. The main thread takes its next step when
it can (weak fairness): it is a running thread, and a poll with a timeout returns. A
process that has left `run()` or was sent SIGTERM ends (weak fairness of `Exit`).
Nothing is promised of the probe process's loop, of user code, of the operator's
signals, of early ends or of the connection to a process that has gone. Therefore
`ShutdownEndsEveryProcess` holds only for behaviours in which no context is held for
good; in those where one is, it says where the main thread stays: in the destructor of a
container whose process has died, with the processes up to this one ended.
`SetupCompletes` starts after construction because READY is awaited without a timeout. A
poll that is interrupted by signals again and again would start its timeout anew; a
finite number of signals is assumed.

In ProcessingThread both threads run (weak fairness of each): a wait of the main
thread ends by a response or by its timeout, and the processing thread comes back to
its commands, since everything else it does is bounded. Nothing makes the program end
its run (`SendEnd`), a signal come, or a receiver take a message that is held.

In Discovery the threads run: answering, asking and finishing are weakly fair, and so
is giving up, because a poll times out. `Take` is strongly fair for each asker: a REP
socket takes requests from its peers in turn, so that a broker that is idle again and
again does not pass over one of them forever. Nobody has to ask, quit, crash or be
started again, and no probe or remote has to be added.

In PubSub connections between processes that are up are made, changes and reports
arrive, and the threads forward (weak fairness of each link and testpoint): ZeroMQ
reconnects by itself, and the loops poll all their sockets. Nobody has to subscribe,
publish, fail or be started again.

In LogService the owner of the service and its thread run, a wait ending by an answer or
after ten seconds, and a client that is up takes its levels. Nobody has to log, to add a
client, to set the level or to end the service; a client may be gone at any time.

In Application the main thread runs and signals are delivered (weak fairness); none
has to be sent.

## 4. Proofs

`ProbeSession_proofs` holds for every number of probes `N >= 1` (the schema of the
configuration asks for at least one) and every set of probes with a timeout.

The safety properties are not inductive. `OneExchange` after a timeout needs to
know that the container whose socket still awaits a reply has failed; that no
later operation sends on it needs the state of the socket; that a plugin's last
call is the one its container completed needs to know where an outstanding
exchange is. `IInv` puts this together in parts:

* `MainInv`: where the main thread can be, and what an awaited reply answers;
* `ExchangeInv`: an exchange is in one place, a request, a call or a reply;
* `GaveUpInv`: a socket that awaits a reply outside a transaction belongs to a
  failed container;
* `ProcInv`, `DestroyInv`: a call runs in a serving process, and after DESTROY the
  process leaves its loop;
* `OrderInv`: a request on its way is one the plugin is ready for;
* `AgreementInv`: what a container that has not failed knows;
* `NamesInv`, `TimerInv`: names come before START, and START before the timer, which is
  set when the process has left `arming`.

There is one lemma per action, each with one step per part. From `Invariance`
follow the six safety properties of the run, and `ImplementsContract`: every step
of the system is a step of `PluginLifecycle` or leaves the plugins alone.

`ProbeSchedule_proofs` holds for every positive rate and every bound on the clock and
its adjustments. The grid and the pace (`AlwaysOnGrid`, `PromptKeepsPace`)
do not depend on adjustments at all; `ClockBounds` and `StampsAlwaysIncrease` bound
what they can do by `back`. Beyond the properties, the invariant needs that a sample
under way was due.

`ProcessingThread_proofs` holds for every number of endpoints and each kind of
daemon. What `SurplusIsTimeouts` counts is the commands in the queue that await an
answer, a set whose size changes by one only because READY and END are alone in the
queue. `IInv` has these parts:

* `CommandsInv`: READY comes before every ADD, and END after all of them;
* `ThreadsInv`: where one thread is tells where the other can be;
* `AddsInv`: every ADD sent is carried out or in the queue;
* `SurplusInv`: the count, in terms of the queue's length and its two ends.

There is one lemma per action of the processing thread and per command sent, one for
the waits, and `AskedCount` leads back from lengths to the set. From `Invariance`
follow `SurplusAlwaysTimeouts`, `LagIsBounded` and `JoinedThreadIsComplete`: the last
one is why it is harmless that the destructor may take an earlier response for END's.

`Application_proofs` is about what a program gets from outside, signals and texts. It
shows `StopsOnlyBySignal` for any number of signals. The invariant says what happens
between the two locks: the mutex, locked once, is free again only after a handler ran
(`MutexInv`), and a call of the life cycle was made only if its step is done
(`CallsInv`).

It also shows `AcceptedIsMeant` and `MeantIsAccepted` of StringTo, for texts of any digits
and any length, suffixes of any powers and integers of any two widths. One step makes a
result, so the invariant `ConversionInv` is short; the argument is about the digits:

* `NumberFacts` and `PowerFacts`: what another digit and another factor do. `ValuesExist`
  and `ValuesAgree` say that the recursive functions of `Number` and `Power` exist and are
  the only ones.
* `ZerosMultiply`: zeros behind digits multiply their value by a power of ten, so
  `ScaledNumber` gives the text with its point moved to the end the value that was meant;
  `ScaledFraction`: a point that stays leaves the digits as they are.
* `ZeroIsZeros`: digits of the value zero are zeros, in any base; hence only a zero in front
  of other digits can make the library's octal reading differ (`ScaledInBase`).
* `NoDigits`: a text without digits is accepted only as the zeros of its suffix.
* `PowersGrow`: the limits of a narrow type are within those of the widest, so no number in
  the range overflows what the library reads (`KindFacts`).

The prover cannot apply the library's rules of induction, which are about operators.
`Induction` is about sets instead: a set that has 0 and with each number the next one has
them all, since the numbers that it lacks would have a least one (`WFMin`).

`Recorder_proofs` holds for every set of keys, every size of the messages, any number of
reports, and with and without a reader. `IndexIsExact`, `StreamIsWellFormed` and
`RowsLeadToTheirMessage` are proved together, since each step appends to the file what the
row of an earlier step announced. What they need besides:

* `CurrentInv`: a report being handled is written where its row says, while no write has
  failed;
* `OpeningInv`: the table is made for an empty file;
* `ScanInv`: the table does not change under a reader.

`LogService_proofs` holds for any clients, threads and levels, any number of records and
settings, and queues of any length. It has three invariants:

* `LevelInv` for `LevelsFollow`: the loop of `setLevel()` is at a client (`PositionInv`),
  an answer means its client has the level it was sent (`ExchangeInv`), and those that the
  loop has passed with a usable socket have the level of the service (`FollowInv`);
* `PairInv` for `OnlySharedClientsMix`: the queue of a client with one thread holds whole
  records, and it is between the two parts of one only where its thread is;
* `OrderInv` for `RecordsInOrder`: what was written and what is in the queue of a client
  form one increasing chain of numbers up to those sent (`Chain`), and a client that was
  heard and never overflowed has nothing missing in it (`Heard`, `UpToDate`).

`PubSub_proofs` holds for any graph of probes, testpoints and clients with one way from a
probe to a process, any topics, finitely many filters with any overlap, and any number of
reports and failures.

* `ReportsAreStreamed`: every step is a step of `ReportStream` or none. A client gets
  the reports of a probe once and in order because there are marks, one per process and
  probe, up to which it has passed them on (`MarkInv`): a report on its way lies between
  the marks of the two ends of its link. No variable of the model holds these marks, so
  the invariant says that they exist. That it gets only what was published and asked for
  is `OriginInv` and `ClientInv`.
* `NothingIsMissed`: the subscription that makes a report due remains in every table on
  the way while it is due, and so the report is at the client or on one link (`DueInv`).
* `SubscriptionsSettle`: the changes on their way up a link, made to what its upper end
  holds, give what its lower end subscribes to (`AskedInv`); those a testpoint has yet to
  pass up, made to what it subscribes to, give the union of the tables below it
  (`ChangesInv`). The order of the changes is what counts, and the invariant is about the
  last change of each filter.

`Discovery_proofs` holds for any controllers, brokers and clients, remotes in any order,
cycles among them included, and any number of requests, crashes and restarts.

* `NoAnswerIsTakenForAnother`: a request that has not gone over to the orphans is that of
  an asker who awaits exactly this testpoint, and is in one place (`ReachInv`).
* `NothingIsAnsweredFromMemory`: what the brokers working for a client have got is among
  what was offered since it asked (`FreshInv`), and a restarted process starts with
  nothing (`DownInv`).
* `SilenceCostsOnlyItsOwn`: what a client is due can be found where its request waits, or
  a broker working for it has it or has yet to ask a remote it is present at (`DueInv`);
  and what a broker has got comes from below it (`GotInv`), so that giving up on it costs
  nothing else.

The proofs changed the models where these were wrong. `RecordsInOrder` used to be stated
without exception for clients that several threads share, and is false for them from two
records per thread on, more than its run had then. In PubSub, the step that ends a
connection passed the end of a filter up although another peer still had it; its run had no
two clients with the same filter. The runs now have both, and the statement and the step
are as in the code.

What is assumed of the constants is stated with them: names of different kinds of process
differ, bounds are natural numbers, queues have room for a message, an order of clients
has none twice, and the one way from a probe in PubSub. The configurations of the runs
satisfy all of it.

Only model-checked:

* the liveness properties (`SetupCompletes`, `ShutdownEndsEveryProcess`, `MainEnds`,
  `SignalEndsTheWait`, `ClientsAreAnswered`, `RequestsDieOut`, `SubscriptionsSpread`,
  `DestructorReturns`): the prover has no rules for fairness and ENABLED.

Every safety property of the runs is proved.

## 5. Not modelled

XML configuration, address lookup, reference-counting wrappers, the conversion of
Python values, the layout of log lines, `strToBool`, packaging and the sample plugins:
pure input and output, or library calls without state of their own. The tools that
print recorded streams read what `StreamIsWellFormed` says can be read; their output is
not modelled. The Python logger object shares the log client of its process
and deletes it, as the process does again at its end: a fault of memory management that
the daemon sees as the end of the process. The constructor of a log client waits without
a timeout for its thread, as that of a container does for READY.

## 6. Plan

1. The loop of `otestpoint-print` against what `Recorder` and `otestpoint-filter` put
   out, records that are cut short included.
2. Discovery in a cycle of brokers: what a bound on the requests would have to be. Its
   safety is proved for cycles; that requests die out holds for trees only.
3. Proofs: what PubSub keeps of the order of reports where two ways lead from a probe to
   a client, which `TreeAssumption` leaves out.
