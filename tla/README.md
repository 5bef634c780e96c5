# FastPort in TLA+

A verification project kept beside FastPort, a C++20 networking framework for
Windows with an IOCP back end (`LibNetworks`), a Registered I/O back end
(`LibNetworksRIO`), common utilities (`LibCommons`) and servers, clients and
benchmarks built on them. Paths below are relative to the repository.
`PROJECT.json` maps every definition that models code to its source lines, and
lists runs, mutants, hazards, findings and theorems.

## 1. The system

| Component | State | Operations | Hard behaviour |
|---|---|---|---|
| `IOSession` | the flags `m_RecvInProgress`, `m_SendInProgress`, `m_DisconnectRequested`, `m_bOnDisconnectedFired`, `m_ReceiveLoopStarted`; `m_OutstandingIoCount`; two OVERLAPPEDs; receive and send ring | `StartReceiveLoop`, `RequestReceived`, `SendMessage`, `RequestDisconnect`, `OnIOCompleted` | several workers run the handlers of one session at once; life ends when the last of {pending I/O, handler, poster} leaves |
| `InboundSession`, `IOCPInboundSession` | entry in the session container | `OnAccepted`, `OnPacketReceived`, `OnDisconnected` | sends from inside the receive handler; removal from the container frees the session |
| `OutboundSession`, `IOSocketConnector` | connect OVERLAPPED, mode, list of sessions | `Connect`, `ConnectEx`, `FinalizeConnect`, `DisConnect` | ConnectEx is one more counted operation |
| `IOService` | port handle, worker threads, running flag | `Start`, worker loop, `Stop`, `Wait` | error paths of `GetQueuedCompletionStatus` end a worker |
| `IOSocketAcceptor` | posted AcceptEx contexts | `Start`, `OnIOCompleted`, `ShutDown` | every exit must post the next accept |
| `PacketFramer`, `Packet` | none | `TryPop` over the receive ring | 16-bit length, partial headers |
| `CircleBufferQueue` | `m_Buffer`, `m_Head`, `m_Tail`, `m_Size`, capacity | copying, reserving and zero-copy calls | spans outlive the lock |
| `TimerQueue` | map of entries, `m_QueueState`, per-entry state | `ScheduleOnce`, `SchedulePeriodic`, `Cancel`, `Shutdown`, callbacks | waits for callbacks, cancels from a callback |
| `SessionIdleChecker` | `m_Running`, `m_TimerId`, counter | `Start`, `Stop`, `OnTick` | ticks race handlers and `Stop` |
| `RIOSession`, `RioBufferManager`, `RIOService` | request queue, slices of one registered region, pending list | `RequestRecv`, `SendMessage`, completions, poller | no outstanding counter, no once-guard |
| `ThreadPool`, `EventListener`, `Container`, `RWLock` | queues, locks | post, stop, add, remove | shutdown with queued work |
| `ServerStatsCollector`, `StatsSampler`, `AdminPacketHandler` | samples, summaries | sample, answer | raw pointer used by workers |
| `ServiceMode`, `IOCPServiceMode`, `RIOServiceMode` | service status, owned components | start, stop | order of teardown |
| `Socket`, `Logger`, `StrConverter`, `Protocols`, clients, benchmark, GUI test client | thin wrappers, output, generated code | | mostly I/O and presentation |

How they interact. `IOSocketAcceptor` completes an AcceptEx and calls
`OnAccepted`, which puts the session into the container and starts its receive
loop. From there the `IOService` workers own the session: each dequeues a
completion and runs `OnIOCompleted`, which frames packets, calls
`OnPacketReceived`, and that answers with `SendMessage` on the same session.
Meanwhile the timer thread of `SessionIdleChecker` walks a snapshot of the
container and calls `RequestDisconnect` on idle sessions, and the client
programs call `SendMessage` from their own threads. Whoever sees the last
outstanding operation leave after a disconnect fires `OnDisconnected`, which
takes the session out of the container. In the RIO server one polling thread
plays the part of the workers, and sessions send from slices of one registered
region. Around all this stands the service process: the Windows service control
manager calls the hooks `OnStarted`, `OnStopped`, `OnShutdown` of a service mode,
which build and tear down acceptor, idle checker, sampler and admin handler while
workers and timers run. On the client side a connector makes an outbound session
with ConnectEx and lets it go once it is active; the benchmark runner installs
handlers on such sessions and waits for them with time-outs.

What makes it correct: the counter is exact; at most one WSARecv and one
WSASend per OVERLAPPED; a live session always has a receive armed; a requested
disconnect ends in exactly one `OnDisconnected`, on a session nothing refers to
any more; messages leave once, whole and in order; the ring is a bounded FIFO
under all its users; every accept slot is used again; what a timer, a worker or
the kernel still uses is not destroyed; a control of the service is answered; a
benchmark ends, and its samples pair each request with its own response.

## 2. Modules

| Module | What it is |
|---|---|
| `IOSession` | the IOCP session with `IOCPInboundSession` and the idle tick on top |
| `IOSessionProofs` | theorems about it |
| `MCIOSession` | instances for TLC |
| `ByteQueue` | abstract: what `IBuffer` promises, a bounded FIFO with reserved cells |
| `CircleBufferQueue` | the ring, and the spans its users hold |
| `CircleBufferQueueProofs` | theorems about it |
| `MCCircleBufferQueue` | instance for TLC |
| `TimerQueue` | timers, callbacks, cancel, shutdown and the destructor over the Windows thread pool |
| `TimerQueueProofs` | theorems about it |
| `MCTimerQueue` | instances for TLC |
| `RIOSession` | the RIO session with `RIOInboundSession`, its slices and the completion poller |
| `ServiceMode` | the Windows service process and the install, stop and uninstall commands |
| `ServerLife` | extends `ServiceMode`: both servers from start to exit, with acceptor, IOCP workers, RIO worker, idle checker, sampler and admin handler |
| `OutboundSession` | connector and client session: who holds what while I/O is pending |
| `Benchmark` | extends `OutboundSession`: the benchmark runner, its main, and the echo client |
| `RIOSessionProofs`, `ServiceModeProofs`, `ServerLifeProofs` | theorems about those three modules |
| `BenchmarkProofs`, `BenchmarkSampleProofs` | theorems about `Benchmark`: its sessions, its measurement |
| `MCRIOSession`, `MCServiceMode`, `MCServerLife`, `MCBenchmark` | their instances for TLC |

### IOSession

One session, a set of threads (the acceptor, IOCP workers, threads that send on
their own, idle ticks). Each step of a thread is one shared access of the code
(an atomic load, store, CAS or fetch_add, a call of a ring buffer, a Winsock
call); `pc` names the next one, with a prefix per function: `sr_`
StartReceiveLoop, `rr_` RequestReceived, `rv_` RequestRecv, `hr_` the receive
handlers, `rb_` ReadReceivedBuffers, `hs_` HandleSendCompletion, `sm_`
SendMessage, `tp_` TryPostSendFromQueue, `rd_` RequestDisconnect, `fire`
TryFireOnDisconnected, `guard` ~IoCompletionGuard. `retS` and `retD` are the
return addresses of the two nested calls. The state variables keep the code's
names; `kRecv`, `kSend`, `cq` are the kernel's: pending operations and the
completion port's FIFO.

A worker that dequeues a failed completion either runs the handler (`Dequeue`) or,
when the error is ERROR_CONNECTION_ABORTED, breaks out of its loop without
calling the session (`WorkerAborted`, iOService.cpp:53; line 61, which names the
error again and would call it, is unreachable). Which error a failed operation
reports is the kernel's choice and free in the model. A worker at `ended` keeps in
`comp` the completion it swallowed, and the properties name what that leaves
behind: a unit of the counter, an in-progress flag, a session without a receive.

Abstractions of data. A message is one unit of the send buffer, numbered in the
order `AllocateWrite` reserved it; a send takes the units the ring shows at that
moment, a unit not yet written counts as `Stale`. The receive buffer is a number
of units, and framing returns any result that number allows (need more, a
packet of 1..n units, invalid). The last receive time is reduced to "not 0",
which is what the idle tick tests before its threshold; whether the threshold has
passed is free.

Left out, because no state the code can reach depends on it: the byte
statistics, null socket and null buffer branches, the CommitWrite failure branch
(`CommitFits` shows it unreachable), the failed completion that carries bytes
(Winsock has none), `SendBuffer` (no caller in the repository). `Shutdown` and
`Close` of the socket are one step. Reuse of a closed socket handle by the
operating system is not modelled.

### CircleBufferQueue and ByteQueue

Every member function takes `m_RWLock`, so each is one action. What is
concurrent are the users, who keep spans after the lock is released: `reserved`
(writers between AllocateWrite and the end of their copy), `view` (the WSABUFs of
a pending send, with the bytes they showed at posting), `window` and `arrived`
(the WSABUFs of a pending receive and what the kernel has put there). The guards
marked "user" are the discipline the ring needs and cannot enforce: nobody
sends, pops or clears a reserved span that is not written yet, and a buffer that
receives directly has no other producer. The receive buffer of a session follows
it. The send buffer with two workers does not (section 4), which is a fact about
the session, not about the ring.

`ByteQueue` says what `IBuffer` promises, with no ring: a bounded sequence of
cells, where a cell is a byte or names the writer that still has to fill it.
`Cells` is the refinement mapping.

### TimerQueue

Application threads call Schedule, Cancel, Shutdown and the destructor; so do
jobs, on pool threads (`JobCalls` says which). A step is one shared access: the
map under `m_MapMutex`, an atomic, or a call of the thread pool. `pc` prefixes:
`sc_` ScheduleImpl, `ca_` CancelImpl, `sd_` ShutdownImpl and the destructor, `cb_`
TpTimerCallback and RunEntry. `entry` holds the fields of each Entry, `timer` the
pool's object behind it, and `Referenced` says who still owns a shared_ptr of the
Entry. The pool is modelled from its documented behaviour: a disarmed timer
queues nothing new, what is queued may still run, WaitForThreadpoolTimerCallbacks
waits for what runs and drops or waits for what is queued, closing does not stop
outstanding callbacks.

Times, names and logging are left out, as are exceptions of a job (they take the
same path as a return) and `ScopedTimer`, which only forwards to Cancel. A caller
knows only ids that a Schedule has returned, and the queue is destroyed only when
no other thread is inside a call.

Two ghosts name the timers for which the code promises less. `late` holds those
whose Schedule had passed its state check when a Shutdown began (the check, the
insert and the arming are three steps, and ShutdownImpl may begin between any two
of them); `deferred` those that were cancelled by their own callback, which waits
for no other callback of the timer. A property that is false for them excepts
them by name, so that it says how far the damage reaches, and nothing in the
instances or the guards keeps the two cases from happening. After an excepted use
of a freed Entry or of a closed timer the model goes on as if the memory were
intact. `Stalled` is the third exception: callbacks that wait for each other, or a
wait for a `late` periodic timer.

### RIOSession

One session from its creation by the acceptor's factory to its end. A step is one
critical section, one atomic access or one RIO call; the two mutexes are sets of
owners, so that a section that calls into another function can stay open over
several steps. The outgoing bytes are numbered in the order in which
`m_SendQueueMutex` admits them, which is what `StreamInOrder` is stated with;
messages are longer than one byte, so that the flush can stop in the middle of
one. Of the received bytes the model keeps how many there are and how long the
frame in front is. The kernel completes a posted request in whole, in part or with
an error, or refuses it: RIOSession.cpp only logs a refused RIOReceive or RIOSend,
which leaves the session without that request and without a disconnect. The ghost
`refused` remembers it, and `Clogged` is the other way to end there, a frame in
front that can no longer be completed in the full slice. `Freed` is the moment the
last shared_ptr of the session goes; no step is taken after it, because from there
on the code works on freed memory.

Left out: `WriteToBuffers` (no caller), `DeallocateSlice` (no caller), addresses
and logging.

### ServiceMode and ServerLife

`ServiceMode` is the Release build of the base class: what is reported to the
service control manager (SCM) before and after each hook and when a hook throws,
the control handler, and the three commands of the installer, each a process of
its own. The SCM is external: one control at a time, none for a service that is
stopped, starting or stopping. `hook` names the hook that runs. UnInstall is
modelled call by call: a service that cannot be opened is answered with true, the
result of ControlService is ignored, and the wait loop goes on while
QueryServiceStatus fails and the last status was STOP_PENDING, without a limit, and
ends at the first query that succeeds.

`ServerLife` extends it and gives the hooks their statements: `at` is the next
one. `has` holds the non-null members of the service mode, `timers` and
`ticking` the armed timers and the callbacks that run (what `Cancel` promises is
`QuietAfterCancel` of `TimerQueue`), `port` the completion port's FIFO with
accepts, shutdown keys and admin packets. An accept is one of
`BeginAcceptCount` slots. Sessions are only counted: their own life is in
`IOSession` and `RIOSession`. A path on which the code dies or uses what was
released ends in a value of `failure` and takes no further step. `lost` counts the
accept slots the code gives up on its three logged failures. The keys of
IOService::Stop are assumed to be posted: the code ignores the result of
PostQueuedCompletionStatus, and a key that is not posted would leave a worker, and
Stop, waiting.

Left out: the Debug branch of `Run` with `Wait`, the event log, the location of
the binary, what the collector counts and how answers are laid out.

### OutboundSession and Benchmark

`OutboundSession` is about ownership. The kernel has raw pointers only; a session
lives while the connector (kept by its own `m_pLifecycleHold` or by the
application), the application or a running handler holds it. Completions of
ConnectEx and of WSARecv run on two threads per session, which overlap as soon
as `OnConnected` has posted the first receive. Sending is left to `IOSession`.

`Benchmark` extends it with the runner of `LatencyBenchmarkRunner` (`run` is its
next statement), the handlers it installs, `SetState` as the two steps it is, main
of the benchmark, and the echo client's session with its container. A request is
a pair of phase and ticket, so a sample shows which request it timed and which
response ended it. Timed waits may end whenever their predicate is false.

Left out: arguments, payload pool, statistics and their output.

## 3. Runs

| Run | Instance | Question |
|---|---|---|
| `server` | 2 workers, 1 idle tick, failing posts, aborted completions, 2 receives with data, 1 message, buffers of 1 | `RecvLoopAlive`, `CommitFits`, `DrainedAtFire`, `SendFlagOwned` and, under fairness, `Reclaimed` for the server as deployed |
| `senders` | 1 worker, 1 application sender, 1 idle tick, failing posts, aborted completions, 2 messages, 2 receives | `TypeOK`, `OutstandingExact`, `SingleOutstanding` with sends from outside the handlers |
| `aborted_completion` | 2 workers, 1 idle tick | violation: a completion swallowed by its worker |
| `sent_twice` | 2 workers | violation: the send queue under concurrency |
| `ring` | capacity 3, 2 writers, 2 byte values | `RingOK`, `SpansDisjoint`, `ViewStable`, `CommitFits`, `ImplementsByteQueue` |
| `timer_calls` | 1 caller, 2 pool threads, 2 timers, up to 2 callbacks of a timer at once, jobs may call everything | `EntryAlive`, `HandleLive`, `NoTimerLeak`, `QuietAfterCancel`, `QuietAfterShutdown` |
| `timer_live` | 1 caller, 2 pool threads, 2 timers, jobs may cancel and shut down | `OneShotFires`, `ShutdownEnds`, `CancelReturns`: a job may cancel its own or the other timer, or shut the queue down |
| `rio_session` | 1 RIO worker (as `RIOServiceMode` starts), 1 sender, slices of 2 and 3 bytes, messages of 2 bytes, at most 4, frames shorter and longer than the receive slice, failing posts, a region with or without room | `StreamInOrder`, `PendingAccounted`, `OneRequest`, `RecvLoopAlive` and, under fairness, `Delivered` |
| `rio_freed` | 1 RIO worker | violation: lifetime of a RIO session |
| `service_control` | 2 commands, a service that can pause, failing calls and throwing hooks | `StopTold`, `Settled`, `CommandEnds` |
| `server_life` | both servers, 2 IOCP workers, 2 accept slots, 2 connections, 1 admin request, 1 throw | `AcceptPool`, `WorkersOwned`, `PointerValid`, `TickAlive`, `Answered` |
| `benchmark` | all four programs, 2 sessions, 1 warm-up and 2 measured requests, refused and lost connections | `PendingHeld`, `SampleOwn`, `AllMeasured`, `NoZombie`, `Ends` |

Bounds. The session's flags are Boolean and each OVERLAPPED is single, so two
workers already give every pairing of a receive handler with a send handler, and a
tick gives the third party. Buffers of one unit make full and empty adjacent; two
messages are the least that can be swapped, repeated or stranded (the properties
of `server` are about operations, not messages, and one is enough there); two
receives let the loop re-arm after data. `MaxMsgs` and `MaxRecv` bound only new
inputs, never a step of the code. In the ring capacity 3 gives every position of
head and tail, every split of a span at the end and all of empty, full and exact
fit (capacity 4 was also run once, with the same result, in about three minutes);
the theorems remove the bound altogether. Two timers and two pool threads are what
it takes for a callback to meet a second callback, its own timer's or another's,
and for two jobs to wait for each other; a caller and a job let a Cancel or a
Schedule meet a Shutdown (`timer_calls` was also run once with two callers, 9.3
million states, with the same result). In `rio_session` a slice of 3 takes one and
a half messages, so fast path, whole and partial copies, a wrap of the ring and a
full slice all happen; 4 messages fill slice and pending queue past a limit of 1
byte, so backpressure happens too. Two workers and two slots in `server_life` let
an accept be on its way while keys are posted, and one worker die while the other
goes on; one throw reaches every statement of every hook. Two sessions in
`benchmark` share the tickets of one phase, and two measured requests let an
answer of the warm-up arrive after the first of them.

Deadlock is not checked in the session runs: a session's life ends (fired,
removed, every thread idle) and its inputs are bounded. Nor in the timer runs: all
timers may be done and the queue destroyed. Nor in the four remaining runs, which end
with the session, the command, the process or main. It is checked in `ring`.

Fairness (`FairSpec` in `server`, `timer_live`, `rio_session` and `server_life`,
and in the violation `aborted_completion`, `SvcSpec` in `service_control`, `Spec` in `benchmark`). A thread inside the
session's code keeps running; an idle worker that has not ended takes a queued
completion, as `GetQueuedCompletionStatus(INFINITE)` in the worker loop does, and
may end with it if it failed; closing a socket completes everything pending on it,
as Winsock guarantees. Nothing is assumed of the peer, of new sends, or of idle
ticks. For the timers: a call or callback that has begun goes on, a job returns,
an armed timer expires, and the pool finds a thread for a queued callback; no call
is assumed to be made. For the RIO session: its threads run, and a posted send
completes or fails, as TCP does (`SendEnds`); a pending receive may stay pending
for ever. For the service: a hook returns or throws, a command goes on, and since
time passes a poll that is repeated for ever times out (strong fairness of
`StopTimeout`, which is disabled while a query is repeated); a call of the SCM
that keeps failing owes nothing. For the server: hooks, workers and callbacks run;
controls, clients and faults owe nothing. For the benchmark: threads run and timed
waits end; the network and the server owe nothing.

Every module a run instantiates has a type invariant. That of `IOSession` is part
of a run; those of the others say nothing a run could add to the properties beside
them and are kept for the proofs: each of them is a theorem. Each also holds in
the module's own instance, with one more line in the `.cfg`.

Every property of a passing run has a mutant in `PROJECT.json`: a plausible bug
in a mapped definition (a lost undo, a dropped re-arm, an index that does not
wrap) with which TLC finds the property violated.

## 4. Findings

1. `sent_twice`: HandleSendCompletion clears `m_SendInProgress` before Consume,
   so a second worker can post the same bytes again, where
   `docs/ARCHITECTURE_IOCP.md:223` consumes first.
2. `rio_freed`: a RIO request carries a raw session pointer and a session has a
   receive and a send outstanding. The first that fails calls OnDisconnected,
   which removes the only owner from the container; the completion of the second
   uses freed memory. `RIOInboundSession.cpp:78` says the I/O callbacks keep the
   session alive.
3. `aborted_completion`: a worker that dequeues a completion with
   ERROR_CONNECTION_ABORTED ends without calling the session. Its unit of
   `m_OutstandingIoCount` is never released, so a disconnect never reaches
   OnDisconnected and the session stays in the container, where
   `iosession-lifetime-race.plan.md:19` says that the workers process every failed
   completion and the last one runs OnDisconnected. Without a disconnect the
   session goes deaf or mute instead (`RecvLoopAlive` and `SendFlagOwned` except
   exactly this).

Other counterexamples, found while choosing the instances. The first two are a
change of a `.cfg` away; of the timers, dropping a named exception from the
formula gives the trace on the run's own instance:

- `DrainedAtFire` with an outside sender (as an invariant of
  `MCIOSessionSenders.cfg`): ~IoCompletionGuard decrements and then reads
  `m_DisconnectRequested`, and SendMessage does not look again after its
  fetch_add, so a sender outside a handler can post WSASend after the guard saw 0
  and before RequestDisconnect closes. `iosession-lifetime-race.design.md:294`
  (I8) says OnDisconnected always runs with the counter at 0. On the server,
  where only handlers send, the property is proved.
- `Reclaimed` in the same instance, cut to no closer, one message and one receive,
  with `FairSpec` and `PostFailures = FALSE`: UndoOutstandingOnFailure only decrements, where lines 355-363 of that document
  add a last check. A transient increment of a sender can hide the zero from both
  checkers; if its WSASend then fails nobody looks again and the session stays in
  the container.
- Schedule against Shutdown (`late`): ScheduleImpl checks the queue's state before
  it inserts. An entry that misses Shutdown's snapshot is armed afterwards and
  fires (`QuietAfterShutdown`; `TimerQueueTests.cpp:342`: "Shutdown must stop all
  further callback fires") and its timer object is never closed
  (`NoTimerLeak`); one that the snapshot sees can be closed before the Schedule sets
  it (`HandleLive`), and a Shutdown that waits for a periodic timer set behind its
  back may not return (`CancelReturns`, `ShutdownEnds`).
- Self-cancel with overlap (`deferred`): a periodic job that cancels itself does
  not wait for an overlapping or queued callback of its timer, which then starts
  with a freed Entry (`EntryAlive`; `global-timer-queue.design.md:324` says the map
  keeps it valid) or after the timer was closed (`QuietAfterCancel`).
- Circular waits (`Stalled`): two jobs that cancel each other's timer with wait, or
  a job in Shutdown that waits for a job in Cancel that waits for it, wait for
  ever (`CancelReturns`, `ShutdownEnds`).
- The send queue with two workers (`MCIOSessionSentTwice.cfg`): AllocateWrite makes
  a span readable before SendMessage has written it, so a send completion on
  another worker can send stale bytes (`Stale` on `wire`).
- And: a thread that won the send CAS on an empty queue clears the flag after
  another SendMessage lost its CAS; that message waits, with no send pending, for
  the next SendMessage.

The values of `failure` are counterexamples of the same kind; an invariant
`failure # "..."` gives the trace:

- `"freed_handler"` (`ServerLife`): a worker loads `g_pAdminHandler`, OnStopped
  stores null and releases the handler, the worker calls it.
- `"null_RIOService"`: OnStopped of the RIO server resets `m_RioService` but leaves
  the acceptor running; the session factory of the next accept dereferences null.
- `"joinable_worker"`: OnStopped of either server leaves the acceptor to the
  destructors, and ~IOService destroys joinable threads.
- `"dangling_handler"` (`Benchmark`): the early returns of the runner skip
  DisconnectAndWaitDrain while handlers that captured its locals by reference can
  still be called.
- `"handler_race"`: DisconnectAndWaitDrain replaces the disconnect handler while
  an I/O thread is about to call the old one.
- `"freed_session"` (`OutboundSession`): a drain that gives up after 5 seconds lets
  the session go with a receive pending.

And `SampleOwn` needs its premise: in the sequential benchmark a response that
comes after its time-out is taken for that of the next request. In a RIO session a
completion that fails between `Initialize`, which arms the receive, and `OnAccepted`,
which adds the session to the container, leaves an entry nothing will remove.
Slices of a closed RIO session are never given back. With as many
connection-aborted completions as workers, no worker is left (`WorkerAborted`,
`Taken`). A failing QueryServiceStatus keeps UnInstall in its loop for ever, and one
that succeeds ends it at once, so that UnInstall deletes a service it did not wait
for (`UnInstallQuery`). A connection of the benchmark that is lost after the last
response stores Failed before Completed, so that main prints results and still
returns 1.

Two more disagreements show in the text of the model alone: Shutdown(false)
passes its flag as "drop queued callbacks", so running callbacks are waited for
in any case (`CancelWait`, `CancelWaited`), and a completed one-shot entry stays
in the map with its timer object open (`CallbackLeave`) where
`global-timer-queue.design.md:168-170` removes it.

## 5. Proofs

Every proof module extends the component's module. Beyond the hypotheses a theorem
states, the only assumptions are that module's `ASSUME`s: finite, disjoint
sets of threads and natural, where needed positive, bounds. A theorem holds for
all values of the constants that satisfy them: any number of threads, sessions'
messages, timers, slots, any size of a buffer.

All theorems have one shape: an inductive invariant, a lemma per action that it is
preserved, and the property as a consequence. Each inductive invariant was first
checked by TLC on the instances of section 3.

`IOSessionProofs`
- `TypeCorrect`: `Spec => []TypeOK`.
- `CounterCorrect`: `Spec => []OutstandingExact`, for any number of threads: the
  counter is what is pending, queued, handled and being posted, plus one unit per
  worker that ended with a completion. The counter changes in four places and the
  set it counts in as many, but whether a worker that fires counts as a running
  handler depends on who called it. So the invariant adds `ThreadInv`: per thread,
  which label goes with which return label and which kind of thread. `CountInv`
  (TypeOK, ThreadInv, OutstandingExact) is inductive; the proof has one lemma for
  the steps that leave counter and counted sets alone (`RunCalm`) and one for
  those that do not.
- `ServerDrained`: `ASSUME Senders = {} PROVE Spec => []DrainedAtFire`. The
  property alone is not inductive: that the counter was zero when it was read
  says nothing about the step that fires. `AloneInv` says that while
  the acceptor activates the session nobody else is inside it, and `FireInv` that
  from the read of zero on (and once fired) the counter stays zero: without
  outside senders only a counted handler, a counted post or the activation can
  raise it. The assumption is needed: section 4 has the
  counterexample with an outside sender.
- `OverlappedOwnedOnce`: `Spec => []SingleOutstanding`, for any threads. That no
  receive is pending now says nothing about a thread that won the CAS and has yet
  to post. `TokenInv` counts tokens: a pending operation, a queued completion and
  a thread between CAS and post (or between completion and clearing the flag) are
  each one token; while the socket is open there is at most one per direction and
  its flag is set; once it is closed nothing can be posted any more.
- `ReceiveLoopAlive`: `Spec => []RecvLoopAlive`, from `TokenInv` and the fact that
  a thread which leaves the receive path without posting has requested the
  disconnect, or has ended with the completion (`AliveInv`).
- `SendFlagHasOwner`: `Spec => []SendFlagOwned`, for any threads: with posts that fail,
  queues found empty and a disconnect that clears the flag under its owner, the flag
  is never left set with nobody to clear it, but by a worker that ended.
- `CommitAlwaysFits`: `Spec => []CommitFits`. `CommitInv` and `FitInv` tie the size of a
  posted receive, on its way through kernel, queue and handler, to the free
  space, which only the owner of the token can take.

`RIOSessionProofs`. `RioInv` is the inductive invariant, for any number of workers
and senders and every size of slices and messages: labels against the owners of
the two mutexes (`ThreadInv`), the state before and after the creation
(`CreateInv`), who may post a receive (`RecvInv`) and a send (`SendInv`), offsets and
lengths of the pending packets (`QueueInv`), and the stream (`StreamInv`).
- `OneRequestAtATime`, `StreamStaysInOrder` follow from it.
- `PendingIsAccounted` adds `BoundInv`: each thread between the lock-free test and
  its enqueue is worth one message of overshoot, a sum over a set of threads that
  changes by one element at a step.
- `ReceiveLoopStaysAlive`: `Spec => []RecvLoopAlive`, with posts that fail and frames
  of any length: a thread that leaves the receive chain without a posted receive
  has recorded a refusal, has found the slice full with an incomplete frame in
  front (`Clogged`), or has disconnected.

`ServiceModeProofs` and `ServerLifeProofs`
- `StatusSettles` and `StopIsTrue`, for any number of concurrent commands. `SvcInv`
  says which hook goes with which pending state (`HookInv`) and what a command
  that has polled may have seen (`ToolOK`).
- `SlotsConserved`, `WorkersJoined`, `AdminPointerValid`, `CallbackAlive`,
  `ServerSettles`, for any number of workers, slots and clients. `LifeInv` extends
  `SvcInv` by what exists at each statement of each hook (`OwnInv`, `PointerInv`,
  `TickInv`), by the slots on their way or given up (`PoolInv`: `SlotsConserved`
  says that the three logged failures of the acceptor are the only ways to lose a
  slot) and by the untouched state before the first start (`FreshInv`). The
  properties are not inductive because a hook may throw between any two
  statements: what the next hook finds is part of the invariant.

`TimerQueueProofs`. `EntryAlive`, `HandleLive`, `NoTimerLeak`, `QuietAfterCancel` and
`QuietAfterShutdown` (`CallbackFindsEntry`, `HandleClosedOnce`, `TimersAreClosed`,
`CancelIsQuiet`, `ShutdownIsQuiet`) for any number of callers, pool threads, timers and
overlapping callbacks, whatever jobs call, with no hypothesis: the exceptions are
in the formulas. `TimerInv` says that an open timer has exactly one owner: the map,
the call that works on it, or the callback that cancelled itself (`SomeOwner`,
`MapOwner`, `CallOwner`, `SelfOwner`); that a closed timer is at rest and nobody works on
it (`ClosedInv`); what a call knows at each of its steps (`CallInv`); that a Shutdown
is alone with what it saw of the map and empties it (`ShutInv`); and that ids do not
run out (`IdInv`). What makes it go through with a Schedule that races Shutdown are
the guests: a Schedule that has inserted its entry and is overtaken before it sets
the timer (`Behind`) may meet the Shutdown that owns the entry by then (`Guest`), and
nobody else (lemmas `OtherEntry`, `OtherOfArm`).

`CircleBufferQueueProofs`
- `RingConsistent`, `UsersDisjoint`, `ViewNeverChanges`, `CommitAlwaysFits`, for
  every capacity, byte set and number of writers. `RingInv` adds to `TypeOK` and
  `RingOK` where each user's spans lie: reservations inside the used part and
  pairwise apart (`ReservedInv`), a pending send's spans a prefix of the used
  part with the bytes it showed and free of reservations (`ViewInv`), a receive
  window a prefix of the free part (`WindowInv`). The arithmetic of `%` is
  confined to a few lemmas (`ModFacts`, `SpanFacts`, `HeadMoves`, `TailMoves`).
- `RingIsByteQueue`: `Spec => ImplementsByteQueue`, the refinement of `ByteQueue`, in
  the same generality. `q` is mapped to `Cells`, the positions from the tail on,
  a reserved one standing for its writer. `CellsAre` reduces an equation about
  the cells after a step to one per position, by its distance from the tail;
  `CellsAppend` and `CellsDrop` are the two ways the queue moves. Each call is then
  one step of the queue (`WritePuts`, `CommitPuts`, `AllocateReserves`, `FillFills`,
  `PopTakes`, `PeekLooks`, `ConsumeDiscards`, `RefusalsRefuse`, `ClearEmpties`), handing
  out spans and the arrival of bytes none (`SpansStutter`, `ArriveStutters`).
  `RingInv` does not say in which order a user's spans lie. `RunInv` adds that a
  reservation is a run of consecutive positions, that the receive window is the
  run from the head on, and that what arrived is at its front: without it the
  bytes of a Fill or of a CommitWrite could come out permuted.

`BenchmarkProofs` and `BenchmarkSampleProofs`, for any number of sessions, iterations
and warm-up iterations, in all four modes, with and without faults
- `PendingIsHeld`, `NoZombieStays`. `Core` says, per session, that
  `m_OutstandingIoCount` is what is pending plus the handlers before their guard
  (`CountOf`), which handler can run beside which pending operation (`StageOf`),
  that one thread at most has seen zero and that it then stays zero (`EndOf`), and
  who holds the session (`HolderOf`); and which sessions the runner has not touched
  yet (`RunInv`). `Core` holds as long as the process lives: a sequential runner
  that gave up leaves a session that dies under a pending receive, which the
  property excepts and the model notes as a failure. `CoreInv` adds what has held
  up to then.
- `SamplesAreOwn`, `AllAreMeasured`, `BenchmarkTypes`. `CtlInv` ties the states, which
  SetState checks and stores in two steps, to the runner and to main. `AskInv`
  follows the tickets. In multi a session has at most one request open, with a
  ticket of the current phase (`AskOf`, `Ticketed`); open and sampled tickets differ
  (`Tickets`); responses of the warm-up plus open requests are at most the tickets
  handed out and at most the target (`WarmCount`), so the wait for the warm-up ends
  with nothing open; and what each statement of the runner relies on is `PhaseInv`.
  In seq the one open request is the one waited for until a wait times out
  (`SeqInv`). The samples are then an injection from their indices to the tickets
  below `iterations`; with `iterations` of them it is onto (`SamplePigeons`).

Model-checked only: every temporal property (`Reclaimed`, `OneShotFires`,
`ShutdownEnds`, `CancelReturns`, `Delivered`, `CommandEnds`, `Answered`, `Ends`:
liveness under fairness is out of the prover's reach, as is ENABLED).
What recursive functions over data compute for every input is also out of reach
(no induction theorem with an operator parameter can be instantiated), and
modules with theorems declare no RECURSIVE operator.

## 6. Plan

Modelled: the sessions of both back ends, the ring and its promise, the timer
queue, the service process with both servers, the client side with the benchmark.

Proved: every invariant of every passing run, and the refinement of `ByteQueue` by
the ring.

Next, as models: `PacketFramer` (framing of a byte stream with its 16-bit length
against a reference definition, independent of how the stream is cut) and the
scenario runner of the test client.

Not modelled. `ThreadPool` and `EventListener`: main starts them and no program
gives them a task. `Container` and `RWLock`: one lock around one map, they appear
as sets and atomic steps of their users. The contents of statistics, sampler and
admin answers, the payload pool of the benchmark, arguments and output. `Logger`,
`StrConverter`, `SingleTon`, the generated protocol code, socket options and
addresses, the GUI client: output, conversion of text, thin wrappers and
presentation.
