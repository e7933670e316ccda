# A TLA+ model of network_ydxlib

network_ydxlib is a C++ network library in the style of muduo: event loops over
epoll, TCP servers and clients on top of them, a byte ring between the network
side and the application, timers, a thread pool and an asynchronous log.  This
directory models it in TLA+, checks the models with TLC on small instances and
proves, with TLAPS, properties that hold for every value of the constants.

## 1. Inventory

| Component | State | Operations | Hard parts |
|---|---|---|---|
| `EPollPoller` | `pendingFunctors_`, `callingPendingFunctors_`, `quit_`, `events_`, `activeChannels_`, the eventfd | `poll`, `run_one_poll`, `runInLoop`, `queueInLoop`, `quit`, `updateChannel`, `removeChannel`, `enable_wakeup` | other threads push and quit while the loop is about to sleep; handlers change the set of channels |
| `Channel` | `events_`, `revents_`, `index_` | `enable*`, `disable*`, `remove`, `handleEvent` | the order of the callbacks of one event; removal during dispatch |
| `TcpConnection` | `state_`, input and output buffer | `send`, `shutdown`, `connectEstablished`, `connectDestroyed`, `handleRead/Write/Close/Error` | `state_` shared with user threads; closing while more events arrive |
| `TcpServer`, `Acceptor` | `connections_`, `nextConnId_` | `start`, `newConnection`, `removeConnection(InLoop)`, destructor | a connection's life crosses two loops; destruction of the server |
| `EPollerThreadPool`, `EPollerThread` | `threads_`, `epolls_`, `next_`; `epoller_` | `start`, `getNextLoop`; `startEpoll`, `threadFunc`, destructor | a loop lives on its thread's stack and is used from outside |
| `StreamBuffer` | `in_`, `out_`, `size_ + 1` bytes | `write_buffer`, `read_buffer`, `copy_*_must`, `peek_out_must`, `has_*`, `clear` | wrap-around, full and empty, framing |
| `Receiver` | `stream_buffer_`, `msg_count_`, mutex, condition | `onMessage`, `receive` | splitting a TCP stream; waiting and signalling |
| `Sender`, `TcpClient`, `Connector` | ring and count; `connection_`, `retry_`, `connect_`; `state_`, `channel_` | `send`; `connect`, `disconnect`, `stop`; `start`, `retry`, `restart`, `stop` | counting outside the lock; retries that sleep inside handlers; a channel deleted in its own handler |
| `TimerSet`, `TimerWheel` | ordered timers and a timerfd; buckets of references | `addTimer`, `cancel`, expiry, `reset`; `addNode`, `refreshNode` | cancel during expiry, two clocks; lost fractions of time |
| `Buffer` | byte vector and two indexes | `read_fd`, `retrieve`, `append`, `unwrite`, `shrink` | growing against moving; a read that goes past the end |
| `ThreadPool` | `queue_`, `running_`, two conditions | `start`, `run`, `stop` | who is woken for what; stop with blocked threads |
| `AsyncLogging`, `LogFile`, `CountDownLatch` | two buffers and a vector of full ones; file and counters | `append`, `threadFunc`, `start`, `stop`; `append`, `flush`, `rollFile` | swapping buffers; dropping; rolling by the clock |
| `Logger`, `LogStream` | one line in a fixed buffer | `operator<<`, `~Logger` | what does not fit; numbers in place |
| time stamps, addresses, socket wrappers | none that matters to others | formatting and system calls | not modelled |

How they interact: a `TcpServer` lives on a *base* loop and hands every accepted
connection to a loop of its pool; loops talk to each other only through
`runInLoop` and `queueInLoop`.  `Receiver` owns a server whose message callback
fills a `StreamBuffer` that application threads drain; `Sender` is the mirror
image over a `TcpClient`.  Timers and the connector are channels of a loop, and
every connection has two `Buffer`s.  A `Logger` writes to a `LogFile` directly
or to an `AsyncLogging`.

What makes each part correct: the loop loses no functor and no wakeup, runs each
functor once and in order, never touches a removed channel and ends when told
to; a connection is announced up once and down once, is destroyed exactly once,
on its own loop, and nothing refers to it afterwards; the ring and the buffer
hand out what was put in, whole and in order; the receiver counts what has
arrived as a whole and does not leave a thread asleep on a message; the sender
hands over what it was given, in order; a client leaks no socket and keeps trying; a timer has one owner and fires; a pool's
threads are woken when there is work, and end; a log line reaches the file once,
in order.

`PROJECT.json` lists every hazard at its source line with the properties that
cover it.

## 2. Modules

**`LoopQueue`** is the promise of the loop's functor queue: a FIFO
(`Enqueue`, `RunHead`), calls made at once on the loop's own thread
(`RunDirect`), nothing after `Stop`, and, by weak fairness of `RunHead`, every
queued functor runs unless the loop stops.

**`EPollPoller`** is `epoller.cpp`.  The loop thread's program counter walks
through one round of `poll()`: test of `quit_` (`CheckQuit`), `epoll_wait`
(`PollEvents`, `PollNothing`), the active channels one by one (`HandleEvent`),
and `doPendingFunctors` in the three steps that other threads can come between
(`StartPendingFunctors`, `SwapPendingFunctors`, `CallFunctor`).  `run_one_poll`
is one such round.  A handler or functor is user code that may queue, run
directly, quit, enable, disable and remove channels before it returns.  The
owner calls `enable_wakeup` before `poll()` when `EnableWakeup` is set; the liveness
half of `LoopQueue`, checked with it set, is promised only for such a loop.  Other
threads push and then write to the eventfd in two steps, since the mutex is
released between them.  `callingPendingFunctors_` is not initialised by the
constructor, so its first value is arbitrary.  `MayRemove` is the discipline the
library's own callers keep: a handler removes only its own channel, any other
channel is removed from a queued functor (`TcpServer::removeConnectionInLoop`).
`removeChannel` itself does not enforce it, so `ActiveChannelsAlive` is a
statement about the library, not about every user of its loop.  Each
functor value is used for one call, which is what bounds the callers.

**`StreamBuffer`** has the ring's operations as functions of a record; a byte is
identified as "the k-th byte of the frame of message m", so that mixing up bytes
is visible.  A length header is decoded by what it is: the header bytes of one
frame give that frame's length, any other bytes give an arbitrary length, and
`Negative` stands for a header with a negative length and no body, which only a
`Receiver` that took other bytes for a length writes.
`StreamBufferUser` is a producer and a consumer of one ring (`UserSpec`) and the
callers of the byte-level interface (`ByteSpec`).

**`Receiver`** extends the ring with the connection's input `Buffer`, including
the stale bytes that `read_fd` leaves behind the writer index, the loop thread
in `onMessage` and application threads in `receive()`.  A critical section is
one step; `pthread_cond_wait` may return spuriously.  One connection is
modelled.  A behaviour has a *scene*: which threads call `receive()`, and whether
reads may end inside a length header.  When fewer bytes than a header are
readable, `memcpy` also takes stale ones (or, behind the high-water mark of the
vector, its zeros), and the length is anything in `AnyLens`.  The loop is followed
from there: bytes taken for a message go into the ring as `Garbage`; a negative
length makes `write_buffer` fail, at once or after it has copied the header
(`Negative`), retrieves what `sizeof(int) + len` is as a `size_t` and is counted
all the same.  A length of exactly minus the header size retrieves nothing, so
that the loop never ends; `MaxCount` bounds how long that is followed.

**`TcpConnection`** has the connection's methods as functions of a record that
also holds its channel and the kernel's view of the socket (open, closed or
reset by the peer, unread data, our own shutdown, a pending error).  Bytes are
abstracted: a write takes everything or leaves a rest.

**`TcpServer`** composes base loop, io loops, acceptor and connections.  A loop
is reduced to its rounds: poll, active channels, swapped batch of functors.
`setThreadNum` is the choice of `pool` in `Init`.  `removeConnectionInLoop` is
two steps on a pool, because the connection's own loop may run
`connectDestroyed` before the map entry is erased.  A user thread may call
`shutdown()` on a connection, test and assignment of `state_` being two steps.
A scene says which peers connect, what the callbacks do, and which connections
a user thread holds.  `BaseWakeup` says whether the owner of the base loop has
called `enable_wakeup`.  The loops of the pool do (`epoller_thread.cpp:49`); no
owner of a server's base loop in the repository does, so the runs set it to
`FALSE`, and a functor queued there from another loop waits for the next event of
the base loop.

**`Sender`** is `ydx_sender.cpp` on the ring of `StreamBuffer`: threads in `send()`
and the thread of `Sender`, without a lock between them.  The test for room, the
copying of header and body, the peek, the test of the length, the skipping of the
header and the copying of the body are steps of their own; the counting is one
step (it is under the mutex).  The memory is taken to be sequentially consistent,
and a message fits the thread's buffer of 8192 bytes.  The connection is reduced to
what `is_connected()` and `connection()` say about it.

**`Client`** composes `Connector` and `TcpClient` on a `TcpConnection`.  In mode
`"sender"` the loop thread is `Sender::thread_start_epoll`: a round of
`run_one_poll`, the wait for a message and the two sends.  Of the messages it only
knows that there may be one or not, and that `read_buffer` may give one or not:
`Sender` has them.  In mode `"client"` it is `poll()`, and the user calls
`TcpClient` on the loop thread.  `connect(2)` is under way, fails in a way
`Connector::connect` retries, or in any other way.  A retry sleeps on the loop
thread, possibly inside the handler of a connection that is being removed: that
connection's socket (`dying`) is closed only when the handler returns.

**`Sending`** puts `StreamBufferUser`, `Sender` and `Client` side by side: what each
needs of the others is reduced inside it, and a behaviour is one of one of them.

**`ThreadPool`** has the owner (start, the joins of `stop`, destructor),
producers in `run()` and workers in `runInThread` and `take`.  **`EPollerThread`**
has `EPollerThreadPool::start` and the destructors on one thread, and
`threadFunc`, whose loop is reduced to `quit_` and the eventfd, on the others.
**`TimerSet`** has the set of timers, the timerfd, the functors that other
threads hand to the loop (used as `LoopQueue` describes them), and time: `due` is
relative to the wall clock, so that it stays bounded while `Tick` lets time pass
and `Rewind` and `Forward` set the wall clock, which the timerfd does not notice.
`Careful` says whether users keep to the rules of section 3 when they cancel.
**`TimerWheel`** has the buckets and the references in them.  **`Buffer`** has the
vector and its indexes, byte by byte.  The module **`Services`** puts these five
side by side: they share nothing, and a behaviour is one of one of them.

**`LogFile`** has the file's operations as functions of a record with stdio's
buffer and what is on disk.  **`AsyncLogging`** adds threads that log, to a
`LogFile` or to the buffers of `AsyncLogging`, and `threadFunc` step by step.
**`LogStream`** is one log line.  **`Logging`** puts the last two side by side.

The `MC*` modules give the constants for TLC; `Services`, `StreamBufferUser`, `TimerSet`
and `Client` need none.
Operators marked *Mutant* are wrong variants of the definition that follows
them; each is used to show that a property notices that mistake, and no
specification refers to them.

## 3. Runs

| Run | Instance | Shows |
|---|---|---|
| `loop` | 2 threads, 2 functors, 2 channels, event array of 1 | `NoLostWakeup`, `ActiveChannelsAlive`, `ImplementsLoopQueue` (refinement with liveness), `QuitEndsPoll`, `ReadyIsHandled` |
| `ring_keeps` | a ring of 9 + 1 bytes, header of 2, bodies of 0, 1 or 3, 7 messages | **violated** `AcceptedIsReadable`: a wrapped ring can be filled so that it reads as empty |
| `receiver` | ring of 7, 3 messages of 1 or 3, reads of up to 6 bytes; 2 threads with cuts outside headers, or 1 thread with cuts anywhere and lengths of -3 to 9 read from garbage, up to 4 counted | `NoSleepOnMessage`, `WholeMessagesInOrder`, `CompleteUnlessCut`, `OnlyReceiverServed` |
| `receiver_two_blocked` | 2 threads, 2 messages | **violated** `BlockedReceiverServed`: `notify` is called only when the count leaves 0 |
| `receiver_cut_header` | cuts inside headers | **violated** `OnlyCompleteCounted`: stale bytes are taken for a length |
| `server` | pool of 0 or 1 loops; 1 connection whose callbacks do nothing, send or shut down, or 2 quiet ones; base loop without wakeup | `CloseAssertHolds`, `CallbacksPaired`, `NothingAfterDestroyed`, `RemoveFindsConnection`, `ClosedIsDestroyed` |
| `server_send_on_down` | 1 connection, the DOWN callback sends | **violated** `CloseAssertHolds` |
| `services` | 2 workers, 2 producers, 3 tasks, queue limits 0 to 2; 2 loops; 2 timers, careful users; 3 nodes on 3 buckets; 6 bytes | `TasksHaveWorkers`, `NobodyStranded`; `PoolsOutlived`, `ThreadsEnd`; `TimersOwned`, `ArmedForFirst`, `TimersFire`; `WheelWindow`; `BufferIsQueue` |
| `timer_add_late` | 2 timers | **violated** `AddTimerSafe`: `addTimer` reads a timer the loop has deleted |
| `logging` | 2 threads, 3 lines, buffers of 1 line, 2 of them at most, 3 seconds; lines of 16 characters | `LinesInOrder`, `BuffersSuffice`, `FatalOnDisk`, `LinesReachDisk`; `StreamSound` |
| `sending` | rings of 9 + 1 bytes, header of 2: 6 serial messages of 0, 1 or 3; 1 thread in `send()`, 4 messages of 1 or 2; 2 sockets | `ReadsNeverAhead`, `WholeMessagesInOrder`, `AllOrNothing`; `TakenInOrder`, `SenderProgress`; `SocketsOwned`, `ClientProgress` |
| `client_null` | 2 sockets | **violated** `NoNullConnection`: `is_connected()` is true before there is a connection |

The passing runs also check the types (`TypeOK`), but for `sending`: the ring's
(`UserTypeOK`) are proved for every size instead.

What the passing properties do not say.  `WholeMessagesInOrder` of `Receiver` is
about the frames in the ring; that these are the peer's messages is only so when
no read ends inside a header (otherwise they may be garbage, which is what
`receiver_cut_header` begins to show).  `ClosedIsDestroyed` allows for the removal
waiting in a base loop that sleeps, and this does happen: `removeConnection`
(`tcp_server.cpp:95`), run by a loop of the pool, writes to an eventfd the base loop
does not watch, and a poll that times out skips `doPendingFunctors`
(`epoller.cpp:117-123`), so a closed connection may keep its descriptor and its entry
in the map until the next one is accepted.  The property says that this is all it
ever waits for.
`PoolsOutlived` exempts loops that user code has told to quit: `~EPollerThread`
tests `epoller_` and then calls `quit()` through it, while `threadFunc` of such a
loop may clear it and end in between (`epoller_thread.cpp:20-22`, `52`), and the
model reaches that.  `TimersOwned` is about careful users (see below; with
`Careful = FALSE` it is false, as `cancel()` then deletes timers that are in use), and
leaves out what `addTimer` itself reads, of which it only says that it is late for no
timer that repeats; `AddTimerSafe`, which does not leave it out, is refuted.
`ArmedForFirst` allows the timerfd to be late by as much as the clock was set
forward after it was set.  `TimersFire` is about a loop whose wakeup is enabled,
as far as other threads add timers.  `WheelWindow` measures time by the calls the
wheel sees: one to which nobody adds anything holds its nodes.  `TakenInOrder` and
`SenderProgress` hold as long as the ring is never filled to its last slot (what
happens then is `ring_keeps`), and `SenderProgress` excepts the last message when
it lies across the end of the array: `used()` is then one too small, and the
message waits until another is written.  Both are about a single thread in `send()`;
with two, `TakenInOrder` is false, since `write_buffer` is called without the lock.

Why the bounds are enough.  An event array of one slot makes two ready channels
overflow it at once, so growth and starvation are exercised.  Two functors let
one be queued while the other runs, two threads let a push and a quit overlap.
The ring's frames of 2, 3 and 5 bytes on 10 slots put the boundary at every
offset of a frame, and 6 messages go round it twice.  Three messages of 3 or 5
bytes overflow a ring of 7 while a receiver sleeps.  One connection on a pool
has every hand-over between two loops; two connections add the shared queues.
Three tasks overflow a queue of 1 or 2 and leave two producers waiting at once.
Four frames of 3 or 4 bytes take `Sender`'s ring of 10 slots round, with the third
or fourth across its end.  Two timers are enough for a callback that adds or cancels another one, for two
in one batch, and for one put in front of the other.  Times up to 9 with two
units in a millisecond take a wheel of three buckets round more than once.  A
buffer of 2 bytes and an array of 2 make 6 bytes take every branch of
`make_space` and `read_fd`.  Buffers of one line fill with every second line, and
two of them at most make the writer drop some.  `Client` needs two sockets: one
dying while the next connects (`SocketsOwned` shows there are never three).

Deadlock is checked for the loop (it can always stutter through rounds or is
stopped with descriptors still changing).  The others may rest:
peers have sent everything, threads wait or have ended, a process has aborted.

**Fairness.**  `EPollPoller`: the loop thread takes steps (weak fairness) and
its callbacks return, a thread that has pushed reaches its write to the eventfd,
and signals do not interrupt every `epoll_wait` for ever (strong fairness of
`PollEvents`).  `Receiver`: the loop thread finishes `onMessage`, and a
signalled thread gets the mutex.  Nothing makes a peer send or an application
call `receive()`.  `Sender`: its thread runs, and a thread in `send()` finishes.  `TcpServer`: each loop thread takes steps.  `ThreadPool` and
`EPollerThread`: threads run and tasks return; nothing makes an owner start or
stop.  `TimerSet`: time passes, and the loop runs the queued functors after every
round of handlers, so they are not passed over for ever by a timerfd that is
ready again (strong fairness of `RunCall`).  `AsyncLogging`: threads run and
`waitForSeconds` returns.  `Client`: the loop thread runs, attempts to connect
are answered, and not every one of infinitely many fails (strong fairness of
success); without that a client may retry for ever, as it should.  All this is
what the operating system's scheduler gives; user code is assumed to return.

**Assumptions on the callers.**  `cancel()` frees the timer it is given and takes
no look at its sequence number.  In the run `services` users are therefore
*careful*: they cancel only repeating timers and, in a callback, neither one that
is just expiring nor one whose `addTimer`, made by another thread, is still
queued; and they cancel a timer once.  One thread calls `Sender::send` (the ring is
written without a lock), `TcpClient::connect` is called once, and `TcpClient` is used on its loop's thread.  `TimerWheel` and
`Buffer` stay on one thread.  A freed `Connector` channel, which `handleEvent`
still reads, is taken to show no further event.  At most one write to a log file
fails, and stdio writes out all of its buffer or nothing.  A log file is named
after the second it is opened in; the code formats it in local time, so that one
hour's names repeat when daylight saving ends, which the model does not have.

## 4. Proofs

**`EPollPollerProofs`**, for every set of threads, functors and (finite)
channels:

- `TypeCorrect`: `Spec => []TypeOK`.
- `WakeupNeverLost`: `Spec => []NoLostWakeup`.  Not inductive by itself: whether
  the loop wakes itself when a functor queues another one depends on
  `callingPendingFunctors_`, so the invariant also says that the flag is set from
  the start of `doPendingFunctors` to its end (it may hold anything elsewhere).
- `HandledChannelsAlive`: `Spec => []ActiveChannelsAlive`, strengthened with
  facts on which channels are registered while they are active.
- `LoopIsFifo`: `Spec` implements the safety part of `LoopQueue` under
  `queue <- functors \o pendingFunctors`, `stopped <- pc = "exited"`; it needs
  that the local vector is empty when the queue is swapped.

**`RingProofs`** has the lemmas on the ring's operations, for every size of the
ring and of the header and every message.  The first half says how each operation
moves the offsets: `Distance` is the number of slots from `out_` to `in_`, and
`used()` is that distance or one less.  The second half is about the bytes:
`contents` are those from `out_` to `in_`, and `Held` says that they are the
frames, one after the other, of the entries that were accepted last and not yet
read.  An entry is a message or `Negative`, a header without a body that can never
be read.  A write that leaves a slot free appends its frame; one that fills every
slot makes `in_` meet `out_`, and all messages in the ring are lost at once
(which is what `ring_keeps` shows); a read takes the first frame, whole, or
nothing.

**`StreamBufferProofs`**, for every ring size, header size and set of lengths:

- `TypeCorrect` (`UserTypeOK`), `MessagesNeverAhead` (`ReadsNeverAhead`),
  `CallsAllOrNothing` (`AllOrNothing`) and `MessagesWholeInOrder`
  (`WholeMessagesInOrder`) for `write_buffer` and
  `read_buffer`, `BytesNeverAhead` for the byte-level interface.
- The inductive invariant has two parts.  `RingInv`: the offsets are slots and
  their distance never exceeds `unread`, the bytes written and not read (it may
  be less: a write onto `out_` loses a whole turn), which is why readers are safe
  although writers are not.  `QueueInv`: the ring `Held`s messages accepted last,
  and what was read are earlier ones, in their order.

**`ReceiverProofs`**, for any number of receiving threads and messages, every size
of the ring, the header, the messages and the reads, and wherever the reads cut
the stream:

- `TypesCorrect` (`TypeOK`), `NeverSleepsOnMessage` (`NoSleepOnMessage`),
  `ReceivedWholeInOrder` (`WholeMessagesInOrder`) and `CountsComplete`
  (`CompleteUnlessCut`), one for each invariant of the run `receiver`.
- `NoSleepOnMessage` relates `msg_count_` to the ring, and neither determines the
  other: the count runs ahead when `write_buffer` fails or a full ring reads as
  empty.  `QueueInv` says that it never falls behind the entries the ring holds,
  garbage and negative headers among them, and that what was received are earlier
  ones, in order.
- The other three parts are about the peer's messages, and what they say holds
  without cuts inside headers: `InputInv`, that the readable bytes and those still
  to come are the frames of the messages not counted yet; `CutInv`, that the readable
  bytes never end in a header, so that `onMessage` is always at the start of one
  when it looks; `OrderInv`, that what was accepted are messages of the peer, in
  its order, that have been counted.
- `FramesAre` finds out what the peer's stream is.  The stream is defined by a
  recursive function, so that its values are an induction; `Induction` states
  it for a *set* of naturals, as a consequence of well-foundedness, and not for a
  predicate, which the provers cannot instantiate.

**`TcpServerProofs`**, for every set of connections, every pool of loops and
every scene, under the hypothesis `"send" \notin DownCalls`: the user's DOWN
callback does not send.  The hypothesis is needed: without it `send` in the
callback enables writing on a connection that is being closed, which is what the
run `server_send_on_down` shows.

- `TypeCorrect`, `CloseNeverAsserts`, `CallbacksComeInPairs`,
  `DestroyedIsForgotten` and `RemovalFinds`, one for each invariant of the run
  `server`.
- None of them is inductive: they speak about the counters and flags of a
  connection, and what happens to it next depends on functors that may be in the
  queue of another loop, in the batch a loop is working through, or half done.
  `ServerInv` therefore puts each connection in one of six stages (`Unborn`,
  `Announced`, `Established`, `Removing`, `Ending`, `Ended`), each of which says
  which functors about it exist and on which loop; `Unique` says that none but
  `shutdownInLoop` is there twice, and `LoopsInv` what a loop may hold between
  the two halves of `removeConnectionInLoop`.  There is a lemma for each
  operation of a connection, for each way a functor enters or leaves a loop, and
  for each step.

**`ServicesProofs`**, for any number of workers, producers, tasks, loops and
timers, any queue limit, every number of buckets, resolution of the clock and
sequence of times, and every size of a buffer and of `read_fd`'s second array:

- `NoLostWakeup` is `PoolSpec => []TasksHaveWorkers`.  `PoolInv` adds that nobody
  sleeps in a pool that is stopped, and how far `start` and `stop` are; the
  lemmas count the workers that are awake (finite-set cardinality).
- `PoolOutlivesWorkers` and `LoopsOutliveUse` are the two halves of
  `PoolsAreOutlived`.  `LoopsInv` says when a loop exists, and that one that has
  ended was told to quit by its user or by `~EPollerThread`; the theorem exempts the
  first (section 3).
- `TimersHaveOneOwner` is `Careful => (SetSpec => []TimersOwned)`, and `TimerfdArmed`
  (`ArmedForFirst`) holds whether users are careful or not.
  `SetInv` says where a timer is (a functor, the container or the expired batch,
  and never two of them), that an `add` waits before the `cancel` of the same
  timer, and what the user may still have of a freed one.
- `FiresInWindow` is `WheelSpec => []WheelWindow`.  The invariant names, for each
  node that is held, the latest bucket that has it: the number of buckets pushed
  since bounds the time passed from below by a millisecond each and from above by
  less than two.  `DivBounds`, `SpreadGrows` and `ProductGrows` are the arithmetic.
- `BytesInOrder` is `BufferSpec => []BufferIsQueue`.  The invariant says that the
  record is well formed (indexes in order, a byte at every index of the vector)
  and that the readable bytes are `unread`.  One lemma per operation says what it
  does to the readable bytes: moving and resizing keep them, writing appends,
  retrieving drops from the front.
- `ServicesInvariant`, `ServicesTypeCorrect`, `PoolsAreOutlived` and
  `PartsTogether` carry these over to the composition that the run checks.

**`ClientProofs`**, whatever `connect(2)` returns, through any number of retries:

- `SocketsHaveOwners` is `ClientSpec => []SocketsOwned`.  `OwnerInv` says that an open
  socket is that of `Connector`'s channel, of the connection or of the one being
  removed, and which of these exclude each other at each place of the thread.

**`LoggingProofs`**, for any number of threads and lines, any lengths, buffer
sizes, limits, roll sizes and intervals, and whatever the clock returns:

- `BuffersAlwaysSuffice` (`BuffersSuffice`), `LinesKeepOrder` (`LinesInOrder`),
  `FatalReachesDisk` (`FatalOnDisk`), `NumbersReadBack` (`StreamSound`) and
  `TypesCorrect` (`TypeOK` of both halves).
- `SinkInv` has a part for each.  `SparesInv`: `next_buf_` is only taken along
  with a buffer that goes to the thread, so a thread that gives two buffers has
  at least two to take back.  `FatalInv`: a fatal line is flushed, with all
  before it, between being logged and `abort()`.  `FileOK`: the names of the
  files increase up to `lastRoll_`, which is why `rollFile` opens none again even
  when the clock is set back.
- The lemmas on `LogFile` say that each operation leaves the lines in the files
  and in stdio's buffer, and appends what it is given (`Follows`).  The lemmas on
  order say what a step does to the list of buffers: one line more in the last
  (`Grown`), one buffer more (`Added`), the first written (`Shifted`), the end
  dropped (`Cut`).
- `StreamInv`: the line leaves room for the terminating NUL, and each number
  that was taken stands in it, at its place, in the digits that `Value` reads
  back as that number.  `ConvertReads` and `ConvertHexReads` are the algorithms:
  the digits that `convert` and `convertHex` take from the right, reversed, with
  the table indexed by negative remainders, denote the number they were given.
  Recursive functions are handled as in `ReceiverProofs`: `DigitsExist` shows that
  the equations have a solution, `ValueAppend` what one more digit does, both by
  induction over a set.

`LinesInOrder` is stated with quantifiers over positions and not with `FlattenSeq`,
so that the same definition can be checked by TLC and proved.

The assumptions on the constants are `LoopAssumption`, `RingAssumption`,
`UserAssumption`, `ReceiverAssumption`, `ServerAssumption`, `PoolAssumption`,
`LoopsAssumption`, `TimerAssumption`, `WheelAssumption`, `BufferAssumption`,
`LoggingAssumption`, `LogFileAssumption`, `StreamAssumption` and
`NumericAssumption`; TLC evaluates them in the runs.  Most say that a size is a
number.  Three carry a fact of the code: a log line is shorter than a buffer and
there are at least two buffers (`LoggingAssumption`), `msg_count_`, 32 bits, is
wider than the count that is followed (`ReceiverAssumption`), and every number the
program can log is shorter than `kMaxNumericSize`, 32 characters
(`NumericAssumption`; 64 bits need 20 with a sign in decimal and 18 with `0x` in
hexadecimal).

Every invariant and every action property of the passing runs is stated by a
theorem, with the exception of `Sender`'s `TakenInOrder`, which is
only model-checked.  So are the liveness properties, since fairness and
`ENABLED` are beyond the prover: `ReadyIsHandled`, `QuitEndsPoll` and the liveness
half of `ImplementsLoopQueue`, `OnlyReceiverServed`, `ClosedIsDestroyed`,
`NobodyStranded`, `ThreadsEnd`, `TimersFire`, `LinesReachDisk`, `SenderProgress` and
`ClientProgress`.

## 5. What the models leave out

- Failing system calls that the code only logs (`epoll_ctl`, `eventfd`) or aborts
  on (`socket`, `bind`).
- The bytes of `TcpConnection`'s buffers (`Buffer` is a module of its own), names,
  addresses, the text of log lines, floating point numbers in them.
- Reference counts: a destroyed connection is one whose `connectDestroyed` has
  run.  `shutdownInLoop`, bound to a raw pointer, is the one functor that may
  still be queued then.
- The destructor of `TcpServer`: the callbacks of its connections stay bound to
  it, and nothing says when it may run.
- `connectDestroyed` is described in `tcp_connection.h:97` as called when the
  server has removed the connection from its map; with a pool it is queued
  before the map entry is erased (`tcp_server.cpp:106-112`), and no property here
  relies on that order.
- `AsyncLogging` has no `public:` section, so a program cannot make one as it
  stands; the model takes it as if it could.  Lines still in its buffers when
  `stop()` returns are not written, and producers blocked in `ThreadPool::run`
  stay blocked after `stop()`: the liveness properties except both cases.
- A log line longer than its buffer loses its newline.
- Messages longer than the buffer of `Sender`'s thread, and effects of the memory
  model on the ring it shares with `send()`.
- `BlockingQueue.h` (not included anywhere and not compiling), `linux_list.h`
  (unused), `string_piece.h`, `ydx_atomic.h`, `timestamp.cpp`, `inet_address.cpp` and
  the wrappers of `socket_ops.cpp` and `sockets.cpp` have no behaviour of their own
  that a property could be about.

## 6. What could come next

The models cover what the library does with more than one step or thread, and
the safety properties of the runs are proved.  Extensions that would say
something new:

1. several connections on one `Receiver`: `onMessage` then interleaves their
   frames in one ring, from several loops;
2. a proof of `TakenInOrder` for every ring size, along the lines of `RingProofs`, with
   an entry that is half written and one that is half read;
3. the destructor of `TcpServer` and the raw `this` in `shutdownInLoop`, once the code
   says when they may run (`PROJECT.json` lists both among the hazards without a
   property).
