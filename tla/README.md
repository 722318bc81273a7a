# A verification project for the muduo-style reactor library

The repository's library (`src/reactor`) is a multi-reactor TCP server in the
style of muduo: one main `EventLoop` accepts connections, a pool of
`EventLoopThread`s serves them, threads talk to each other by posting callbacks.
This directory holds TLA+ modules translated from that code, TLC configurations
that check them on small instances, and theorems about them checked by TLAPS.
`PROJECT.json` maps every definition to the lines it stands for.

## 1. Inventory

| Component | State | Operations | Interacts with | Hard parts |
|---|---|---|---|---|
| `EventLoop` | `quit_`, `callingPendingFunctors_`, `pendingFunctors_` under `mutex_`, eventfd, `channels_` | `loop`, `queueInLoop`, `runInLoop`, `quit`, `wakeup`, `updateChannel` | every thread posts; epoll, eventfd | wake-ups, what runs before the loop ends |
| `EventLoopThread` | `loop_` under `mutex_`, the thread | `startLoop`, `threadFunc`, destructor | owns a loop on another thread's stack | `quit()` racing the loop's end and beginning |
| `TcpConnection`, `Channel` | `state_`, `events_`, `output_buffer_`, shared_ptr count | `send`, `shutdown`, `forceClose`, `closeNow`, the four handlers | `Server`'s table, its loop, other threads' snapshots | lifetime inside handlers, partial writes, closes that meet |
| `TimerQueue`, `Timer` | ordered set of timers, timerfd | `addTimer`, `handleRead`, `resetTimerfd` | loop thread only; kernel clock | re-arming while being handled, ownership of `Timer*` |
| `AsyncLogging` | front buffers under `mutex_`, back-end buffers, file | `append`, `start`, `stop`, `flush`, `threadFunc` | every thread logs | swapping, recycling, final drain |
| `Logger`, `LogStream` | line buffer, level, `discard_` | `<<`, the destructor, FATAL abort | feeds `AsyncLogging` | bounded line buffer, least integers, abort before the write |
| `Buffer` | read and write index | `append`, `retrieve`, `readFd` | inside a connection | index arithmetic, growth |
| `Acceptor` | listening descriptor | `listen`, `handleRead` | hands descriptors to `Server` | EMFILE with a level-triggered descriptor |
| `EventLoopThreadPool` | threads, `next_` | `start`, `getNextLoop`, `stop` | main thread | order of shutdown |
| `Server` | `connections_` under a mutex, callbacks | `start`, `onNewConnection`, `onCloseConnection`, heartbeat, destructor | all of the above | shutdown across loops, descriptor reuse, stale idleness |
| Poller half of `EventLoop` | `channels_`, `events_`, epoll interest list | `updateChannel`, `removeChannel`, the dispatch of a turn | `Channel`, everything with a descriptor | descriptor reuse, bare pointers in a batch, a full `events_` |
| Chat server (`server.cpp`) | the callbacks it registers | message callback, `broadcast`, signal handler | `Server`, `Buffer`, `Logger` | byte-exact forwarding over cut reads and writes |

What makes each of them correct: the loop never sleeps over work it was given,
runs it in order and at most once; a thread's destructor returns and leaves
nothing running; a connection's byte stream is neither reordered nor lost, its
close happens once, and it is destroyed with no event subscribed; due timers
run, never early, without drift; no log line is lost, reordered or repeated;
`channels_` is the kernel's interest list over every close and reuse of a
descriptor, and an event reaches only the object that owns it; every byte
received is forwarded once and in order; a log line that fits is whole.

The other directories (`epoll`, `select`, `oneThread2oneFd`, `os_practice`,
`benchmark`) are stand-alone exercises and measurements that the library
superseded; they are not modelled.

## 2. Modules

    Executor            what a loop promises: FIFO, at most once
      ^ refined by
    EventLoop           loop(), queueInLoop, quit, the eventfd
      ^ extended by
    EventLoopThread     startLoop, threadFunc, ~EventLoopThread
    TcpConnection       connection, channel, socket, loop turn, other threads
    AlarmClock          what a timer queue promises
      ^ refined by
    TimerQueue          addTimer, handleRead, the timerfd
    AsyncLogging        append, threadFunc, start/stop, the file
    Server              Server, Acceptor, EventLoopThreadPool over abstract sub loops
    Poller              updateChannel, removeChannel, dispatch; Acceptor, timer and
                        connections of a server without sub loops
    ByteQueue           what a Buffer promises
      ^ refined by
    Buffer              append, readFd, retrieve
    LogStream           the fixed line buffer, integers
      ^ extended by
    Logger              one log statement
    Chat                extends Buffer (input) and Logger, and instantiates Buffer
                        again (output): the chat server's message path

`MC*` modules instantiate them for TLC, `*_proofs` modules hold the theorems.
Definitions named `Mutant...` are deliberately wrong variants of the action that
follows them; they are used only to show that the properties notice the error.

### EventLoop

`pc` is the loop thread's place: `created` (before `loop()`), `while` (the test
of `quit_`), `epoll_wait`, `dispatch`, `doPending` (before the swap), `run`
(executing the batch), `done`. `active` are the events still to dispatch: the
eventfd and one event `io` for all other descriptors. The eventfd counter is
kept as zero / non-zero. A thread that posts or quits takes two steps, the push
(or store) and the eventfd write; `caller[th]` is where it is. `Loop` is the code
of `loop()`, `Callback` what handlers and callbacks may do on the loop thread
(`queueInLoop`, `runInLoop`, `quit`), `Other` the other threads. `early` and
`ran` are history: whether something was queued on the loop thread before
`loop()`, and what ran.

### EventLoopThread

The module extends `EventLoop` with the owner's place, the child's place and
`loop_`. A step of `loop()` happens only while the child is inside it
(`RunLoop`). The destructor is four steps: the unlocked read of `loop_`, the
`quit_` store, the eventfd write, `join`. The write on a loop that has already
been destroyed is undefined behaviour: it goes through or kills the process.
`selfExit` is chosen at the start of a behaviour and says whether the loop may
end for another reason (a callback quits, `epoll_wait` fails).

### TcpConnection

Data is a sequence of units `<<message, i>>`; the kernel's send buffer is its free
room. `phase` is where the loop thread is with respect to this connection:
`poll`, `batch` (other handlers of the turn), `event` (inside
`Channel::handleEvent`), `message` (inside `messageCallback_`), `run` (inside
`doPendingFunctors`). The shared_ptr count is `inTable` (the server's table),
`held` (the batch vector's functors), `pend` (queued functors) and `holders`
(other threads' snapshots); `Alive` is their disjunction. `HandleClose` includes
what `closeCallback_` does in `Server::onCloseConnection`: the erase. An error on
read or write is only logged by the code, and only that in the model.

### TimerQueue

A `Timer` is its address, and addresses are reused. The tree is a set of entries
`<<expiration, address>>` ordered as `std::set` orders them; the vector of
`handleRead` is the set `expired`, worked off least entry first. The timerfd is
its armed instant (0: disarmed) and whether it is readable; it fires some time
after the instant has passed, and `timerfd_settime` forgets expirations, as the
kernel does. `timePointToTimespec` splits an instant by `NsPerSec` and the kernel
puts it together again. A `turn` stands for all handlers and callbacks of one
turn of the loop, each of which may call `runAt`, `runAfter` or `runEvery`.

### AsyncLogging

A buffer is the sequence of the lines in it, a moved-from `unique_ptr` is
`NullPtr`. Every critical section is one step: `append()`, the back end's swap
(`Take`), the last swap (`FinalTake`). The back end's other steps are the test of
`running_`, the start of `wait_for`, the drop, one step per buffer written, and
the recycling. `wait_for` may end at any time, so `flush()` and the
notifications change nothing that can be observed here but time. Opening a file
may fail, at the start or when the file is rolled.

### Server

The main thread's place is `main`: `serve` (accepting), `scan` (inside
`checkHeartbeats`), then the destructor: `clear` (callbacks set to null one by
one), `close` (posting `closeNow`), `stop` and `join` (the pool's threads in
turn), `members`, `gone`. `held` is the snapshot it works on and `visit` what is
left of it. A sub loop is what `EventLoop` was shown to be, a FIFO executor that
works in batches: `pending`, `batch`, `at`, and `phase` (`io`, `run`, `drain`,
`last`, `gone`). `work[l]` says which callback of `Server` its thread is inside
and, during a broadcast, which part of the snapshot is left. `table` is
`connections_`, keyed by descriptors, which the kernel hands out again lowest
first; `open` are the descriptors in use, and a descriptor is closed when the
last owner of its connection lets go (`CloseUnowned`). Three places are undefined
behaviour and therefore a choice between carrying on and `crashed`: a function
object set to null while a sub thread is in it (`ClearCallback`), a post to a
destroyed loop (`Post`), and a connection still subscribed when the members are
destroyed (`DestroyMembers`). The module covers `threadNum_ > 0`; with 0 the main
loop serves the connections itself, which is the setting of `Poller`.

### Buffer

`buf` is the vector as a function on `0..size-1`; what lies outside the two
indices is kept, as in memory. `ReadFd` puts the first part of what `readv`
delivers in the writable part and appends the rest, as the code does; a failed
`readv` changes nothing. `Content` is what can be read, and is the refinement
mapping to `ByteQueue`. `hasWritten` has no caller and is left out; lengths beyond
`readableBytes()` are allowed in `Retrieve`, which then resets both indices.

### Poller

One loop's thread with everything that has a descriptor: the eventfd's and the
timerfd's channel, the acceptor, and connections accepted on the same loop.
`fdOf` is `Channel::fd_` (0: no object), `events` is `Channel::events_`, `channels`
is `channels_`, `interest` the kernel's list (a channel pointer and a mask per
descriptor, gone when the descriptor is closed). `Updated` is `updateChannel` with
its three branches and the kernel's refusals: `MOD` of a descriptor that is not
registered changes nothing, an `ADD` may always fail. `place` is where the thread
is: `poll`, `dispatch` (the loop over `events_`), inside a handler (`event`,
`message`, `accept`, `heartbeat`), `pending` (`doPendingFunctors`), then the
destructors in their order (`close`, `acceptor`, `timer`, `wakeup`, `gone`). `batch`
holds what `epoll_wait` returned, as bare channel pointers; `capacity` is
`events_.size()`. `queue` are the connections whose second `forceClose` stage is
queued, and which a functor therefore keeps alive. Other threads open and close
descriptors at any time (`OtherOpens`, `OtherCloses`), so that accepting runs into
`EMFILE`. What happens to the stack of a handler whose connection is destroyed is
the subject of `TcpConnection`; how the loop is woken that of `EventLoop`.

### LogStream, Logger, Chat

Characters are codes. `AppendTo` and `AddTo` are the two writes of `FixedBuffer`
with their different tests; `FormatInteger` works modulo `Modulus`, which is
2^w, as the unsigned type of w bits does. A log statement is `Construct` (the header and the filter), one
`InsertNext` per operand, `Output` (newline, `g_output`) and `Finish` (`abort` on
FATAL). `wanted` is what an unbounded stream would hold. `Chat` puts the chat
server's message callback on top: `HandleRead` fills `input_buffer_` with whatever
`readv` delivers, `OnMessage` empties it and logs, `SendInLoop` writes a part and
buffers the rest, `HandleWrite` drains `output_buffer_` in parts. Of the broadcast
only the copy to the sender is followed, and without the fixed text in front.

## 3. Runs

All runs are exhaustive on their instance.

| Run | Instance | Shows |
|---|---|---|
| `loop` | 3 callbacks, 2 other threads | `LoopInv`, `NoLostWakeup`: `epoll_wait` never sleeps over a posted callback or a quit request whose wake-up is not on its way. `ExecutorSpec`: the loop refines the FIFO executor, hence order and at most once. `QueuedIsRun`, `QuitEndsLoop`: what was queued before the last swap runs; `quit()` ends a loop that was entered. |
| `thread` | 2 callbacks of the owner, 1 of the loop | `ThreadInv`: `loop_` never points to a destroyed loop, the thread is over when the destructor returns, and the loop is left only through its final drain. `OwnerTasksRun`: then everything the owner posted has run. `EnteredLoopIsJoined`: the destructor does not hang once `loop()` was entered. |
| `thread_join` | the same | violated: a destructor that runs before the child executes the first statement of `loop()` is forgotten, because that statement clears `quit_`; `join` waits for ever. |
| `conn` | 2 messages of 2 units, send buffer 2, one other thread, handlers that send, shut down and close | `StreamIntegrity`, `WriteInterest`, `ConnInv` (types, close once, which events and close requests a turn leaves over), `NoneEventAtDestruction`, `NoMessageAfterClose`, `ForceCloseCompletes`, `BufferedIsSent`. |
| `conn_stack` | as `conn`, handlers only send, as the servers of the repository do | violated: at end of stream the connection and its `Channel` are destroyed inside `Channel::handleEvent`. |
| `timer` | 3 addresses, clock 1..4, instants {0, 1, 3}, delays 0..2 | `TimerInv`: ownership of every `Timer`. `Armed`: outside `handleRead` the timerfd stands for the first timer. `AlarmSpec`: refines the alarm clock (never early, no drift, none vanishes). `DueTimersRun`. |
| `log` | 4 lines, 1 line per buffer, `kMaxBuffers` 3, roll after 2 lines | `LogInv` (no line falls between buffers, the lines done with are the oldest, the others wait in the order of `append`), `FirstWritesInOrder`, `StopCompletesLog`, `AppendedIsWritten`. |
| `log_twice` | the same | violated: buffers already written are written again. |
| `server` | 2 sub loops, 2 descriptors, 2 clients, 1 broadcast, connection 1 may go idle | `ServerInv`: every table entry is a connection under its own descriptor, and every open descriptor belongs to one live connection or to one still to be created, although descriptors are reused. `SnapshotIsClosed`: what the destructor saw is closed before its loop is gone. `NoDescriptorLeak`. `IdleIsClosed`, `ShutdownCompletes`. |
| `server_late` | the same | violated: a connection created after the destructor's snapshot is still subscribed when the table is destroyed, after its loop. |
| `poller` | 2 connections, 5 descriptors, `events_` of 2 entries, 1 client waiting | `PollerInv`: whatever the kernel refuses, a registration and an event of the batch belong to a live object that owns the descriptor. `Registered`: unless the kernel has refused something, `channels_`, the interest list and every `events_` agree. `InputServed`: data is read although more channels are ready than fit into `events_`. `BacklogServed`: a client left behind by `EMFILE` is accepted later. |
| `chat` | 4 bytes in chunks of 1 to 3, vectors of 2, extra buffer of 2; lines of 18 characters, every integer of the signed and of the unsigned type of 6 bits | `BuffersInv` (indices in order, and where a byte may be at each place of the handlers), `MessageIntact`: both buffers of a connection over cut reads and writes. `LineInv`: the line buffer at its end. `IntegersReadBack`: every integer of the type, the least included. |

Why the bounds are enough for the cases of interest. *loop*: a batch in
execution, one callback queued behind it and one in flight need three
callbacks; two threads give the overlap of two pushes and two writes.
*thread*: one owner is what the class supports; it posts before and after the
loop is entered. *conn*: two messages of two units with a send buffer of two
give a full write, a partial write and data buffered behind data; two
queued functors give every pair of close requests, and a close in front of a
send. *timer*: three timers give one running, one expired behind it and one
added meanwhile; the clock passes every due time and lateness of several
intervals occurs. *log*: with one line per buffer, four lines give batches of
four, hence one batch that exceeds `kMaxBuffers` and leftovers of one and two.
*server*: two loops give a broadcast from one to the other's connection while
the destructor stops them one after the other; two clients on two descriptors
give a close and a new connection on the same descriptor and an accept that is
still queued when the destructor begins. `MaxPending` only keeps the heartbeat
from queueing a `forceClose` behind one that is still queued. *poller*: five
descriptors are the loop's three and two to be fought for by connections and
other threads, hence reuse inside a turn and exhaustion; up to four channels are
ready for two entries. *chat*: chunks end before, at and after the end of the
vector and spill into the extra buffer; the header takes most of a line, and
texts of every length around the rest follow, so that each of `append` and `add`
meets room for none, one and several characters.

`CHECK_DEADLOCK FALSE` is set everywhere: every system here may come to rest
(nobody posts, logs or sends any more), and the finite sets of inputs run out.

### Fairness

*loop, thread*: the loop thread is scheduled, callbacks return, `epoll_wait`
returns when the eventfd is readable, and a thread that has begun `queueInLoop`
or `quit` (or a destructor) goes on. Nobody is obliged to post, to quit or to
destroy. *conn*: the loop turns; for `BufferedIsSent` the peer's kernel
acknowledges data. *timer*: the clock advances, an expired timerfd becomes
readable, a readable one is reported, callbacks return. *log*: the back end is
scheduled and `wait_for` times out; `join` returns once the thread is over.
*server*: every thread is scheduled and the heartbeat timer fires; a loop's
turn handles finitely many events, so it comes to its pending callbacks and to
the test of `quit_` again and again, which is strong fairness of those two steps
over the events in between. *poller*: the loop's thread is scheduled, callbacks
return and `epoll_wait` returns when something is ready; `BacklogServed` assumes
that descriptors become free in the end. Nobody is obliged to connect, send or
stop the server. *chat* checks invariants only. The operating system's scheduler gives no less.

## 4. Theorems

Proved by TLAPS for all values of the constants:

* `EventLoop_proofs`: `LoopInvariant` is the inductive invariant. `NoLostWakeup`
  alone is not inductive, because it speaks only of `epoll_wait`; `LoopInv` says
  the same of every place from which `epoll_wait` is reached without another
  swap (`created`, `while`, `run`), with `BatchInv` tying
  `callingPendingFunctors_` to the place where `queueInLoop` relies on it. From
  it follow `WakeupNeverLost` and `QuitNeverSleptOver`. `ImplementsExecutor`
  shows the refinement (queue = rest of the batch followed by
  `pendingFunctors_`), and `RunsAtMostOnce` uses it: a step of the executor never
  executes a task twice (`OnceKept`).
  The same module has the theorems about `EventLoopThread`:
  `ThreadImplementsLoop` (owner and child use the loop only through
  `EventLoop`'s actions), hence `ThreadWakeupNeverLost`; `NeverDangling`, from an
  invariant that ties the owner's and the child's places; and `OwnerTasksAreRun`.
  The last one needs `DrainInv`, the way to the final drain: the child leaves
  `loop()` only through it, nobody but the destructor starts it, and once it has
  swapped the queue the owner posts nothing more.
* `TcpConnection_proofs`: one inductive invariant (`IInv`: types, the stream
  equation, write interest, closed implies unsubscribed and out of the table)
  and its consequences `StreamNeverCorrupted`, `WriteInterestHolds`, `ClosesOnce`,
  `DestroyedUnsubscribed`. `TurnsInOrder` adds what a turn leaves over
  (`TurnInv`: a marked connection has its second stage queued, and a closed one
  has a read event to come only if that stage was overtaken); from it follows the
  action property `MessagesStopAtClose`.
* `TimerQueue_proofs`: `LeastEntry` (a finite tree has a first entry) and
  `TimespecExact` (splitting an instant and putting it together is exact) carry
  `TimersOwned`, `TimerfdNeverBehind` and `ImplementsAlarmClock`. `Armed` alone is
  not inductive: while `handleRead` runs the tree lacks the expired timers, and
  the invariant has to say what the vector holds meanwhile.
* `AsyncLogging_proofs`: `NoLineFallsBetween` proves `BufferInv`. That no
  line is lost depends on what the leftovers of an earlier batch contain
  (`LeftoverInv`: only lines done with) and on the front buffer being new
  (`FreshInv`); `StopMeansComplete` and `RecycledBuffersAreEmpty` follow.
  `LinesStayInOrder` adds `OrderInv` and with it proves `LogInv`: the lines done
  with (written, dropped, lost) are a prefix of what was appended, and the others
  stand in the batch, `buffers_` and `currentBuffer_` in order, leftovers not
  counted. The step that matters is that the buffer written, or the buffers
  dropped, are ahead of everything that remains (`BatchAhead`, `OldestStay`).
  `FirstWritesOrdered` then needs only the step that writes: an older line is
  dropped, already in the file, or earlier in the same buffer.
* `Server_proofs`: `ServerIsExact` is the inductive invariant, for any number of
  loops, descriptors and clients. That every open descriptor has one owner is not
  inductive by itself: a descriptor is reused as soon as the last owner lets go,
  so `ArrivalInv` says that a descriptor on its way to a loop is in exactly one
  callback and in no connection, `WorkInv` that a thread closing a connection
  still finds it in the table, and `PlaceInv` how far each loop is when the
  destructor is where it is. `ClosingInv` follows the destructor's snapshot: a
  connection still subscribed has its `closeNow` ahead of it. `SnapshotClosed` and
  `NothingLeaks` are its consequences. `LoopsAreQueues` is what the server relies on
  in its loops, shown of the loops as `Server` models them: the rest of the batch
  and `pendingFunctors_` together (`ToRun`) are one first in, first out queue,
  whoever posts; a step appends at the end, takes the first callback, or changes
  nothing (`QueueStep`). It is the mapping by which `EventLoop` implements
  `Executor`. What a loop is destroyed with may hold messages and close requests,
  but no accepted descriptor.
* `Poller_proofs`: `EventsFindTheirOwner` and `TablesAgree`, for any number of
  descriptors and connections and any capacity. The events of a batch are bare
  pointers, so the invariant says which objects exist at each place (`PlaceInv`:
  among others, no event of the batch is for the connection being handled), who
  owns which descriptor (`Ownership`), and what a channel subscribes to
  (`SubscriptionInv`: without it the ADD, MOD and DEL branches of `updateChannel`
  cannot be told apart). One lemma per branch (`UpdatedIs`, `UpdateKeeps`,
  `CloseKeeps`) serves all the handlers.
* `Buffer_proofs`: `BufferIndicesOrdered` (the indices stay in order and inside the
  vector) and `ImplementsByteQueue`. The step lemmas say where each byte lies
  after a copy (`StoredIsVector`, `StoredHolds`), that a write moves no readable byte
  (`AppendAtFacts`), and put the two parts of `readFd` together (`WriteStep`).
* `Chat_proofs`: `BuffersStayOrdered` and `MessagesArriveIntact`. It instantiates
  `Buffer_proofs` a second time, for the output buffer, so that the step lemmas of
  a buffer serve both. The stream equation holds through a step because a byte is
  in the input buffer only between `readFd` and the callback, and in `msg` only
  between the callback and `sendInLoop` (the last conjuncts of `BuffersInv`).
  `LinesStayInside` and `IntegersAreExact` are about the log statement of the
  callback, from the inductive `LoggerInv`, which adds to `LineInv` and
  `IntegersReadBack` the types of `wanted` and of the operands to come. A piece
  that is too long is dropped whole, so what is kept of a line is what an unbounded
  stream holds as long as that one still fits (`Fits`, `PutFits`); `HeaderFits`
  follows the header piece by piece. The conversion is by recursive functions
  (`Digits`, and `Decimal` to read back), and that such a function satisfies its
  equation is proved here as well: `RankRecursion` says so of any recursion that
  goes down in rank, its step being a function and hence a value, from the least
  number that would have no solution (`LeastNumber`). `DigitsWrite` takes the least
  number whose digits do not read back, and `NegateModulo` is the case of the least
  value, whose negation is its own complement.

The assumptions are those named `...Assumption` in the modules (bounds are
naturals, buffers hold at least one unit, and so on); TLC evaluates them in
every run; the theorems about `Buffer` carry theirs as a hypothesis, which `chat`
evaluates through `ChatAssumption`. Of the logger they ask that `Modulus` is
positive and that operands are texts, characters or integers of the type.

Only model-checked: the liveness properties (`QueuedIsRun`, `QuitEndsLoop`,
`EnteredLoopIsJoined`, `ForceCloseCompletes`, `BufferedIsSent`, `IdleIsClosed`,
`ShutdownCompletes`, `DueTimersRun`, `AppendedIsWritten`, `InputServed`,
`BacklogServed`), since fairness is outside the prover's reach. Every invariant,
action property and refinement of a passing run is stated by a theorem.
`LoopsAreQueues` is the other way round: a theorem that no run repeats.

## 5. Where the code and its documents disagree

Shown by runs: `thread_join`, `conn_stack`, `log_twice`, `server_late` (see the
findings in `PROJECT.json`). Met while modelling and visible in the modules,
without a run of their own:

* `EventLoop.cpp:121` promises that all posted callbacks have run when `loop()`
  returns; one queued by a callback of the final drain stays behind. `QueuedIsRun`
  excludes it.
* `EventLoop.h:79` says `queueInLoop` wakes the loop; on the loop thread before
  `loop()` it does not (`early`).
* `EventLoop.cpp:192` says that a callback queued by a callback runs at the end of
  the same `doPendingFunctors`; it runs in the next one.
* `EventLoop.h:60` calls `quit()` thread safe; it stores `quit_` and then writes the
  eventfd, and in between the loop can see the store, return and be destroyed
  (the second alternative of `DestroyWakeup` in `EventLoopThread`).
* `EventLoopThread.cpp:19`: when the loop has ended by itself, `loop_` is null, the
  destructor skips `join` and the joinable thread member ends the process
  (`terminated`).
* `TcpConnection.cpp:185`: a second `forceClose()` before the queued second stage
  closes at once, inside the caller's stack; an event of the
  same turn that is still to be dispatched then delivers a message after the close
  callback, the one case that `NoMessageAfterClose` leaves out.
* `TcpConnection.cpp:144`: `shutdown()` closes the write side over buffered data
  (`docs`: "先发完缓冲区数据").
* `TcpConnection.cpp:228` says that disabling a channel without events takes the
  DEL and erase path; `updateChannel` finds no entry and takes the ADD path, which
  registers a channel without events and leaves an entry in `channels_` for a
  descriptor that is closed next. It happens when `listen()` or an earlier ADD has
  failed (`refused`); the next owner of the descriptor then gets a MOD, which
  fails, and hears nothing.
* `TimerQueue.cpp:92` says `expiration <= now`, the code takes `< now`; the timer
  fires on the next turn instead. `TimerQueue.h:56` says the entries are ordered by
  time and sequence number; they are ordered by time and address.
* `TimerQueue.cpp:121`: a timer for the clock's epoch disarms the timerfd, and the
  timers behind it wait until something earlier is added.
* `Server.cpp:41` says that with the callbacks cleared no cross-loop post happens
  during shutdown; a broadcast begun before still posts, possibly to a loop that
  is gone, and the function object may be set to null while it is being called
  (`ClearCallback`, `Post`).
* `Server.cpp` (`checkHeartbeats`): idleness is tested in the main thread and the
  close is queued; data that arrives in between does not save the connection.
* `Buffer.h:8` says consumed space is reused; it is, but only once everything has
  been consumed, a vector that is never quite empty keeps growing.
* `AsyncLogging::append` after `stop()` dereferences a null buffer.
* `LogStream.h:27` says a full buffer truncates; a piece that does not fit is dropped
  whole and shorter pieces behind it still get in, so a line can have a hole. The
  newline is dropped too when only one character is left.
* `Logger.cpp:107` says errors are flushed at once; with `AsyncLogging` as the sink
  `g_flush` only wakes the back end, and FATAL aborts right after it. A FATAL
  statement aborts even when it is filtered and writes nothing.

## 6. Plan

Done, in this order: the loop and its executor, the loop's thread, the connection,
timers, logging, the server with its pool and acceptor, the buffer, the poller
with the server without sub loops, the logger and the chat server's message path.
Next: *the FATAL path*, `Logger` over `AsyncLogging`, to say exactly which lines an
abort loses.

## 7. Not modelled

What a time stamp, a double or a pointer looks like in a log line, file names,
byte counts inside a unit of `TcpConnection`, IPv4 address handling, socket options
and the constructors' failing system calls, `main()` of the servers, the sample
client, the benchmark programs, and the earlier exercises (`select`, `epoll`,
`oneThread2oneFd`), which are programs of their own that the library superseded.
They hold no state that the properties above depend on.
