# Verification of libnosync

libnosync is a C++17 library for asynchronous programs without data races by
construction: user code runs as tasks of an event loop, one at a time, and is
composed from request handlers, readers and writers that answer by calling a
result handler later. Threads appear in few places: the thread pool, and the
executors that carry tasks from other threads into a loop. This directory holds
TLA+ models of that code, TLC configurations, and proofs checked by TLAPS. Each
definition names the code it stands for in `PROJECT.json` ("map").

## 1. Inventory

| Component (code) | State | Operations | What makes it correct |
|---|---|---|---|
| manual event loop (`manual-event-loop.cpp`) | map of tasks by (time, id), last event time, quit flag | `invoke_at`, `disable`, `quit`, `process_time_passage` | the contract of `event-loop.h`: not early, FIFO among equal times, once, never after `disable()`, time stands still in a task |
| manual fd watcher (`manual-fd-watcher.cpp`) | multimap of watches by (fd, mode), quit flag | `add_watch`, `disable`, `notify_watches`, `quit` | each reported watch is called once, none after its disabling, whatever the functions of a round do |
| ppoll event loop (`ppoll-based-event-loop.cpp`) | the two above, `etime`, a third quit flag | `run_iterations`, `quit`, `invoke_at`, `add_watch` | the contract again, no starvation of tasks, a quit ends its run and only its run |
| synchronized queue (`synchronized-queue-impl.h`) | deque, mutex, condition variable | `push`, `pop`, `pop_group`, `try_pop_group` | FIFO, no lost wakeup |
| thread pool executor (`thread-pool-executor.cpp`) | a synchronized queue of tasks, worker threads | the executor call, destructor (join or detach), workers | every task is taken in order of enqueuing and runs once; every worker ends; no deadlock |
| sync-queue event loop (`synchronized-queue-based-event-loop.cpp`) | a manual event loop, an optional synchronized queue, a weak pointer to its executor | `run_iterations`, `get_mt_executor`, executor calls and destructor | the contract; tasks of other threads run once and in order; idle only when nobody can add a task |
| pipe MT executor (`event-loop-mt-executor.cpp`) | queue with mutex, pipe, watch | executor calls, `handle_in_notify` | no task waits without a notification; the watch ends after the last task, and does end |
| requests queue (`requests-queue-impl.h`) | deque of requests with timeouts, one scheduled timeout task | push, pull, pull matching, timeouts, destruction | each request is answered once, not late, not early; handlers may re-enter |
| admission handlers (sequential, multi-sequential, prioritizing, semaphore) | ongoing flags or a counter, requests queues | `handle_request`, the response callback | mutual exclusion (per key, up to a count), order, nobody stuck |
| forwarding handlers (throttling, grouping, lazy init, noconcurrent, call once, idle notifying, deadline, timeout limit, transforming, constant; sequences and streams of requests) | small per-handler state: times, flags, counts | `handle_request`, response callbacks, tasks that try again or refuse | each request is answered once (of a group, with a copy of one result), what the class promises of those it passes on |
| readers (buffered, size limited, time limited, lines; functions that read more than once) | buffer, limits, queue of reads | `read_some_bytes`, `handle_request`, `read_bytes_fully` and others | bytes neither lost nor reordered, each read answered |
| writers (`fd-bytes-writer.cpp`, `sequential-chunks-writer.cpp`, `func-bytes-writer.cpp`) | jobs with their offsets, a sequential handler over them | `write_bytes`, `handle_request` | all bytes or an error; chunks are not mixed |
| message dispatching (`input-messages-dispatch-handler.cpp`, `io-lines-request-handler.cpp`) | two requests queues, the ongoing read; a context per line | `handle_request`, the end of a read, of a write | a response goes to its request, whichever of response and write ends first |
| threaded handler and writer (`os/threaded-*`) | none shared but the executors | one request handed to a thread and back | answered once, in the loop's thread |
| fd reader and timed watches (`fd-bytes-reader.cpp`, `fd-watch-utils.cpp`) | a watch and a timeout task | read, `watch_fd_with_timeout` | exactly one of watch and timeout answers |
| connections requester (`socket-connections-fd-requester.cpp`) | a socket and a timed watch | `handle_request` | only connected sockets are handed out |
| subprocess reaper, commands (`subprocesses-reaper.cpp`, `piped-command.cpp`) | a requests queue, SIGCHLD; pipes | `handle_request`, the signal watch; `start_piped_command` | each status goes to who asked for it |
| descriptors (`owned-fd`, `shared-fd`, acceptors, socket activation, signal watcher) | who owns which number, what is watched | open, move, share, release, accept, take over | closed once, by the owner, after its watch |
| activity owners, tick generator (`activity-owner.cpp`, `periodic-tick-generator.cpp`, `objects-owner.cpp`) | handles and their owners | assign, move, reset, destroy, tick | an activity ends with its owner and only then |
| values (results, addresses, times, numbers, tuples, texts) | none | pure functions | what is written can be read back |

Interaction: a loop owns its tasks and watches and calls them; they call back
into the loop (enqueue, disable, add a watch, quit), which is the re-entrancy
that all models keep: *user code is any sequence of calls of the interface*.
Threads interact with loops only through the queues.

Hard behaviours: re-entrancy from callbacks; stale flags and handles across
runs; three notions of "now" in the loops; wakeups that are only sent when a
queue becomes non-empty; sentinel elements (null tasks, end of file) racing the
last real ones; destructors run by whichever thread drops the last reference;
watches of one round of notifications that take each other's bytes or end each
other; system resources (pids, descriptor numbers) that are given out again
while somebody still waits for, or watches, the former holder.

## 2. Modules

| Module | Models | Uses |
|---|---|---|
| `EventLoop` | the contract of `event_loop` and `activity_handle` (abstract) | |
| `ManualEventLoop` | `manual_event_loop` | refines `EventLoop` |
| `PpollEventLoopProofs`, `SyncQueueEventLoopProofs`, `EventLoopMtExecutorProofs`, `ThreadPoolExecutorProofs`, `RequestsQueueProofs` | theorems about the modules of these names | each extends its module |
| `RequestHandlersProofs` | theorems about all request handlers | extends `MCRequestHandlers` |
| `BytesReadersProofs` | theorems about the readers | extends `RequestHandlersProofs` and `MCBytesReaders` |
| `ResourcesProofs` | theorems about the manual loop, descriptors and owners of activities | extends `ManualEventLoop`, `Descriptors` and `ActivityOwners` |
| `ManualFdWatcher` | `manual_fd_watcher` | |
| `PpollEventLoop` | `ppoll_based_event_loop` | instances of the two above, refines `EventLoop` |
| `SynchronizedQueue` | `synchronized_queue`, as operators on a record | |
| `ThreadPoolExecutor` | `thread_pool_executor` | extends `SynchronizedQueue` |
| `MtExecutor` | what an executor of a loop promises to threads (abstract) | |
| `SyncQueueEventLoop` | `synchronized_queue_based_event_loop` | an instance of `ManualEventLoop`, extends `SynchronizedQueue`, refines `EventLoop` and `MtExecutor` |
| `EventLoopMtExecutor` | `make_event_loop_mt_executor` | refines `MtExecutor` |
| `RequestsQueueOps` | a `requests_queue` as a value: its deque and its timeout task | |
| `RequestsQueue` | one `requests_queue` driven by its loop and its owner | extends `RequestsQueueOps` |
| `RequestHandler` | the contract of `request_handler` (abstract) | |
| `RequestHandling` | what the handlers below share: clients, base handler, tasks of their queues, destruction; `kind`, the class chosen; and `own`, what a class adds | extends `RequestsQueueOps`, refines `RequestHandler` |
| `SequentialRequestHandler` (also the multi-sequential one, which has one of them for each key), `RequestHandlerSemaphore`, `PrioritizingRequestHandler`, `GroupingRequestHandler`, `ThrottlingRequestHandler`, `InputMessagesDispatchHandler`, `IoLinesRequestHandler`, `ThreadedRequestHandler` | the classes of these names | each extends `RequestHandling` and gives `own` a name |
| `ForwardingRequestHandlers` | ten classes: the lazy init handler, and those that pass a request on at once or refuse it: noconcurrent (handlers and bytes i/o), call once, idle notifying, deadline setting, timeout limiting, transforming (two), constant response | the same |
| `RequestIterations` | `handle_requests_sequentially` and the results stream fetcher | the same |
| `FdBytesWriter` | `fd_bytes_writer`, alone or under the sequential chunks writer | extends `SequentialRequestHandler` |
| `SocketConnections` | the connections requester and `watch_fd_with_timeout` | the same |
| `SubprocessesReaper` | the reaper, and commands that ask it for their status | the same |
| `MCRequestHandlers` | chooses one of fifteen kinds of handlers in the initial state | extends all of them |
| `BytesReading` | what readers share: the stream, the base reader, delayed answers | extends `RequestHandling`, refines `RequestHandler` |
| `BufferedBytesReader`, `SizeLimitedBytesReader`, `LinesReader` | the classes of these names; `LinesReader` includes `read_line` and the time limited reader below it | each extends `BytesReading` |
| `BytesSources` | readers at the bottom: `fd_bytes_reader`, `const_bytes_reader` (also of a datagram), the failed reader | the same |
| `BytesReaderUtils` | `read_bytes_fully`, `process_read_bytes_with_timeout`, `read_all_pending_bytes` | the same |
| `MCBytesReaders` | chooses one of these in the initial state, and what clients do while reads are open | extends all of them |
| `Descriptors` | `owned_fd`, `shared_fd`, all functions that open descriptors, acceptors, pending reads and writes, commands, socket activation | |
| `ActivityOwners` | `activity_owner`, `objects_owner`, the periodic tick generator | |
| `Values` | pure functions on numbers, tuples, texts and suppliers; results and handlers made of handlers, socket addresses, datagrams, times | |
| `MCUtilities` | chooses descriptors, owners, or a sample of arguments of the functions | extends `Descriptors`, `ActivityOwners` and `Values`, has the reference definitions |

How state and actions correspond to the code:

* Data is abstract: a task is its key [time, id] in a loop or its number in a
  queue; a watch is [key, id]; time points are small naturals and `clock` is
  what `eclock::now` reads. Function bodies are the choice of the next call.
* One action is one uninterrupted piece of the loop's code: from one call of
  user code to the next. `mode`, `task_mode`, `watch_mode` and `pc` say where
  the loop is. Each return, `break` and early exit has its disjunct.
* In the threaded modules one action is one critical section, or a piece of code
  that needs none. A worker of the pool pops a task (`PopTask`) and calls it
  (`StartTask`) in two steps, as the mutex is released between them
  (`thread-pool-executor.cpp:108`, `115`): tasks are taken in order, but a pool of
  several threads need not start them so. In `EventLoopMtExecutor` a push has two steps because the reader reads the pipe
  without the mutex; in `SyncQueueEventLoop` dropping the last copy of an
  executor and the push of its null are two steps in other threads.
* A request is [id, timeout_end]; ids grow with time, so a deque is the set of
  its requests and its front is the smallest id. The base handler answers in any
  order, after any time, and "timed out" only when the time it was given has
  passed. A response handler of a client makes any requests: they are actions
  that are enabled between the call of the handler and its return
  (`mode = InResponse`, or a queue's timeout or cancel task). A queue may not be
  destroyed by a handler that its own timeout task calls: the task would use it
  afterwards (`requests-queue-impl.h:213`).
* The grouping handler gives each request of a group the result of the first one
  as it is (`grouping-null-request-handler-impl.h:69-77`). When that one has timed
  out, the others are told `timed_out` too, before their own times. The contract
  therefore has copies: `Answer` answers a request and says for which others its
  result is taken (`copies`), `AnswerCopy` gives it to those, in the same task and
  once each. Only `GroupingRequestHandler` has copies; for every other class, and
  for readers, `copies` is empty and a timeout is never told early.
* A read or write that the noconcurrent bytes i/o refuses reaches the base all the
  same, as a read of zero bytes that calls the client's handler later
  (`noconcurrent-bytes-io.cpp:50`, `68`), though another call is active there:
  `BaseCalls` counts it, `ZeroBytesRead` is the base's answer. Other refusals are
  tasks of the loop.
* A byte is its position in the stream, so that loss, doubling and order can be
  seen; which bytes are `'\n'` is chosen in the initial state. The base reader
  returns any number of bytes that its contract allows, an error, or a timeout
  when its time has come. A reader's fields are the record `reader`; `asked` and
  `sizes` are the sizes captured by lambdas. A line is delivered with its `'\n'`
  in the model. Clients of a lines reader make one request at a time: two in
  progress would share out the bytes of a line, and could make the buffer longer
  than `max_line_size`, so that `max_line_size - prefix_size` wraps
  (`lines-reader.cpp:114`); nothing in the code excludes that.
* `SynchronizedQueue` keeps the condition variable's wait set. `push` empties
  it only when the queue was empty, as `notify_all` is called only then.

## 3. Runs

| Run | Bounds | Shows |
|---|---|---|
| `manual_event_loop` | times 0..2, 4 tasks | contract for all interleavings of enqueue, disable, quit and time passage; three times and four tasks give every relation of order and equality between keys |
| `ppoll_event_loop` | times 0..1, 2 tasks, 2 keys, 3 watches | re-entrant dispatch with two watches on one key and one on another, so that watches of the same and of other rounds disable each other; quits from inside and outside of a run, exceptions; liveness of tasks and quits |
| `thread_pool` | 2 clients, 3 workers, 3 tasks, both destroy modes, any number of threads that fail to start | wakeups, order of taking and what may be overtaken in starting, ending of workers; three workers let one sleep, one run and one pop, or two start before a third that popped first |
| `mt_executor_pipe` | 3 threads, 4 tasks | notification protocol; queue lengths 0, 1 and more, several fill-and-drain rounds |
| `sync_queue_event_loop` | 1 other thread, times 0..1, 1 own and 3 external tasks, 2 executors | contract, executor promise and idleness, with a second executor after the first one ended |
| `requests_queue` | times 0..2, 4 requests, timeouts up to never | the one timeout task covers all requests whatever handlers push and pull; each request leaves once, and does leave |
| `request_handlers` | times 0..2, 3 requests (2 for lazy init, forwarding, iterations, connections, threaded, reaper and the writer), 2 queues, priorities or keys, a semaphore of 2, a deadline, a timeout limit and a throttling distance of 1, 1 call of up to 3 requests, data of 2 bytes, 2 pids | for each of the fifteen kinds: the contract of `request_handler`, what the class promises (`LimitKept`), its order (`ServedInOrder`: pending requests in the order of coming, of a higher priority first, and newcomers ahead of none of them - of their key in the multi-sequential handler; the prioritizer is excepted inside the call of a response handler, see finding 2), nobody waits for nothing (`NoneForgotten`), each request is answered; three requests give one in use, one waiting and one made by a response handler. The lines handler without faults (`IoFaults = FALSE`), see `io_lines_throws` |
| `bytes_readers` | times 0..1, 3 reads of 0..2 bytes, a stream of 4 bytes, buffer 2, limit 2, lines of up to 2 bytes in chunks of 2; two reads open at the same time (`MaxOpen`), of 1 or 2 bytes (`OpenSizes`) and without a timeout (`OpenDeadlines`) | for each class: the contract of answers, the limits, and that no byte is lost, doubled or out of order - for a buffered reader with two reads at a time, that none is lost; the limit can be reached with two reads pending, a line can be too long by one byte, a chunk can hold the end of one line and all of another, and the first of two reads of a descriptor can take all that the second was notified for |
| `utilities` | 4 descriptors, 2 `owned_fd`s and 2 shared ones, up to 2 activated sockets; 4 handles, 2 owners, a tick every 2 of 4 times; bytes of 2 bits in types of 1 and 2 bytes (all values), texts of up to 2 of 21 characters at the edges of the ranges the code tells apart and each single character, paths of up to 4 characters for a `sun_path` of 3, time points -16..15, times up to 5 seconds of 100 ticks | each descriptor is closed once and by its owner, with its watch ended before; commands inherit only their pipes; an activity ends with its owner, ticks keep their interval; functions and their inverses agree, comparisons and sums are those of the integers |
| `prioritizing_one_at_a_time` (violation) | times 0..1, 4 requests, 2 priorities | a request made by a response handler is processed beside a pending one |
| `io_lines_throws` (violation) | times 0..1, 1 request, faults | a response that times out throws out of the loop; its client is never answered |
| `sync_queue_reacquire` (violation) | 1 other thread, 1 task, 2 executors | an executor made while a null is unread loses its task |

Deadlock is checked except where the system stops for good: a pool whose
workers ended, a pipe executor whose watch ended, a destroyed queue, handler or
reader, a sample.

Fairness: the loop's own steps and the return of user code are weakly fair
(`event-loop.h:35-39` demands short tasks), threads are scheduled, time passes.
User calls, failures, readiness of descriptors and spurious wakeups carry no
fairness: nothing relies on them. The base handler of `request_handlers` answers
in the end, as its contract demands (`request-handler.h:24-25`); so does the base
reader of `bytes_readers`, where time passes too. Below the other
classes it is the environment that answers: the kernel ends a connect one way or
the other, a process that was started exits some time, a thread ends its job,
lines are written or fail and responses come, bytes arrive. `TasksServed` and `ExtTasksServed` are stated
up to the end of the run, as a quit may leave tasks behind.

### Findings

1. `SyncQueueEventLoop!IdleLeavesNoTask`: `get_mt_executor` called between the
   drop of the last executor and the reading of its null puts the new executor
   on the old queue; the null drops that queue, and tasks are lost. The passing
   run has `EarlyReacquire = FALSE` for this reason.
2. `PrioritizingRequestHandler!OneAtATime`: the response callback clears the
   ongoing flag, calls the client's handler and then forwards a pending request
   without looking at the flag. A client that makes a request in its handler gets
   it forwarded at once, and the pending one follows: two are processed at a
   time, though `prioritizing-request-handler.h:24-25` promises one, and the new
   request overtakes the pending one, also one of the same proxy, though line 27
   says that "requests from single proxy are processed in the order of receipt".
   `ServedInOrder` of the passing run names this place as its only exception.
   `sequential_request_handler` and the
   semaphore clear their state after the handler and keep their limit.
3. `MCRequestHandlers!EveryRequestAnswered` of the lines handler: it takes the
   value of the dispatcher's result without asking whether there is one
   (`io-lines-request-handler.cpp:144`). A timeout, a failed read or the end of
   the dispatcher makes `get_value()` throw `logic_error` out of the loop, and
   the client is not answered, though `request-handler.h:24-30` promises one
   answer, `timed_out` after the timeout.

Seen while modelling, not run:

* `quit()` sets a flag in the ppoll loop, in the inner loop and in the fd
  watcher. A quit made by a watch returns from the run with only the watcher's
  flag consumed (`ppoll-based-event-loop.cpp:187-189`), so the next
  `run_iterations` returns `errc::interrupted` without a quit;
  `event-loop-control.h:19-20` promises that for a quit during the run.
* A size limited reader pulls one pending read when a base read ends. If the
  limit is reached by then, that read fails with `file_too_large` without a new
  base read, whose end would pull the next (`size-limited-bytes-reader.cpp:67-71`,
  `95-105`). The others wait for their timeouts, or for ever without one;
  `size-limited-bytes-reader.h:17-18` promises them the error. `EveryReadAnswered`
  is stated for reads of this class that have a timeout.
* A buffered reader with an empty buffer turns a read of zero bytes into one of
  `max_buffer_size` bytes, which waits for data and may time out
  (`buffered-bytes-reader.cpp:59-63`), though `bytes-reader.h:30-31` wants an
  empty result without delay; decorators above it use such reads to call
  handlers later.
* A `connect()` that fails at once is waited for like one in progress
  (`socket-connections-fd-requester.cpp:60-66`): its socket polls writable and
  `SO_ERROR` may be 0, so an unconnected socket is handed out. `LimitKept` of
  `SocketConnections` names the case, as it rests on what the kernel reports.
* A request that joins a group gets the first one's result, a timeout of the first
  included (`grouping-null-request-handler-impl.h:69-77`), so it may be told
  `timed_out` while its own timeout runs; `request-handler.h:29-31` ties that
  result to the timeout given to `handle_request()`. Nor is a request of a group
  timed out at its own time, when the first one has a longer timeout.
* Two reads of one descriptor at the same time: the second may get `EAGAIN` as
  its error (`fd-bytes-reader.cpp:91`). `NoByteLost` says that this needs two.
* `read_all_pending_bytes` and `process_read_bytes_with_timeout` take an empty
  read, the end of the stream, as a reason to read again
  (`bytes-reader-utils.cpp:96-98`, `bytes-reader-utils-impl.h:111-126`): they end
  only when the reader reports an error or a timeout. `EveryReadAnswered` leaves
  them out.
* `takeover_socket_activated_fds` takes `LISTEN_FDS` as it is: `int_range` of a
  negative number does not end where it should (`socket-activation.cpp:89`);
  `ValuesInvert` checks that it never reaches its bound, but overflows. The
  descriptors taken over are not made non-blocking, so an acceptor of one may
  block the loop (`DescriptorsPrepared` allows it for them).
* The response transformer of `full_transforming` points to its handler without
  owning it (`transforming-request-handler-impl.h:59`), `tick_func` must not
  destroy its generator (`periodic-tick-generator.cpp:45`): both are excluded.
* The digits of microseconds of times before the epoch are those of a negative
  number taken as unsigned (`time-utils.cpp:68`); the samples start at the epoch.
* A command whose pipes have the numbers 0 or 1 loses them to `dup2`
  (`piped-command.cpp:121`, which says so); numbers start at 3 in the models.

## 4. Proofs

### Loops

Of `ManualEventLoop`, `ResourcesProofs` proves for any `MaxTime` and `MaxTasks`:

* `TypeCorrect`: `Spec => []TypeOK`. The invariant holds the types and
  `HandlesNameOneTask`: ids in the map are below `next_task_id` and unique. It
  is inductive as it stands; uniqueness needs the bound on the ids, as a new
  task takes `next_task_id`.
* `Implementation`: `Spec => ImplementsContract`. `InitImplements` and
  `StepImplements` show that initial states and steps map to `EventLoop`;
  the interesting step is `RunTask`: the head of the map by (time, id) is the
  oldest of its time and not early. `quit`, exceptions and the loop's own
  decisions map to stuttering or to the end of an iteration.

It assumes `BoundsAreNaturals` only.

`PpollEventLoopProofs` proves for any times, tasks, keys and watches, with and
without exceptions of user code:

* `Implementation`: `Spec => ImplementsContract`. The refinement alone is not
  enough to start a task: the inner loop compares with its own time, the contract
  with the `etime` that users see, so `IInv` carries `TimesInOrder`. `ModesInv`
  says that the inner loop and the watcher rest while `run_iterations` is
  elsewhere: otherwise the step after `ppoll` could not map to `Advance`, which is
  not allowed to a busy loop.
* `ReportsReach`: `Spec => ReportsReachWatches`. The module keeps as histories what
  the last `ppoll` found ready (`reported`), the watches that were there for it
  (`owed`), those called since (`called`), and those ever disabled. `WatchesInv` says
  that ids are not used twice and no watch of the map has been disabled;
  `RoundInv`, that what remains of a round is of a reported key that is no longer
  among the ready ones, and has not been called; `OwedInv`, that a watch that is
  owed a call was called, or disabled, or is still in the round or of a key to come.
  With these the end of a dispatch finds nothing owed. `normal_return` tells a
  dispatch that goes through from one that a quit or an exception leaves.
* `QuitIsFinal`: nothing starts in a run after its quit. `QuitInv` says which of
  the three flags is still set at each point of the way out, and that
  `normal_return` stands for the flag the watcher has consumed.

`SyncQueueEventLoopProofs` proves for any times, tasks, other threads and
executors:

* `LoopImplementation`: `Spec => ImplementsContract`, along the same argument: the
  time of the inner loop is never ahead of that of the loop, nor that of the clock.
* `IdleIsDone`: with `~EarlyReacquire`, `Spec => IdleOnlyWhenDone`. `OthersDone`
  says that only the loop's queue holds elements and only its executor is in use;
  `CurrentInv`, that there is no null until that executor is destroyed, and then
  one, behind all tasks, in the queue or in the group that was taken from it. The
  assumption is the one that `sync_queue_reacquire` shows to be needed.
* `ExecutorImplementation`: with `~EarlyReacquire`, `Spec => ImplementsMtExecutor`.
  The tasks not yet run are in three places, in this order: those the inner loop
  has taken and not run, the group, the loop's queue. `MovedAt(d)` says that the
  inner loop has run the first `d` of those it took, and no other of them: they
  were all enqueued at the `etime` of their taking, which never goes back, and
  with growing ids, so that the head of the map by (time, id) is either a task of
  user code or the first of them. With it a run of a task is `Execute` of the
  contract, a push is `Accept`, taking a group and handing a task to the inner
  loop change nothing, and reading the null is `StopListening`, as `CurrentInv`
  says that nothing follows it and nobody holds its executor. `Among` picks the
  elements at some places by a recursive function; where the places are an
  interval, `AmongInterval` shows it to be `SubSeq`, by the first place where two
  functions with its equation would differ.

### Threads

`EventLoopMtExecutorProofs` proves for any set of threads and any number of
tasks `TypeOK`, `TaskIsNotified`, `WatchOutlivesTasks` and the refinement of
`MtExecutor`. None of them is inductive alone. `PusherInv` says what a thread
that is half way through `push()` knows (if its task is the only one, no byte is
in the pipe and the reader is idle), `ReaderInv` what the reader knows between
its read and its lock (a byte read means a task to find; an end of file means
no task and no holder), and `ByteInv` that a byte means a task. Together they
are the protocol between the mutex and the pipe. For the refinement the tasks
in order are `scheduled \o elements`, and draining leaves that sequence as it is.

`ThreadPoolExecutorProofs` proves for any clients, workers and tasks `TypeOK`,
`NoLostWakeup`, `StartOrder` and `WorkersEndLast`. `QueueInv` describes the
whole queue: the tasks enqueued and not taken, in order, then nulls. `StartsInv`
says where the tasks taken are: each is with the one worker that took it and has
not called it yet, or was started, once.
`DestructorInv` says that there are no nulls before the destructor runs and that
nobody can enqueue from then on, as no client, no queued and no running task
owns the executor.

### Requests

`RequestsQueueProofs` proves for any times and any number of requests `TypeOK`,
`TimeoutTaskCoversRequests` and `EachAnsweredOnce`. The invariant accounts for
every id: one request waiting in one place, or one outcome (`Accounted`,
`PlacesDiffer`); `TasksInv` says that a task has called all of its handlers
before the owner runs again, and that only a destroyed queue has requests to
cancel.

`RequestHandlersProofs` proves for all fifteen kinds of handlers, with any times,
requests, queues and parameters of the classes:

* `HandlersImplementContract`: `Spec => ImplementsRequestHandler`. `SharedInv`
  says of the requests what all classes share: their ids are those of calls
  (`KnownInv`), each is in one place (`ApartInv`), its time is that of its call or
  a later one - forwarding with the time that is left, and coming again to a
  throttling handler, only put it off - and the handlers that a timeout task has
  yet to call are due (`CalledInv`). There is one lemma for each kind of step -
  accepted, forwarded, answered, timed out, cancelled, merged into another queue -
  and the step of a class is one of these. Three classes answer from
  records of their own and need them in the invariant (`OwnInv`): the tasks of the
  throttling handler, the calls of iterations, the results posted by threads. The
  grouped requests of the grouping handler are the exception in the contract:
  their steps are `AnswerCopy`, and its copies are what its response callback has
  yet to call (`CopiesStep`). For all other classes the contract without copies
  (`Plain`, copies always empty) is what is shown, and `NoCopies` carries it over.
* `HandlersForgetNone`: `Spec => []NoneForgotten`. Each class keeps a flag, a
  counter or a set in step with what is in use, while it is alive:
  `FlagInv` (sequential handlers and the chunks writer), the same for every key,
  the value of the semaphore, the ongoing flags of prioritizing and grouping
  handlers, the state of the factory, the ongoing read of the dispatcher, the
  signal of the reaper, a context for every line. With them goes what is needed to
  keep them: which queues are empty, and that at most one request is in use.
* `HandlersKeepLimits`: `Spec => []LimitKept`, from the same invariant
  (`PromisesInv`). For the writer `PipeKept` says that the bytes of a request are
  in the pipe from the first to the offset, each once and in order, and that with
  chunks no request in the pipe is younger than one in use; for the reaper
  `ThereKept` follows who asked for a pid through the loop that looks at all pids
  of a signal; for connections, `ready` ones are those whose connect has ended.
* `HandlersServeInOrder`: `Spec => ServedInOrder`. Only two steps can break the
  order: a request that is passed on at once, which the classes do only with
  nothing pending - nothing of its key, in the multi-sequential handler - and one
  that is forwarded, which is the first of its queue. The prioritizer passes on
  whenever its flag is down; `PrioritizingInv` says that with the flag down nothing
  waits, but for the call of a client's response handler, where the theorem, like
  the code, promises nothing about a newcomer.

They assume that bounds and parameters are naturals, that there is a queue, and
two for the dispatcher, which has two.

### Readers

`BytesReadersProofs` proves for all classes of readers, with any times, reads,
sizes, streams and parameters of the classes. What a read shares with any request
comes from `RequestHandlersProofs`; what is new is where the bytes are. `Follows(p, s)`
says that the bytes of `s` are those after the first `p` of the stream, and each
class keeps the bytes that the base reader has returned in a chain of such places:

* `ReadersInvariant`: `ReadersSpec => []ReadersInv`. `ReadersShared` is `SharedInv`
  with the reads to be answered by a later task (`LaterInv`: each of a read that is
  no longer open, each read once). Then one part for each class:
  `BufferedInv` - delivered bytes, those on their way to a handler, the buffer and
  nothing else, in this order when the client makes one read at a time;
  `SizeLimitedInv` with `Accounted` - what is left of the limit is the limit without
  what was taken, but for the bytes a handler is given just now, and `read_ongoing`
  tells of the one read at the base; `LinesInv` with `LinesAt(p)` - the bytes up to
  `p` went to lines or to requests that failed, then come the prefix of the line in
  progress and the buffer, and a byte delivered ends a line or is followed by the
  next one; `SourcesInv` - a byte of a descriptor is taken after it has arrived, and a read
  that was notified finds bytes unless another read took them; `UtilsInv` with
  `UtilsAt(p)` - the same as for lines, with what was collected so far.
* `ReadersImplementContract`: `ReadersSpec => ImplementsBytesReader`;
  `ReadersPreserveStream`: `StreamPreserved`; `ReadersKeepLimits`: `ReadLimitKept`,
  from that invariant.

Clients are those of the run: one read at a time for the lines reader, for the
functions that read more than once, and for `buffered_alone`. The proofs assume
that sizes, limits and times are naturals, and nothing else of the parameters.

### Resources

`ResourcesProofs` proves for any number of descriptors, objects, handles and
owners:

* `OwnedOnce` and `PreparedAlways`: `DescriptorsOwnedOnce` and
  `DescriptorsPrepared`. The functions that open several descriptors are chains of
  steps, each of which may fail; `TableOK` describes a table in the middle of
  such a call, with the descriptors that nobody owns yet and those not prepared yet.
* `OwnersEnd`: `OwnersEndActivities`, by `OneOwnerEach` (a task has one owner, the
  generator's handle among them) and `TickKept`.

### Only model-checked

* All liveness properties, which are out of the prover's reach: that tasks, requests
  and reads are served, and that workers, watches and quits come to their end.
* `ValuesInvert`: what the functions of `Values` compute cannot be proved for all
  inputs, as they are recursive over data. The samples take all values of small
  types and the edges of larger ones.

Every safety invariant, action property and refinement of the other passing runs
is a theorem. Type invariants are proved where a run checks them and are part of
the inductive invariants elsewhere.

## 5. Plan

1. Compositions: the lines handler over the dispatcher and the chunks writer
   themselves instead of over their contracts; the threaded handler over the pipe
   executor.
2. The hex answering program (`piped-program-hex-request-handler.cpp`) over the
   command and the lines handler.
3. The parts of `Values` without recursion in a module of their own, so that what
   comparisons, saturating sums and addresses promise can be proved for all inputs.

## 6. Not modelled

* What system calls do beyond opening, closing, readiness, partial reads and
  writes, exits and signals; the function of the threaded bytes writer; the
  program that answers hex encoded messages.
* Formatting of dates (digits and fractions are modelled, calendars are not), the
  comparison of tuple-likes, container and memory helpers, the destroy notifier.
* Overflow of time points of the loops (`time_point_sat_add` is modelled, the
  plain sums in `manual-event-loop.cpp:82` and the timed helpers are not).
* A worker of a joining pool that drops the last reference to it: the program
  terminates, and `owns => detach` excludes it.
* Starvation of watches by a task that re-enqueues itself at the current time:
  the code promises nothing there, and the bound on `invoke_at` calls hides it.
