# A formal model of wzy_server

wzy_server (`src/wzy_threadPool/`) is a small HTTP server in C++: one thread
runs an epoll loop with EPOLLONESHOT, a pool of eight worker threads parses
requests and builds responses, a pool of eight MySQL handles serves the workers,
a sorted list of timers closes idle connections, and a log with an optional
writer thread records what happens. This directory holds TLA+ models of its
parts, model-checked with TLC, and theorems about them proved with TLAPS.

Paths below are relative to `src/wzy_threadPool/`.

## 1. Inventory

| Component | Source | State | Operations | Talks to |
|---|---|---|---|---|
| Event loop | `server.cpp` main | `users[]`, `users_timer[]`, `pipefd`, `timeout`, `stop_server` | accept loop, EPOLLRDHUP / IN / OUT branches, signal pipe, `timer_handler` | timer list and http_conn (calls), thread pool (`append_job`), epoll, signals |
| Connection | `http/http_conn.cpp` | `m_sockfd`, buffers, `m_iv`, `m_user_count` (static), parser state | `init`, `close_conn`, `read`, `process`, `write` | main and the workers, through `users[fd]`; `modfd` re-arms epoll |
| Thread pool | `threadpool/threadpool.h`, `lock/locker.h` | `m_workqueue`, `m_queuestat`, `m_stop` | `append_job`, `run`, destructor | main appends, workers take; builds `connectionRAII` around `process()` |
| MySQL pool | `CGImysql/sql_connection_pool.*` | `connList`, semaphore `reserve`, two unsigned counters | `init`, `getConnection`, `releaseConnection`, `destroyPool` | workers, through `connectionRAII` and `request->mysql` |
| Timer list | `timer/lst_timer.*` | doubly linked list, sorted by `expire` | `add_timer`, `adjust_timer`, `del_timer`, `tick` | main only; `tick` calls `cb_func`, which closes a descriptor |
| Block queue | `log/block_queue.h` | ring buffer, mutex, condition variable | `push`, `pop`, `clear`, `front`, `back`, timed `pop` | `Log` (producers), log thread (consumer) |
| Log | `log/log.cpp`, `log/log.h` | current file, `m_today`, `m_count`, the queue | `init`, `write_log`, `async_write_log`, `flush` | every thread writes; the log thread empties the queue |
| Parser | `http/http_conn.cpp` | `m_check_state`, indices into `m_read_buf` | `parse_line`, `parse_*`, `process_read` | `read` |
| Response | `http/http_conn.cpp` | `m_write_buf`, `m_iv`, byte counters | `add_*`, `process_write`, `write` | main's EPOLLOUT branch |
| Accounts | `http/http_conn.cpp` | global map `users`, table `user` | `initmysql_result`, login, registration in `do_request` | workers, MySQL handle |
| End of main | `server.cpp` | all of the above | close, `delete`, static destructors | detached workers still run |

What is hard in it:

* **Interleaving.** Semaphores are posted after an unlock and waited for before a
  lock. `connList.size()` is tested outside the mutex. `process()` re-arms a
  connection before the worker has given its MySQL handle back, so a second
  worker can start on the same `http_conn`. A worker closes a descriptor while
  main accepts a new connection on it.
* **Descriptors are reused.** `users[fd]`, `users_timer[fd]`, pending events and
  timers carry a number, not a connection.
* **Order within a batch.** `timer_handler()` runs in the loop over the events of
  one `epoll_wait`, not after it.
* **Signals.** SIGALRM and SIGTERM are installed without SA_RESTART and may
  interrupt any worker's `sem_wait`; nobody looks at the result.
* **Partial failure.** The results of `append_job`, of the log's `push` and (for the
  map) of the INSERT are dropped.
* **Input and output in pieces.** A request may be cut into reads anywhere, and a
  response into writes; the state of both machines lives in the object between
  them, and over the next requests and connections of the same object.
* **Checks outside the lock.** `users.find`, the log's `full()` and the day a line
  belongs to are read before the section that acts on them.
* **Liveness.** The alarm is only set again by the handler of the last alarm.
* **Exit.** Detached workers run while the pools are destroyed.

What makes each part correct:

* MySQL pool: a handle is in one place; `front()` is never called on an empty
  list; counters are exact; waits end; nothing is used after `mysql_close`.
* Thread pool: no request sleeps in the list with all workers asleep.
* Request path: one thread works on an `http_conn` at a time, with its own handle.
* Timer list: well linked and sorted; a tick expires what is due and only that.
* Event loop: every open connection has a timer and will time out if silent; only
  inactive connections are closed by a tick; responses go to their owners; the
  user count is right and bounds the arrays.
* Block queue: a bounded FIFO that loses no wake-up.
* Log: each line once, lines of a caller in order, the file of the right day, and an
  end to the queue.
* Parser: the result depends on what was sent, not on how it was cut or on what the
  object served before; no answer before the request is complete.
* Response: each byte once, from a file that is still mapped.
* Accounts: what was acknowledged survives; map and table agree; a login needs a
  registered password; every form is answered.

## 2. Modules

### ConnectionPool
`sql_connection_pool.cpp`. A critical section is one step; `CheckSize` (the
unlocked test), `WaitReserve`, `Take`, `Release` and `Post` are apart because
the code does the wait and the post outside the mutex. `WaitInterrupted` is
`sem_wait` failing with EINTR. The number of handles `m_maxConn` is chosen in
`Init`. The unsigned counters live modulo `UIntRange`. `DestroyPool` is the
destructor of the static object; it runs once, at any time, with threads
anywhere. An attempt to take from an empty list is undefined behaviour in the
code; in the model the thread stops there, and `FrontExists` says when that
cannot happen. `Enough` names the case main sets up: in service, and at least as
many handles (8) as threads (8).

### ThreadPool
`threadpool.h` over `locker.h`. `AppendPush`/`AppendPost` are the two halves of
`append_job`, `TestStop`, `WaitStat`, `Pop`, `Finish` the loop of `run()`.
`QueueFull` has the comparison of the code (`>`). `Destroy` only sets `m_stop`.

### WorkerPool
Composes ThreadPool and ConnectionPool (both by INSTANCE, every step is one of
theirs plus what happens to the connection). `interest` is what epoll waits for on
each `http_conn` under EPOLLONESHOT, `mysql` the field `request->mysql` that
`connectionRAII` writes through. `process()` ends with `Process`, or with `close_conn()`
and the `modfd` after it call by call (`CloseRemoves`, `CloseClears`, `ModfdAfterClose`,
`http_conn.cpp:867-872`). Main closes a connection at any time (`CloseByMain`: its
events, or a timer, which are not in this module) and accepts on a closed number at any
time, so every one of these calls may meet another connection than the one the request
came from. `crossed` is a history variable: the objects a new connection took over while
they were queued or in `process()`, until an `accept()` that finds them idle.
`append_job` may refuse a request, and main goes on.

### Log, BlockQueue, BoundedFifo
BlockQueue is `block_queue.h`: the ring with its three indices, split at
`m_cond.wait()`, with spurious wake-ups. BoundedFifo is what it promises;
`ImplementsFifo` is the refinement, with the ring read off as a sequence. Log
composes it (by INSTANCE) with the threads that call `write_log()` and the log
thread of `async_write_log()`. A call of `write_log()` is `ReadTime`, `Localtime`,
`CopyTime` (`localtime()` returns one static buffer), `ChooseFile` (the first section
under `m_mutex`), `AskFull` and then `PushLine` or `PutLine`; the second section, which
formats the line, touches nothing others see and is part of `AskFull`. `Midnight` is
the clock. `files` is the history of `fputs()`, with the file that was open, and `burst`
that of the days calls have read since there was last no call in progress.

### Accounts
`do_request()` between a complete form and the page that answers it, with
`initmysql_result()` at (re)start. `RegisterFind` and `Login` read the map without
`m_lock`; `Lock`, `Insert`, `Store` (`users[name]`, which creates the entry) and `Assign`
are the registration. A lookup while another worker is between `Store` and `Assign` is a
data race and may miss any name. Until it is assigned, a new entry holds the empty
string, which is a password like any other (`Empty`): no form is refused for it. `Insert` may fail, or be executed and reported as
failed; `unique` leaves open whether the table has a key on the name. `Restart` ends the
process in any state; the map is read again from the table. `acked` and `refused` are
history.

### HttpParser, HttpConn
HttpParser has `process_read()` as operators on a record of the fields the code keeps
in the object. A byte of the buffer is CR, LF, NUL, a byte of a body, or a word that
stands for the text of a line, since a cut inside a text changes nothing for a scan
for CR and LF; a request line that is refused is "garbage", whatever is wrong with it.
The loop of `process_read()` is the recursive function `Loop` on turns, pairs of a record
and the status the loop is tested with: `NextLine` is the test, `Handled` the body.
HttpConn is the object over its life: `Accept`, `Read` (any number of bytes that
arrived, up to the room in the buffer), the four outcomes of `process()`, and `write()`
split at each `writev()`, which takes any part of what it is offered, blocks, or
fails. `wire` compares what the socket takes with the response: a byte is known by the
place it was taken from, so a byte offered from a wrong offset is seen. It starts again
when a request is read. `open()` and `mmap()` may fail, unchecked: `m_file_address` is
then `"failed"` (MAP_FAILED), the response goes out all the same, and `writev()` can take
nothing of the file. The length that `atol()` reads may be any integer (`BodyLength`).
`Close` is the timeout or the client's hang-up; it only comes while
main has the object, and what happens when a timeout takes the descriptor from under a
worker is in Reactor.

### TimerList, TimerSet
`lst_timer.cpp` with the pointers `head`, `tail`, `prev`, `next` and the nodes as
addresses that are freed and allocated again. TimerSet is the abstraction: a
function from pending timers to deadlines; `now`, the time of the last tick, is kept
in both, so that the refinement says which timers a tick at that time may expire.
`ImplementsTimerSet` is the refinement.
Reactor uses that abstraction (`left` is the time until the deadline).

### Reactor
The loop of `main()` with connections, descriptors, timers, signals, batches and
the workers inside `process()`. Main handles one event in one step, `accept` is a
loop of steps, and a worker's `close_conn()` is three (remove, clear, and the load
and store of `m_user_count--`, a plain int that may lose an update). What the
client does (`Connect`, `ClientSends`, `ClientEnds`) is outside the program. Parsing
and writing are their outcomes: incomplete, response, failure; blocked, all
sent, error, or a `write()` that never returns. That last one needs a response without a
file whose head EAGAIN has cut off (`m_iv`): `OnWriteHangs` leaves main at `"hung"`, and
the workers, clients and time go on. `OnReadable` may have its request refused by
`append_job` (`server.cpp:333`). `main = "undefined"` marks the use of a freed timer,
after which nothing more is said.

`MCTimerList`, `MCWorkerPool` and `MCReactor` add the symmetry sets for TLC (MCReactor also
how often each client sends), `MCHttpConn` the messages clients send. The modules named `...Proofs` hold the theorems, each about the module it
is named for; LogProofs also has those about BlockQueue, and HttpConnProofs those about
HttpParser.

How they fit together: WorkerPool is made of ThreadPool and ConnectionPool; Log of
BlockQueue; HttpConn of HttpParser. Reactor has the timer list as its abstraction
TimerSet, and parsing and writing as their outcomes, whose inside is HttpConn.
Accounts is the inside of `do_request()`, between taking a handle and arming the
response in WorkerPool. EPOLLONESHOT (`SingleFlight`) is why HttpConn may treat
`read()` and `process()` of an object as steps that do not overlap.

## 3. What the runs show

| Run | Bounds | Result |
|---|---|---|
| ConnectionPool | 3 threads, 1 to 3 handles | holds: TypeOK, FrontExists, HandleExclusive, CountersExact, NeverShort, NoUseAfterClose, WaitEnds |
| ThreadPool | 2 workers, 2 requests, limit 2 | holds: TypeOK, WakeupPerJob, JobsRun |
| WorkerPool | 2 workers, 2 objects, 2 handles, limit 1 | holds: TypeOK, SingleFlight, OwnHandle, ImplementsPool |
| TimerList | 4 timers, 3 times | holds: TypeOK, WellLinked, ImplementsTimerSet |
| Reactor | 2 descriptors, MAX_FD 2, 3 connections of which 1 sends, 1 worker, lifetime 1 | holds: TypeOK, OpenHasTimer, StaleFromWorkers, CountFollowsTimers, SilentClosed |
| Log | 2 callers of 2 lines each, 2 days, a file of 2 lines, queue of 2, with and without a queue | holds: TypeOK, EachLineOnce, OrderKept, CurrentFile, ImplementsFifo, Drained |
| Accounts | 2 workers, 1 name, 2 passwords, 1 of them empty, any number of forms and restarts | holds: TypeOK, AckedDurable, MapFollowsTable, WelcomeRegistered, Answered |
| HttpConn | a keep-alive request, then one of 4; buffer of 13, head and file of 2 bytes, 1 EAGAIN | holds: TypeOK, ParsedAsSent, NoEarlyAnswer, WholeCopies, MappedWhileSent |
| ReactorFreedTimer | 2 descriptors, 2 connections, 1 worker | **violated**: TimerIsThere |
| ReactorStaleTimer | as ReactorFreedTimer, lifetime 2, both clients send | **violated**: TickClosesInactive |
| HttpSplitBody | as HttpConn | **violated**: BodyRecognised |
| HttpSentTwice | as HttpConn | **violated**: SentOnce |

The four violations are behaviours of the code that contradict its comments:

* A tick in the middle of a batch frees a timer that a later event of the same
  batch still uses (`server.cpp:385`, `server.cpp:276`).
* `close_conn()` in a worker leaves the connection's timer in the list; `accept()` returns
  the number again, and the old timer closes the new, active connection
  (`http_conn.cpp:865-869`, against "inactive connections" in `server.cpp:83`).
* A body that is completed by a later read than its head is not recognised: the
  parser has moved `m_check_idx` over the first part, and waits for bytes the client
  will not send (`http_conn.cpp:370`, against lines 366-367).
* `write()` counts the head twice in `bytes_to_send` and gives `writev()` the same
  vectors again until that count is used up, so the client gets the response, and then
  as much of it again as the count is too large (`http_conn.cpp:632-634`, against
  `http_conn.h:150`).

What the passing properties except, they except by name:

* SingleFlight and OwnHandle except an object that was taken over by a new connection while
  it was queued or in `process()`: the `modfd` at the end of that `process()` arms the new
  connection, main may queue it again, and two workers are in one object.
* Timers are left behind, and the count parts from them, where a worker closes a
  connection; StaleFromWorkers and CountFollowsTimers say that nothing else does it.
* SilentClosed excepts a main that is not in its loop any more: SIGTERM, a freed timer, or
  a `write()` that hangs.
  It says that there is always a later moment with no connection open, as the clients, who
  connect once each, are all silent in the end.
* CurrentFile says nothing about a call beside which another day was read since the log was
  last at rest: a thread held up over midnight changes the file back.
* WelcomeRegistered excepts a login with the empty password for a name the database was
  sent (section 5).
* EachLineOnce allows a line to be lost in one way, OrderKept a change of order in one
  way; both ways happen (section 5).
* ParsedAsSent says nothing once the head was handled in an earlier read than the end
  of its body, which is what HttpSplitBody is about; of a request with a CR inside a line
  only that it is not answered (section 5 has the code it gets, against the comment); and of `cgi` only that a POST sets it.
* MappedWhileSent: where the mapping failed, what is claimed is that no byte beyond the
  head goes out.
* WholeCopies holds as long as the socket takes everything it is offered. A response may
  be followed by copies of itself. A client that keeps the connection takes a copy
  for its next response.

### Why the bounds are enough

* Three threads with one, two or three handles reach the cases "too few", "just
  enough" and "a handle passes between two others".
* The limits of the request list are 2 and 1; both refuse requests. In
  WorkerPool each connection may come back as often as it likes, so a request
  overtakes its predecessor's release, and each number may be closed and accepted again
  at every point of a request's way.
* In Log two lines a caller are enough for one to overtake the other, a queue of two
  for it to fill up between `full()` and `push()` and for its ring to wrap around, and
  `m_split_lines = 2` for a split on either day.
* In Accounts two workers with one name race; a second name is only a second copy.
* In HttpConn the second request on a connection meets what the first left; the buffer
  of 13 takes any one request (the longest has 11 bytes) and no two in a row; the 4 requests
  are a plain one with a stray CR, one with headers, one with a body and a bad one. Heads and files of two bytes can be cut, skipped and
  repeated. One EAGAIN cuts a response; each one more lengthens `m_iv[1]`, without
  a bound, so more are not explored.
* With four timers every operation meets a node at the head, in the middle and at
  the tail; three times give earlier, equal and later deadlines.
* In Reactor two descriptors are the smallest case of two open connections, and of two
  connections in one batch; with a third connection a number is used again while the
  other is open. One client sends, the other two only connect, which is the only
  difference between the three: a client that closes may be any that talks. `MaxActs = 1`: a
  client sends once; it bounds only what a client does. `EAGAIN` comes once for each
  response. `Lifetime` is 1 or 2 TIMESLOTs instead of 3; with 2 a tick meets timers that
  have time left. MAX_FD is 2, the number of descriptors, and is reached.
* `UIntRange` is small but larger than the number of handles.

### Fairness

* ConnectionPool, ThreadPool: weak fairness of every thread's own
  next step (and of the second half of `append_job`). The operating system
  schedules every runnable thread, and a query returns. It is weak, so no thread is
  promised a unit of a semaphore that others keep taking: `WaitEnds` needs the
  assumption `Enough`. Arrival of requests and interruption by signals is never
  assumed.
* Log: the log thread, which does nothing but pop and write, goes on, and a free mutex
  is not kept from it for ever. Callers and the clock owe nothing.
* Accounts: every worker goes on (the database answers), and strong fairness for
  `m_lock`, since a mutex that is free again and again is got in the end.
* WorkerPool, HttpConn: none; they have safety properties only.
* Reactor: main and the workers go on, time passes. `Terminate`, clients and
  the outcomes of parsing are free, so SilentClosed excepts a server that stops. That main
  goes on does not mean that `write()` returns: `OnWriteHangs` is an outcome of its own.

Deadlock checking is off where a system may really stop: ConnectionPool (a
thread with an empty list after destroyPool), ThreadPool (destroyed), Reactor (no
client acts, or main has left the loop), Log (the callers have written their lines and
no queue is used). It is on in WorkerPool, TimerList, Accounts and HttpConn.

## 4. What is proved

Every safety invariant, every action property and every refinement that a passing run
checks is also a theorem, for every value of the constants. The theorems rest on the
named assumptions of the modules, and TLC evaluates these in every run:

| Assumption | Says | In the code |
|---|---|---|
| PoolAssumption, ThreadPoolAssumption | finitely many threads and handles, a positive limit, `UIntRange` larger than the number of handles | main's 8 workers, 8 handles, 10000 requests; a 32-bit `unsigned int` |
| WorkerPoolAssumption | also no more workers than handles | main makes 8 of each |
| TimerAssumption | times are integers, NULL is no timer | `time_t`, pointers |
| ReactorAssumption | finitely many descriptors and connections, a positive lifetime, a number of acts for each client | `MAX_FD`, `3 * TIMESLOT` |
| LogAssumption | positive `m_split_lines` and queue size | `init(..., 800000, 8)` |
| AccountsAssumption | NULL is no worker; the empty string is a password | `http_conn.cpp:474-479` take any |
| ParserAssumption | CR, LF and NUL differ from each other and from text; a length is an integer | characters, `atol()` |
| HttpAssumption | clients send sequences of messages; a message has a request line, any number of headers in any order and with stray CRs, and a body exactly if it announces one of positive length; sizes are positive | `READ_BUFFER_SIZE`; a head is never empty |

**ConnectionPoolProofs.**
* `TypeCorrect`; `HandleExclusiveHolds` is inductive together with TypeOK.
* `Accounts` is the strengthening the rest needs. FrontExists is not inductive: it
  says nothing about a thread on its way to `Take`. `Accounts` counts: listed
  plus held handles are `m_maxConn` until the pool is destroyed, a thread with a
  handle is at "use", and (with `Enough`) units of `reserve` plus threads between
  `wait` and `post` are `m_maxConn` as well. `AccountsHold` proves it; the lemma
  `Room` draws from it that a thread that is not busy leaves a unit, and one without
  a handle leaves a handle. Hence `FrontExistsHolds` and `NeverShortHolds`.
* `CountersExactHolds`: by Accounts both sizes stay below `UIntRange`, so no
  decrement or increment modulo `UIntRange` wraps around.
* `NoUseAfterCloseHolds`: inductive relative to HandleExclusive, since
  `destroyPool` closes exactly what is listed.

**ThreadPoolProofs.** `TypeCorrect` and `WakeupPerJobHolds`: pending requests never
outnumber semaphore units, woken workers and the post under way. It is inductive
with TypeOK; an interrupted wait only adds a woken worker.

**WorkerPoolProofs.**
* `SingleFlightHolds`. The counts of SingleFlight do not say which place an object is in,
  so the inductive invariant says it place by place, for objects that are not crossed: what
  is queued is disarmed and queued once; what is processed is disarmed, not queued, and with
  one worker. An `accept()` is why the exception is needed, and all that is needed: on a
  number whose object is idle it starts afresh, on any other it makes the object crossed;
  the calls of `close_conn()` touch the object of their own worker only.
* `PoolRefined`: every step of the composition is a step of ConnectionPool or leaves its
  variables alone. ConnectionPoolProofs is instantiated, so its theorems hold of the
  pool inside the composition; with as many handles as workers `getConnection()` always
  gives a handle (`PoolInvariants`).
* `OwnHandleHolds`: what a worker inside `process()` holds is in `request->mysql`. That a
  processed object is with one worker is what keeps another from writing that field,
  although the object was armed before the worker before let go of its handle.

**TimerListProofs.** The list is well linked after any calls if each call keeps it so, and
a call walks along the list, which takes an induction over nodes. The invariant has that
induction inside: `FromHead` says that any set of nodes with `head` in it and closed
under `next` is all of them, `FromTail` the same from `tail` along `prev`. Each
helper of the code keeps the two (`InsertLinks`, `PushLinks`, `UnlinkedLinks`,
`TickedLinks`), and what a walk returns follows by taking for the set the nodes for
which the claim holds (`LastBeforeFits`, `ExpiredIsDue`). Hence `TypeCorrect`,
`WellLinkedHolds` and `SetRefined`: a tick expires exactly the timers whose deadline
has come, which needs the ascending order and that `next` reaches all of them.

**LogProofs.**
* `CurrentFileHolds`. The day of a file comes from `my_tm`, a copy of `localtime()`'s
  buffer, which holds what some thread read off the clock; the inductive invariant
  adds that none of these is ahead of the clock (`NoDayAhead`), and that in a burst of calls
  that have all read one day, that day is in the buffer from the first filling on, in every
  copy, and in m_today once a call has chosen the file (`OneDay`).
* `FifoRefined`: with `m_front` and `m_size` as BlockQueue keeps them, `m_back` is the slot
  of the last element (`Ring`); then `push` appends, `pop` takes the head (`PushAppends`,
  `PopTakesHead`), through the wrap-around of the indices.
* `EachLineOnceHolds`: the places of a line are followed through each step as a set, which
  moves, grows by one or stays (`PlacesPush`, `PlacesPop`, `PlacesPutByThread`, ...).
* `OrderKeptHolds`: the order in the files is not inductive; the invariant has the order in
  the queue (`Queued`), and of what the log thread has in hand before what is queued
  (`InHand`) and after what it has written (`Written`).

**AccountsProofs.** `TypeCorrect`, `AckedDurableHolds`, `MapFollowsTableHolds`,
`WelcomeRegisteredHolds`. MapFollowsTable needs to know what the worker inside the lock
has done so far: `Recorded` says that after its INSERT the form is in the table or among
the refused, and that its name is in the map once it is assigned; an empty password in
the map belongs to a worker about to assign it, which is why a login with the empty
password, and no other, may match a name that is not registered yet. `InvHolds` proves the conjunction.

**ReactorProofs.** `TypeCorrect`, `OpenHasTimerHolds`, `CountFollowsTimersHolds` and
`StaleFromWorkersHolds`, all with workers that close connections. OpenHasTimer alone is not
inductive, since `accept` must not overwrite a timer in use: the inductive invariant
adds that connections in the backlog have no timer yet. The argument for stale
timers is in `CbFuncKeepsTimers`: `cb_func` may close the wrong connection, but then
it is closed, so none is left open without a timer. The two action properties follow from
it, action by action: main's closes and ticks take as many timers off the list as they
count down, and the timer that a close of main deletes is, by OpenHasTimer, that of the
connection that had the descriptor.

**HttpConnProofs.** The input side, `TypeCorrect`, `NoEarlyAnswerHolds` and
`ParsedAsSentHolds`, for any messages and any cuts of them into reads:
* Induction is over sets of numbers (`NatSetInduction`, from the well-foundedness of `<`
  and the least element of a set), so that no theorem has an operator for a parameter.
* A recursive function is defined with CHOOSE, so it is its equation only if some
  function is. `WalkExists` and `RecursionExists` give one: for `Loop`, whose domain is
  infinite and which could run for ever for all that its definition says, and for the
  sums in `Stream` and `StartOf`.
* The loop ends: each turn makes `Left` smaller, the bytes not looked at twice plus one
  while a body was not looked at. `LoopEnds` is the rule drawn from it: a set of turns that
  each end in `Q` or go on within the set gives a result in `Q`.
* `EncodedIs` and `StreamHas` say which byte of a message, and of all that a client sends,
  is where.
* `LineAt` says that the parser is at line j of a message, with the fields the lines
  before it ask for and the bytes behind it as they were sent, the scan anywhere in line j;
  `BodyAt` that it is at the body, `Resumed` that it waits for the rest of one.
  `HeadTurn`, `BodyTurn` and `WaitTurn` take one turn from each, `HeadRun` and `BodyRun`
  a call of `process_read()`, and `MoreRead` a `read()`.
* `FollowInv` is the inductive invariant: if the parser began where a message begins, the
  record `Follows` that message, and the bytes in the buffer are those got since.
  `Typed` is the strengthening of TypeOK below it: `m_write_buf` is empty while a request
  is read, no length in `m_iv` is negative.

The output side, for any sizes, any short writes and any number of EAGAINs:
* `MappedWhileSentHolds` is inductive with TypeOK: while the mapping is not there `writev()`
  takes bytes of the head only, and the first byte of the file on the wire is behind them.
* `WholeCopiesHolds`: `CopyInv` adds that until a `writev()` takes less than it is offered,
  the vectors are those `process()` made, whatever lengths an earlier response left.
  What is offered is then the response, and each `writev()` takes one copy of it.

One thing was found by a proof that did not go through: the CASEs of ParseLine, ParseHeaders and
Expected had guards that overlap. TLC takes the first that holds, TLA+ leaves the choice
open; they are exclusive now, in the order of the code's tests.

Only model-checked: the liveness properties WaitEnds, JobsRun, SilentClosed,
Drained and Answered, since fairness needs ENABLED, which tlapm cannot reason about;
and of course the counterexamples of the four runs that find a violation.

## 5. Differences between code and comments that no run shows

Read in the code while modelling; the models have the code's behaviour or leave the
unused function out.

* `threadpool.h:85` tests `size() > m_max_requests`, so the list grows to
  `m_max_requests + 1`, although line 29 calls it the maximum.
* `threadpool.h:115` ignores EINTR from `sem_wait`; `locker.h:37` says the call blocks
  until the value is not 0.
* `~threadpool` (`threadpool.h:72`) wakes nobody: sleeping workers never see
  `m_stop`, which line 34 says ends the threads.
* A release after `destroyPool` decrements the unsigned `m_curConn` past 0
  (`sql_connection_pool.cpp:116,135`), and a thread that has passed the size test
  before it calls `front()` on the emptied list.
* `close_conn` in a worker and the leftover timer both count `m_user_count` down
  (`http_conn.cpp:128`, `server.cpp:89`), so it falls below the number of users.
* `block_queue::front` and `back` return with the mutex locked (`block_queue.h:137,150`
  against line 3), and `front` reads the slot popped last. The timed `pop` tests the
  size with `if` (line 234) and runs off its end when the queue is not empty.
  Nothing calls these three.
* Deadlines come from the wall clock (`server.cpp:339`). If it is set back,
  `adjust_timer` leaves the timer in place, and the list is no longer ascending.
  TimerList assumes deadlines only move forward.
* When a worker's `close_conn` crosses an accept on the same number, its later
  `modfd` is undone by `m_sockfd = -1` (the new connection stays disarmed until its timer
  closes it) or arms a registration that is not its own (`http_conn.cpp:867-872`), so that
  main may queue an object that is queued or with a worker, and a second worker overwrites
  its `mysql` (`threadpool.h:132`). The same happens when a timer closes a descriptor whose
  request is with a worker. And a batch event of a connection that a tick has just
  closed is applied to the next connection on the descriptor, which may then get the
  response to another client's request.
* `append_job` fails when the list is full, main ignores it (`server.cpp:333`), and the
  connection stays disarmed until its timer closes it.
* Log: the day and the time of a line may be another thread's (`log.cpp:90-91`); a
  thread held up over midnight switches the file back, and forth again for the next
  line (`log.cpp:118`); the suffix of a split is always 0, since `m_count` is a multiple of
  `m_split_lines` there (`log.cpp:138`), so all later lines of a day go to one file;
  a line is lost when the queue fills up between `full()` and `push()` (`log.cpp:178`); a
  line written because the queue is full comes before lines that are queued. The comment at
  `log.cpp:137` says the suffix is `m_count/m_split_lines`. `fopen` is not checked
  (`log.cpp:140`): after a failure every `fputs` goes to a null pointer. `init()` is
  called with a name without a directory, so `log_name` stays empty and files after the
  first have names without it (`log.cpp:53-58, 131`).
  `write_log` overwrites the newline it puts at the end of a line (`log.cpp:171-172`), so
  only a newline in the format ends one, and its levels 2 and 3 fall through to
  "[info]:" (lines 102-109).
* Registration: `find` is outside the lock (`http_conn.cpp:495`), so two clients that
  register one name may both be sent to /log.html if the table has no key on the
  name, and the later password replaces the earlier in the map. After a failed INSERT
  the name is in the map all the same (line 504): its owner is told of an error
  and can log in until the next start. If a name was registered, the failed INSERT of
  the one who lost the race replaces its password.
* Between `users[name]`, which creates the entry, and the assignment of the password
  (both `http_conn.cpp:504`) the map holds the empty string for a new name. An empty password is
  not refused (lines 474-479), so a login with one at that moment is welcomed (line 530).
  `do_request` also looks for `&` in the form, and copies the name, without a bound
  (lines 470-479): a form without `&`, or with a name or password longer than 99 bytes, runs
  over `name[100]` and `password[100]`.
* A CR inside a line is LINE_BAD for `parse_line`, and the loop of `process_read` ends as for a
  line that is not complete: NO_REQUEST, "the request is incomplete", and the server waits
  for more, where `http_conn.h:42-46` has BAD_REQUEST for a syntax error.
* `Content-Length` may be negative (`http_conn.cpp:348`): no body is then waited
  for, and `text[m_content_length] = 0` (line 372) writes in front of the body, or in front of the buffer.
* `open()` and `mmap()` are not checked (`http_conn.cpp:606-608`): after a failure, and for an
  empty file, `m_file_address` is MAP_FAILED; FILE_REQUEST is returned all the same, the client
  gets a head with the length of the file and no file, and `unmap()` is called on it.
* `init()` does not reset `cgi` and `m_string` (`http_conn.cpp:142-159`): after a POST, a GET
  of a page whose name starts with 2 or 3 is handled as a form, with what is left in the
  buffer; `http_conn.h` says of `cgi` that it tells whether the request is a POST.
  What a client sends before it is answered and is already in the buffer is
  dropped by `init()` (line 692).
* `add_content` is true when it succeeds, and the branches for 400 and 404 give up
  exactly then (`http_conn.cpp:798, 809`): those pages are never sent, the connection is
  closed.
* `write()` after EAGAIN: `m_iv[0].iov_base` moves by the bytes that are left, not by those
  sent (`http_conn.cpp:665`); `m_iv[1].iov_len` becomes a count that includes the
  head (line 660), so bytes behind the mapped file are offered; with a response without a
  file and its head sent, `writev()` is called with nothing to write and returns 0 for
  ever, in the main thread: no event is handled any more, and no idle connection closed. `m_iv[1].iov_len` stays, and is added to the
  length of a later response without a file (line 634).
* A connection closed while it waits for EPOLLOUT leaves its file mapped
  (`http_conn.cpp:616`, `server.cpp:83`).

## 6. Not modelled

* The end of main as a whole (`server.cpp:390-398`): `delete[] users` under running workers
  is undefined behaviour at once, and nothing can be said after it; the parts that are
  defined, the two pools' destructors, are in ThreadPool and ConnectionPool.
* Start-up: sequential, works or ends the program.
* Which page a request names and the text of heads and pages: no control depends on them.
* Pages, notes, build files: data.
* What follows a write outside an array (a name of more than 99 bytes, a negative length) or
  a log file that cannot be opened.
* `block_queue`'s uncalled functions and destructors that only free memory.

## 7. Plan

Done: ConnectionPool, ThreadPool, WorkerPool, TimerList, Reactor, Log over BlockQueue,
Accounts, HttpParser and HttpConn, and the theorems of section 4.

What is left:
1. An abstract specification of Accounts, an atomic register-if-absent, for a table with a
   key and without failing INSERTs, and the refinement.
2. ThreadPool as part of WorkerPool: its steps refined as those of the connection pool
   are, so that WakeupPerJob holds in the composition.
3. Bounds on how far `m_user_count` is off with closing workers.
4. A run in which the split files of a day are told apart by the suffix the comment names.
